--------------------------- MODULE Loader_proofs -----------------------------
(***************************************************************************)
(* Theorems about the file system tool and the boot loader, for images of  *)
(* any size and any tools killed anywhere.                                 *)
(*                                                                         *)
(* Of the tool: no block is held twice, the free counts promise no more    *)
(* than the bitmaps have, no name is twice in the root's first block, and  *)
(* the root's entries and its size agree.  The pointers of all blocks are  *)
(* treated as a value of their own, Ptr of block, since stores of entries  *)
(* and of data leave it alone: what an inode holds depends on the inode    *)
(* and on Ptr(block) only.                                                 *)
(*                                                                         *)
(* Of the loader: the file that it reads is the one that was written,      *)
(* block for block, and a kernel is found behind any other entries.  Most  *)
(* of that is about the tool again.  A file that needs double indirect     *)
(* blocks is read and written at different places, and what is written at  *)
(* the wrong one must not be a block of any other file.                    *)
(***************************************************************************)
EXTENDS Loader, FiniteSetTheorems, SequenceTheorems, TLAPS


Ind == [bytes : Nat, tot : Nat, direct : [0 .. D - 1 -> Block], pt1 : Block, pt2 : Block]
Ent == [name : Name \cup {NoName}, inum : 0 .. Inodes]
Blk == [ptr : [0 .. P - 1 -> Block], ent : [0 .. E - 1 -> Ent], data : (0 .. Inodes) \X Nat]

\* TypeOK, with the types named.
Types ==
  /\ ifree \in 0 .. Inodes /\ ibits \subseteq 1 .. Inodes
  /\ dfree \in 0 .. Blocks /\ dbits \subseteq 1 .. Blocks
  /\ inode \in [1 .. Inodes -> Ind] /\ block \in [Block -> Blk]
  /\ pc \in {"idle", "inode", "init", "names", "dirblock", "append", "tot", "entry",
             "bytes", "blocks", "data"}
  /\ name \in Name \cup {NoName} /\ len \in Lens \cup {0}
  /\ n \in 0 .. Inodes /\ i \in Nat /\ owner \in 0 .. Inodes /\ dnum \in Block
  /\ kills \in 0 .. MaxKills /\ done \subseteq 1 .. Inodes

ForRoot == pc \in {"append", "tot"} /\ owner = Root
ForFile == pc \in {"append", "tot"} /\ owner = n

\* What the locals are where they are used.
Working ==
  /\ Root \in ibits
  /\ pc # "idle" => len \in Lens
  /\ pc \notin {"idle", "inode"} => n \in ibits \ {Root}
  /\ pc \in {"append", "tot"} => owner \in {Root, n} /\ dnum \in dbits
  /\ pc \in {"blocks", "data"} => i <= len
  /\ ForFile => i < len

TInv == TypeOK /\ Working


\* How far the blocks of an inode are counted.
Progress ==
  /\ pc \in {"names", "dirblock", "entry", "bytes"} \/ ForRoot => inode[n].tot = 0
  /\ pc = "blocks" \/ ForFile => inode[n].tot = i
  /\ inode[Root].tot <= Cardinality(ibits)
  /\ pc \in {"init", "names", "dirblock"} \/ ForRoot => inode[Root].tot < Cardinality(ibits)

-----------------------------------------------------------------------------
(* The blocks of an inode ind, where the blocks hold the pointers p.       *)

Ptrs == [Block -> [0 .. P - 1 -> Block]]
Ptr(blk) == [b \in Block |-> blk[b].ptr]

MaxTot == D + P + P * P

\* Where the pointer to the x-th block is behind pt2.
Row(x) == (x - D - P) \div P
Col(x) == (x - D - P) % P

Loaded(ind, p, x) == IF x < D THEN ind.direct[x]
                     ELSE IF x < D + P THEN p[ind.pt1][x - D]
                     ELSE p[p[ind.pt2][Row(x)]][Col(x)]

\* The indirect blocks on the way to the x-th block are there.
Way(ind, p, x) == /\ x >= D => ind.pt1 # 0
                  /\ x >= D + P => ind.pt2 # 0 /\ p[ind.pt2][Row(x)] # 0

Shaped(ind, p) == ind.tot <= MaxTot /\ \A x \in 0 .. ind.tot - 1 : Way(ind, p, x)

\* Block b is in place x of the inode: see Held.
Holds(ind, p, x, b) ==
  \/ x \in 0 .. ind.tot - 1 /\ b = Loaded(ind, p, x)
  \/ x = -1 /\ ind.pt1 # 0 /\ b = ind.pt1
  \/ x = -2 /\ ind.pt2 # 0 /\ b = ind.pt2
  \/ ind.pt2 # 0 /\ -3 - x \in 0 .. P - 1 /\ b = p[ind.pt2][-3 - x] /\ b # 0

\* BlocksApart for a table of inodes and a bitmap.
Apart(ino, p, bits) ==
  /\ \A k \in 1 .. Inodes, x \in Int, b \in Block : Holds(ino[k], p, x, b) => b \in bits
  /\ \A k, l \in 1 .. Inodes, x, y \in Int, b \in Block :
       Holds(ino[k], p, x, b) /\ Holds(ino[l], p, y, b) => k = l /\ x = y

Unheld(ino, p, b) == \A k \in 1 .. Inodes, x \in Int : ~Holds(ino[k], p, x, b)

\* The block that is being appended, until it is counted.
Appended == pc = "tot" => /\ Tot < MaxTot /\ Way(inode[owner], Ptr(block), Tot)
                          /\ Loaded(inode[owner], Ptr(block), Tot) = dnum

Structure ==
  /\ \A k \in 1 .. Inodes : Shaped(inode[k], Ptr(block))
  /\ Apart(inode, Ptr(block), dbits)
  /\ pc \in {"append", "tot"} => Unheld(inode, Ptr(block), dnum)
  /\ Appended

Polls == dbits \subseteq 1 .. Polled /\ ibits \subseteq 1 .. Polled

SInv == TInv /\ Polls /\ Progress /\ Structure

-----------------------------------------------------------------------------
LEMMA Constants ==
  /\ D \in Nat \ {0} /\ P \in Nat \ {0} /\ E \in Nat \ {0}
  /\ Blocks \in Nat \ {0, 1} /\ Inodes \in Nat \ {0}
  /\ Polled \in Nat \ {0, 1} /\ MaxKills \in Nat /\ Lens \subseteq Nat \ {0}
BY MyfsAssumption

LEMMA Shapes == (TypeOK <=> Types) /\ (TypeOK' <=> Types')
BY DEF TypeOK, Types, Ind, Ent, Blk

LEMMA Empty == Cleared \in Blk /\ NewInode \in Ind
BY Constants DEF Cleared, NewInode, Blk, Ind, Ent, NoEntry, NoData, Block


(* Stores into the inode table and into the blocks: one field changes. *)

LEMMA IndFields ==
  ASSUME NEW ind \in Ind
  PROVE  /\ \A b \in Block : /\ [ind EXCEPT !.pt1 = b] \in Ind /\ [ind EXCEPT !.pt2 = b] \in Ind
                             /\ \A x : [ind EXCEPT !.direct[x] = b] \in Ind
         /\ \A m \in Nat : [ind EXCEPT !.bytes = m] \in Ind /\ [ind EXCEPT !.tot = m] \in Ind
BY DEF Ind

LEMMA BlkFields ==
  ASSUME NEW blk \in Blk
  PROVE  /\ \A b \in Block : \A k : [blk EXCEPT !.ptr[k] = b] \in Blk
         /\ \A e \in Ent : \A k : [blk EXCEPT !.ent[k] = e] \in Blk
         /\ \A d \in (0 .. Inodes) \X Nat : [blk EXCEPT !.data = d] \in Blk
BY DEF Blk

\* Only the entry of k is another.
Only(ino2, ino, k) == ino2 \in [1 .. Inodes -> Ind] /\ \A l \in 1 .. Inodes \ {k} : ino2[l] = ino[l]

LEMMA SetPt1 ==
  ASSUME NEW ino \in [1 .. Inodes -> Ind], NEW k \in 1 .. Inodes, NEW b \in Block
  PROVE  LET new == [ino EXCEPT ![k].pt1 = b]
         IN  /\ Only(new, ino, k)
             /\ new[k].pt1 = b /\ new[k].pt2 = ino[k].pt2 /\ new[k].direct = ino[k].direct
             /\ new[k].tot = ino[k].tot /\ new[k].bytes = ino[k].bytes
<1>1. ino[k] \in Ind OBVIOUS
<1>2. [ino[k] EXCEPT !.pt1 = b] \in Ind BY <1>1, IndFields
<1> QED BY <1>1, <1>2 DEF Only, Ind

LEMMA SetPt2 ==
  ASSUME NEW ino \in [1 .. Inodes -> Ind], NEW k \in 1 .. Inodes, NEW b \in Block
  PROVE  LET new == [ino EXCEPT ![k].pt2 = b]
         IN  /\ Only(new, ino, k)
             /\ new[k].pt2 = b /\ new[k].pt1 = ino[k].pt1 /\ new[k].direct = ino[k].direct
             /\ new[k].tot = ino[k].tot /\ new[k].bytes = ino[k].bytes
<1>1. ino[k] \in Ind OBVIOUS
<1>2. [ino[k] EXCEPT !.pt2 = b] \in Ind BY <1>1, IndFields
<1> QED BY <1>1, <1>2 DEF Only, Ind

Direct(new, ino, k, x, b) == new = [ino EXCEPT ![k].direct[x] = b]

Redirected(new, ind, x, b) ==
  /\ new.direct = [ind.direct EXCEPT ![x] = b]
  /\ new.pt1 = ind.pt1 /\ new.pt2 = ind.pt2
  /\ new.tot = ind.tot /\ new.bytes = ind.bytes

LEMMA SetDirect ==
  ASSUME NEW ino \in [1 .. Inodes -> Ind], NEW k \in 1 .. Inodes, NEW b \in Block,
         NEW x \in 0 .. D - 1, NEW new, Direct(new, ino, k, x, b)
  PROVE  /\ Only(new, ino, k)
         /\ Redirected(new[k], ino[k], x, b)
<1>1. ino[k] \in Ind OBVIOUS
<1>2. [ino[k] EXCEPT !.direct[x] = b] \in Ind BY <1>1, IndFields
<1> QED BY <1>1, <1>2 DEF Only, Ind, Direct, Redirected

LEMMA SetTot ==
  ASSUME NEW ino \in [1 .. Inodes -> Ind], NEW k \in 1 .. Inodes
  PROVE  LET new == [ino EXCEPT ![k].tot = @ + 1]
         IN  /\ Only(new, ino, k)
             /\ new[k].tot = ino[k].tot + 1
             /\ new[k].pt1 = ino[k].pt1 /\ new[k].pt2 = ino[k].pt2
             /\ new[k].direct = ino[k].direct /\ new[k].bytes = ino[k].bytes
<1>1. ino[k] \in Ind /\ ino[k].tot + 1 \in Nat BY DEF Ind
<1>2. [ino[k] EXCEPT !.tot = ino[k].tot + 1] \in Ind BY <1>1, IndFields
<1> QED BY <1>1, <1>2 DEF Only, Ind

LEMMA SetBytes ==
  ASSUME NEW ino \in [1 .. Inodes -> Ind], NEW k \in 1 .. Inodes
  PROVE  LET new == [ino EXCEPT ![k].bytes = @ + 1]
         IN  /\ Only(new, ino, k)
             /\ new[k].bytes = ino[k].bytes + 1
             /\ new[k].pt1 = ino[k].pt1 /\ new[k].pt2 = ino[k].pt2
             /\ new[k].direct = ino[k].direct /\ new[k].tot = ino[k].tot
<1>1. ino[k] \in Ind /\ ino[k].bytes + 1 \in Nat BY DEF Ind
<1>2. [ino[k] EXCEPT !.bytes = ino[k].bytes + 1] \in Ind BY <1>1, IndFields
<1> QED BY <1>1, <1>2 DEF Only, Ind

LEMMA StoresPtr ==
  ASSUME NEW blk \in [Block -> Blk], NEW c, NEW x, NEW b \in Block
  PROVE  LET new == [blk EXCEPT ![c].ptr[x] = b]
         IN  /\ new \in [Block -> Blk]
             /\ \A d \in Block : /\ new[d].ent = blk[d].ent /\ new[d].data = blk[d].data
                                 /\ new[d].ptr = IF d = c THEN [blk[d].ptr EXCEPT ![x] = b]
                                                          ELSE blk[d].ptr
<1>1. \A d \in Block : blk[d] \in Blk OBVIOUS
<1>2. \A d \in Block : [blk[d] EXCEPT !.ptr[x] = b] \in Blk BY <1>1, BlkFields
<1> QED BY <1>1, <1>2 DEF Blk

LEMMA StoresEnt ==
  ASSUME NEW blk \in [Block -> Blk], NEW c, NEW x, NEW e \in Ent
  PROVE  LET new == [blk EXCEPT ![c].ent[x] = e]
         IN  /\ new \in [Block -> Blk]
             /\ \A d \in Block : /\ new[d].ptr = blk[d].ptr /\ new[d].data = blk[d].data
                                 /\ new[d].ent = IF d = c THEN [blk[d].ent EXCEPT ![x] = e]
                                                          ELSE blk[d].ent
<1>1. \A d \in Block : blk[d] \in Blk OBVIOUS
<1>2. \A d \in Block : [blk[d] EXCEPT !.ent[x] = e] \in Blk BY <1>1, BlkFields
<1> QED BY <1>1, <1>2 DEF Blk

LEMMA StoresData ==
  ASSUME NEW blk \in [Block -> Blk], NEW c, NEW v \in (0 .. Inodes) \X Nat
  PROVE  LET new == [blk EXCEPT ![c].data = v]
         IN  /\ new \in [Block -> Blk]
             /\ \A d \in Block : new[d].ptr = blk[d].ptr /\ new[d].ent = blk[d].ent
<1>1. \A d \in Block : blk[d] \in Blk OBVIOUS
<1>2. \A d \in Block : [blk[d] EXCEPT !.data = v] \in Blk BY <1>1, BlkFields
<1> QED BY <1>1, <1>2 DEF Blk


-----------------------------------------------------------------------------
(* Types *)

LEMMA InitT == Init => TInv
<1> SUFFICES ASSUME Init PROVE TInv OBVIOUS
<1>1. 1 \in Block /\ 2 \in Block /\ 0 \in Block /\ Root \in 1 .. Inodes /\ 0 \in 0 .. D - 1
  BY Constants DEF Block, Root
<1>2. inode \in [1 .. Inodes -> Ind]
  <2>1. [NewInode EXCEPT !.bytes = 1] \in Ind BY Empty, IndFields
  <2>2. [NewInode EXCEPT !.bytes = 1, !.tot = 1] \in Ind BY <2>1, IndFields
  <2>3. [NewInode EXCEPT !.bytes = 1, !.tot = 1, !.direct[0] = 2] \in Ind BY <1>1, <2>2, IndFields
  <2> QED BY <2>3, Empty DEF Init
<1>3. block \in [Block -> Blk]
  <2>1. [name |-> NoName, inum |-> Root] \in Ent BY <1>1 DEF Ent
  <2>2. [Cleared EXCEPT !.ent[0] = [name |-> NoName, inum |-> Root]] \in Blk BY <2>1, Empty, BlkFields
  <2> QED BY <2>2, Empty DEF Init
<1>4. Types
  <2>1. ifree \in 0 .. Inodes /\ ibits \subseteq 1 .. Inodes BY <1>1, Constants DEF Init
  <2>2. dfree \in 0 .. Blocks /\ dbits \subseteq 1 .. Blocks BY Constants DEF Init
  <2>3. kills \in 0 .. MaxKills /\ n \in 0 .. Inodes /\ owner \in 0 .. Inodes /\ dnum \in Block
    BY <1>1, Constants DEF Init
  <2> QED BY <1>2, <1>3, <2>1, <2>2, <2>3 DEF Init, Types
<1>5. Working BY DEF Init, Working, ForFile
<1> QED BY <1>4, <1>5, Shapes DEF TInv

\* What an allocation does to the counts and the bitmaps.
LEMMA Taken ==
  ASSUME Types
  PROVE  /\ \A b \in 1 .. Blocks : TakeBlock(b) =>
              /\ dfree' \in 0 .. Blocks /\ dbits' \subseteq 1 .. Blocks /\ b \in Block
              /\ dbits \subseteq dbits' /\ b \in dbits' /\ ifree' = ifree /\ ibits' = ibits
         /\ \A k \in 1 .. Inodes : TakeInode(k) =>
              /\ ifree' \in 0 .. Inodes /\ ibits' \subseteq 1 .. Inodes
              /\ ibits' = ibits \cup {k} /\ k \notin ibits /\ dfree' = dfree /\ dbits' = dbits
<1>1. ASSUME NEW b \in 1 .. Blocks, TakeBlock(b)
      PROVE  /\ dfree' \in 0 .. Blocks /\ dbits' \subseteq 1 .. Blocks /\ b \in Block
             /\ dbits \subseteq dbits' /\ b \in dbits' /\ ifree' = ifree /\ ibits' = ibits
  BY <1>1, Constants DEF Types, TakeBlock, Block
<1>2. ASSUME NEW k \in 1 .. Inodes, TakeInode(k)
      PROVE  /\ ifree' \in 0 .. Inodes /\ ibits' \subseteq 1 .. Inodes
             /\ ibits' = ibits \cup {k} /\ k \notin ibits /\ dfree' = dfree /\ dbits' = dbits
  BY <1>2, Constants DEF Types, TakeInode, FirstClear
<1> QED BY <1>1, <1>2

LEMMA StepT == TInv /\ [Next]_vars => TInv'
<1> SUFFICES ASSUME TInv, [Next]_vars PROVE TInv' OBVIOUS
<1>t. Types /\ Working BY Shapes DEF TInv
<1>0. SUFFICES Types' /\ Working' BY Shapes DEF TInv
<1> USE DEF ForFile
<1>1. CASE WriteFile
  BY <1>1, <1>t DEF WriteFile, Types, Working, image
<1>2. CASE AllocateInode
  <2>1. PICK k \in 1 .. Inodes : TakeInode(k) /\ n' = k
    BY <1>2 DEF AllocateInode
  <2>2. ibits' = ibits \cup {k} /\ k \notin ibits BY <2>1, <1>t, Taken
  <2>4. ifree' \in 0 .. Inodes /\ ibits' \subseteq 1 .. Inodes /\ dfree' = dfree /\ dbits' = dbits
    BY <2>1, <1>t, Taken
  <2>3. Types' BY <1>2, <1>t, <2>1, <2>4 DEF AllocateInode, Types
  <2> QED BY <1>2, <1>t, <2>1, <2>2, <2>3 DEF AllocateInode, Types, Working
<1>3. CASE InitInode
  <2>1. len \in Nat BY <1>t, Constants DEF Types
  <2>2. [NewInode EXCEPT !.bytes = len] \in Ind BY <2>1, Empty, IndFields
  <2>3. inode' \in [1 .. Inodes -> Ind] BY <1>3, <2>2, <1>t DEF InitInode, Types
  <2> QED BY <1>3, <1>t, <2>3 DEF InitInode, Types, Working, locals
<1>4. CASE NameTaken
  BY <1>4, <1>t, Constants DEF NameTaken, Leave, Types, Working, image, Block
<1>5. CASE NameFree
  BY <1>5, <1>t DEF NameFree, Types, Working, image, locals
<1>6. CASE AllocateDirBlock
  <2>1. PICK b \in 1 .. Blocks : TakeBlock(b) /\ block' = [block EXCEPT ![b] = Cleared] /\ dnum' = b
    BY <1>6 DEF AllocateDirBlock
  <2>2. block' \in [Block -> Blk] BY <2>1, <1>t, Empty DEF Types
  <2>3. Root \in 0 .. Inodes BY <1>t DEF Types, Working
  <2>4. /\ dfree' \in 0 .. Blocks /\ dbits' \subseteq 1 .. Blocks /\ b \in Block
        /\ b \in dbits' /\ ifree' = ifree /\ ibits' = ibits
    BY <2>1, <1>t, Taken
  <2>5. Types' BY <1>6, <1>t, <2>1, <2>2, <2>3, <2>4 DEF AllocateDirBlock, Types
  <2> QED BY <1>6, <1>t, <2>1, <2>4, <2>5 DEF AllocateDirBlock, Working
<1>7. CASE AllocateFileBlock
  <2>1. PICK b \in 1 .. Blocks : TakeBlock(b) /\ block' = [block EXCEPT ![b] = Cleared] /\ dnum' = b
    BY <1>7 DEF AllocateFileBlock
  <2>2. block' \in [Block -> Blk] BY <2>1, <1>t, Empty DEF Types
  <2> QED BY <1>7, <1>t, <2>1, <2>2, Taken DEF AllocateFileBlock, Types, Working
<1>8. CASE StoreEntry
  <2>1. [name |-> name, inum |-> n] \in Ent BY <1>t DEF Types, Ent
  <2>2. block' \in [Block -> Blk] BY <1>8, <2>1, <1>t, StoresEnt DEF StoreEntry, Types
  <2> QED BY <1>8, <1>t, <2>2 DEF StoreEntry, Types, Working, locals
<1>9. CASE CountEntry
  <2>1. inode' \in [1 .. Inodes -> Ind] BY <1>9, <1>t, SetBytes DEF CountEntry, Types, Working, Only
  <2>2. 0 <= len BY <1>t, Constants DEF Types
  <2> QED BY <1>9, <1>t, <2>1, <2>2 DEF CountEntry, Types, Working
<1>10. CASE BlocksDone
  <2>1. 0 <= len BY <1>t, Constants DEF Types
  <2> QED BY <1>10, <1>t, <2>1 DEF BlocksDone, Types, Working, image
<1>11. CASE StoreData
  <2>1. <<n, i>> \in (0 .. Inodes) \X Nat BY <1>t DEF Types
  <2>2. block' \in [Block -> Blk] BY <1>11, <2>1, <1>t, StoresData DEF StoreData, Types
  <2>3. i \in Nat /\ len \in Nat BY <1>t, Constants DEF Types
  <2> QED BY <1>11, <1>t, <2>2, <2>3 DEF StoreData, Types, Working
<1>12. CASE Return
  BY <1>12, <1>t, Constants DEF Return, Leave, Types, Working, image, Block
<1>13. CASE AllocateIndirect
  <2>1. PICK b \in 1 .. Blocks :
          /\ TakeBlock(b)
          /\ \/ NeedsPt1 /\ inode' = [inode EXCEPT ![owner].pt1 = b]
                /\ block' = [block EXCEPT ![b] = Cleared]
             \/ NeedsPt2 /\ inode' = [inode EXCEPT ![owner].pt2 = b]
                /\ block' = [block EXCEPT ![b] = Cleared]
             \/ NeedsPtr /\ UNCHANGED inode
                /\ block' = [block EXCEPT ![b] = Cleared, ![inode[owner].pt2].ptr[Idx1] = b]
    BY <1>13 DEF AllocateIndirect
  <2>2. b \in Block /\ owner \in 1 .. Inodes BY <2>1, <1>13, <1>t, Taken DEF AllocateIndirect, Types, Working
  <2>3. [block EXCEPT ![b] = Cleared] \in [Block -> Blk] BY <1>t, Empty DEF Types
  <2>4. block' \in [Block -> Blk]
    <3>1. PICK blk : blk = [block EXCEPT ![b] = Cleared] OBVIOUS
    <3>2. blk \in [Block -> Blk] BY <2>3, <3>1
    <3>3. block' = blk \/ block' = [blk EXCEPT ![inode[owner].pt2].ptr[Idx1] = b] BY <2>1, <3>1
    <3>4. PICK c, x : c = inode[owner].pt2 /\ x = Idx1 OBVIOUS
    <3>5. [blk EXCEPT ![c].ptr[x] = b] \in [Block -> Blk] BY <2>2, <3>2, StoresPtr
    <3> QED BY <3>2, <3>3, <3>4, <3>5
  <2>5. inode' \in [1 .. Inodes -> Ind]
    <3>1. inode \in [1 .. Inodes -> Ind] BY <1>t DEF Types
    <3>2. [inode EXCEPT ![owner].pt1 = b] \in [1 .. Inodes -> Ind] BY <2>2, <3>1, SetPt1 DEF Only
    <3>3. [inode EXCEPT ![owner].pt2 = b] \in [1 .. Inodes -> Ind] BY <2>2, <3>1, SetPt2 DEF Only
    <3> QED BY <2>1, <3>1, <3>2, <3>3
  <2> QED BY <1>13, <1>t, <2>1, <2>4, <2>5, Taken DEF AllocateIndirect, Types, Working, locals
<1>14. CASE StorePointer
  <2>1. owner \in 1 .. Inodes BY <1>14, <1>t DEF StorePointer, Types, Working
  <2>2. inode' \in [1 .. Inodes -> Ind]
    <3>1. CASE Tot < D
      <4>1. PICK x \in 0 .. D - 1 : x = Tot BY <1>t, <2>1, <3>1, Constants DEF Tot, Types, Ind
      <4>2. ~(Tot \in D .. D + P - 1) /\ ~(Tot >= D + P) BY <3>1, <4>1, Constants
      <4>3. Direct(inode', inode, owner, x, dnum) BY <1>14, <4>1, <4>2 DEF StorePointer, Link, Direct
      <4> QED BY <1>t, <2>1, <4>3, SetDirect DEF Types, Only
    <3>2. CASE ~ (Tot < D) BY <1>14, <1>t, <3>2 DEF StorePointer, Link, Types
    <3> QED BY <3>1, <3>2
  <2>3. block' \in [Block -> Blk]
    <3>1. block \in [Block -> Blk] /\ dnum \in Block BY <1>t DEF Types
    <3>2. \A c, x : [block EXCEPT ![c].ptr[x] = dnum] \in [Block -> Blk] BY <3>1, StoresPtr
    <3>3. Link BY <1>14 DEF StorePointer
    <3>4. CASE UNCHANGED block BY <3>1, <3>4
    <3>5. ASSUME NEW c, NEW x, block' = [block EXCEPT ![c].ptr[x] = dnum]
          PROVE  block' \in [Block -> Blk]
      <4>1. [block EXCEPT ![c].ptr[x] = dnum] \in [Block -> Blk] BY <3>2
      <4> QED BY <3>5, <4>1
    <3>6. UNCHANGED block \/ \E c, x : block' = [block EXCEPT ![c].ptr[x] = dnum] BY <3>3 DEF Link
    <3> QED BY <3>4, <3>5, <3>6
  <2> QED BY <1>14, <1>t, <2>2, <2>3 DEF StorePointer, Types, Working, locals
<1>15. CASE CountBlock
  <2>1. owner \in 1 .. Inodes BY <1>15, <1>t DEF CountBlock, Types, Working
  <2>2. inode' \in [1 .. Inodes -> Ind] BY <1>15, <1>t, <2>1, SetTot DEF CountBlock, Types, Only
  <2>3. i \in Nat /\ len \in Nat BY <1>t, Constants DEF Types
  <2> QED BY <1>15, <1>t, <2>2, <2>3 DEF CountBlock, Types, Working
<1>16. CASE Kill
  <2>1. Leave /\ kills' = kills + 1 /\ kills < MaxKills /\ UNCHANGED <<inode, block, done>>
        /\ UNCHANGED ibits
    BY <1>16, <1>t, Taken DEF Kill
  <2>2. ifree' \in 0 .. Inodes /\ dfree' \in 0 .. Blocks /\ dbits' \subseteq 1 .. Blocks
    <3>1. CASE UNCHANGED <<ifree, ibits, dfree, dbits>> BY <3>1, <1>t DEF Types
    <3>2. CASE ifree > 0 /\ ifree' = ifree - 1 /\ UNCHANGED <<dfree, dbits>>
      BY <3>2, <1>t, Constants DEF Types
    <3>3. CASE dfree > 0 /\ dfree' = dfree - 1 /\ UNCHANGED <<ifree, dbits>>
      BY <3>3, <1>t, Constants DEF Types
    <3>4. CASE \E b \in 1 .. Blocks : TakeBlock(b)
      <4>1. PICK b \in 1 .. Blocks : TakeBlock(b) BY <3>4
      <4> QED BY <4>1, <1>t, Taken DEF Types
    <3> QED BY <1>16, <3>1, <3>2, <3>3, <3>4 DEF Kill
  <2>3. kills' \in 0 .. MaxKills BY <2>1, <1>t, Constants DEF Types
  <2> QED BY <1>t, <2>1, <2>2, <2>3, Constants DEF Leave, Types, Working, Block
<1>17. CASE UNCHANGED vars
  BY <1>17, <1>t DEF vars, image, locals, Types, Working
<1> QED BY <1>1, <1>2, <1>3, <1>4, <1>5, <1>6, <1>7, <1>8, <1>9, <1>10, <1>11, <1>12, <1>13,
           <1>14, <1>15, <1>16, <1>17 DEF Next

\* Each variable has its type, for every image and every number of kills.
THEOREM TypeCorrect == Spec => []TypeOK
BY InitT, StepT, PTL DEF Spec, TInv

-----------------------------------------------------------------------------
(* Counts *)

LEMMA Sets ==
  ASSUME Types
  PROVE  /\ IsFiniteSet(dbits) /\ Cardinality(dbits) \in 0 .. Blocks
         /\ IsFiniteSet(ibits) /\ Cardinality(ibits) \in 0 .. Inodes
<1>1. /\ IsFiniteSet(1 .. Blocks) /\ Cardinality(1 .. Blocks) = Blocks
      /\ IsFiniteSet(1 .. Inodes) /\ Cardinality(1 .. Inodes) = Inodes
  BY Constants, FS_Interval
<1>2. dbits \subseteq 1 .. Blocks /\ ibits \subseteq 1 .. Inodes BY DEF Types
<1>3. /\ IsFiniteSet(dbits) /\ Cardinality(dbits) <= Blocks
      /\ IsFiniteSet(ibits) /\ Cardinality(ibits) <= Inodes
  BY <1>1, <1>2, FS_Subset
<1>4. Cardinality(dbits) \in Nat /\ Cardinality(ibits) \in Nat BY <1>3, FS_CardinalityType
<1> QED BY <1>3, <1>4, Constants

\* An allocation sets one bit that was clear.
LEMMA OneMore ==
  ASSUME Types
  PROVE  /\ \A b \in 1 .. Blocks : TakeBlock(b) =>
              /\ dfree' = dfree - 1 /\ Cardinality(dbits') = Cardinality(dbits) + 1
              /\ ifree' = ifree /\ ibits' = ibits
         /\ \A k \in 1 .. Inodes : TakeInode(k) =>
              /\ ifree' = ifree - 1 /\ Cardinality(ibits') = Cardinality(ibits) + 1
              /\ dfree' = dfree /\ dbits' = dbits
<1>1. ASSUME NEW b \in 1 .. Blocks, TakeBlock(b)
      PROVE  Cardinality(dbits') = Cardinality(dbits) + 1
  <2>1. b \notin dbits /\ dbits' = dbits \cup {b} BY <1>1 DEF TakeBlock, FirstClear
  <2> QED BY <2>1, Sets, FS_AddElement
<1>2. ASSUME NEW k \in 1 .. Inodes, TakeInode(k)
      PROVE  Cardinality(ibits') = Cardinality(ibits) + 1
  <2>1. k \notin ibits /\ ibits' = ibits \cup {k} BY <1>2 DEF TakeInode, FirstClear
  <2> QED BY <2>1, Sets, FS_AddElement
<1> QED BY <1>1, <1>2 DEF TakeBlock, TakeInode

LEMMA InitC == Init => CountsSafe
<1> SUFFICES ASSUME Init PROVE CountsSafe OBVIOUS
<1>1. IsFiniteSet({1}) /\ Cardinality({1}) = 1 BY FS_Singleton
<1>2. Cardinality({1} \cup {2}) = 2 BY <1>1, FS_AddElement
<1>3. Cardinality({1, 2}) = 2
  <2>1. {1, 2} = {1} \cup {2} OBVIOUS
  <2> QED BY <1>2, <2>1
<1> QED BY <1>1, <1>3, Constants DEF Init, CountsSafe, Root

LEMMA StepC == TInv /\ CountsSafe /\ [Next]_vars => CountsSafe'
<1> SUFFICES ASSUME TInv, CountsSafe, [Next]_vars PROVE CountsSafe' OBVIOUS
<1>t. Types BY Shapes DEF TInv
<1>0. PICK di, ii \in Nat : Cardinality(dbits) = di /\ Cardinality(ibits) = ii BY <1>t, Sets
<1>c. /\ Blocks - di - dfree \in 0 .. kills /\ Inodes - ii - ifree \in 0 .. kills
      /\ kills \in Nat /\ dfree \in Nat /\ ifree \in Nat /\ Blocks \in Nat /\ Inodes \in Nat
  BY <1>0, <1>t, Constants DEF CountsSafe, Types
<1>1. CASE UNCHANGED <<ifree, ibits, dfree, dbits, kills>> BY <1>1 DEF CountsSafe
<1>2. CASE (\E k \in 1 .. Inodes : TakeInode(k)) /\ UNCHANGED kills
  BY <1>0, <1>2, <1>t, <1>c, OneMore DEF CountsSafe
<1>3. CASE (\E b \in 1 .. Blocks : TakeBlock(b)) /\ (UNCHANGED kills \/ kills' = kills + 1)
  <2>1. /\ dfree' = dfree - 1 /\ Cardinality(dbits') = di + 1 /\ ifree' = ifree
        /\ Cardinality(ibits') = ii
    BY <1>0, <1>3, <1>t, OneMore
  <2> QED BY <1>3, <1>c, <2>1 DEF CountsSafe
<1>4. CASE Kill
  <2>1. kills' = kills + 1 BY <1>4 DEF Kill
  <2>2. CASE \E b \in 1 .. Blocks : TakeBlock(b) BY <1>3, <2>1, <2>2
  <2>3. CASE /\ UNCHANGED <<ibits, dbits>>
             /\ ifree' = ifree \/ ifree' = ifree - 1
             /\ dfree' = dfree \/ dfree' = dfree - 1
    BY <1>0, <1>c, <2>1, <2>3 DEF CountsSafe
  <2> QED BY <1>4, <2>2, <2>3 DEF Kill
<1> QED
  BY <1>1, <1>2, <1>3, <1>4 DEF Next, WriteFile, AllocateInode, InitInode, NameTaken, NameFree,
     AllocateDirBlock, AllocateFileBlock, StoreEntry, CountEntry, BlocksDone, StoreData, Return,
     AllocateIndirect, StorePointer, CountBlock, vars, image

\* The free counts never promise more than the bitmaps have, and lose at most
\* one for each tool that was killed, however many blocks and inodes there are.
THEOREM Counted == Spec => []CountsSafe
<1>1. Init => TInv /\ CountsSafe BY InitT, InitC
<1>2. TInv /\ CountsSafe /\ [Next]_vars => (TInv /\ CountsSafe)' BY StepT, StepC
<1> QED BY <1>1, <1>2, PTL DEF Spec

-----------------------------------------------------------------------------
(* What a store does to the blocks that one inode holds. *)

LEMMA DivMod ==
  ASSUME NEW q \in Nat, NEW N \in Nat \ {0}
  PROVE  /\ q \div N \in Nat /\ q % N \in 0 .. N - 1
         /\ q = (q \div N) * N + (q % N)
         /\ q < N * N => q \div N < N
<1>1. PICK d \in Nat : d = q \div N OBVIOUS
<1>2. PICK r \in 0 .. N - 1 : r = q % N OBVIOUS
<1>3. q = d * N + r BY <1>1, <1>2
<1>4. ASSUME N <= d PROVE q >= N * N
  <2>1. PICK e \in Nat : d = N + e BY <1>4
  <2>2. d * N = N * N + e * N BY <2>1
  <2>3. e * N \in Nat /\ N * N \in Nat BY <2>1
  <2> QED BY <1>3, <2>2, <2>3
<1>5. N * N \in Nat OBVIOUS
<1>6. q < N * N => d < N BY <1>4, <1>5
<1>7. /\ d \in Nat /\ r \in 0 .. N - 1 /\ q = d * N + r
      /\ q < N * N => d < N
  BY <1>3, <1>6
<1> QED BY <1>1, <1>2, <1>7

LEMMA Places ==
  /\ MaxTot \in Nat /\ D + P <= MaxTot
  /\ \A x \in D + P .. MaxTot - 1 : /\ Row(x) \in 0 .. P - 1 /\ Col(x) \in 0 .. P - 1
                                    /\ x - D - P - Row(x) * P = Col(x)
  /\ \A x, y \in D + P .. MaxTot - 1 : Row(x) = Row(y) /\ Col(x) = Col(y) => x = y
<1>1. P * P \in Nat BY Constants
<1>2. MaxTot \in Nat /\ D + P <= MaxTot BY <1>1, Constants DEF MaxTot
<1>3. ASSUME NEW x \in D + P .. MaxTot - 1
      PROVE  /\ Row(x) \in 0 .. P - 1 /\ Col(x) \in 0 .. P - 1
             /\ Row(x) * P \in Nat /\ x - D - P = Row(x) * P + Col(x)
  <2>1. PICK q \in Nat : q = x - D - P BY <1>2, Constants
  <2>2. PICK m \in Nat : m = P * P BY <1>1
  <2>3. q < P * P BY <2>1, <2>2, <1>2, Constants DEF MaxTot
  <2>4. Row(x) = q \div P /\ Col(x) = q % P BY <2>1 DEF Row, Col
  <2>5. Row(x) \in Nat /\ Row(x) < P /\ Col(x) \in 0 .. P - 1 /\ q = Row(x) * P + Col(x)
    <3>1. P \in Nat \ {0} BY Constants
    <3>2. /\ q \div P \in Nat /\ q % P \in 0 .. P - 1 /\ q = (q \div P) * P + (q % P)
          /\ q < P * P => q \div P < P
      BY <3>1, DivMod
    <3> QED BY <2>3, <2>4, <3>2
  <2>6. Row(x) * P \in Nat BY <2>5, Constants
  <2> QED BY <2>1, <2>5, <2>6, Constants
<1>4. ASSUME NEW x \in D + P .. MaxTot - 1
      PROVE  x - D - P - Row(x) * P = Col(x)
  <2>1. PICK m \in Nat : m = Row(x) * P BY <1>3
  <2>2. PICK c \in Nat : c = Col(x) BY <1>3, Constants
  <2>3. x - D - P = m + c BY <1>3, <2>1, <2>2
  <2> QED BY <2>1, <2>2, <2>3, <1>2, Constants
<1>5. ASSUME NEW x \in D + P .. MaxTot - 1, NEW y \in D + P .. MaxTot - 1,
             Row(x) = Row(y), Col(x) = Col(y)
      PROVE  x = y
  <2>1. x - D - P = y - D - P BY <1>3, <1>5
  <2> QED BY <2>1, <1>2, Constants
<1>6. \A x \in D + P .. MaxTot - 1 : /\ Row(x) \in 0 .. P - 1 /\ Col(x) \in 0 .. P - 1
                                     /\ x - D - P - Row(x) * P = Col(x)
  BY <1>3, <1>4
<1>7. \A x, y \in D + P .. MaxTot - 1 : Row(x) = Row(y) /\ Col(x) = Col(y) => x = y
  BY <1>5
<1> QED BY <1>2, <1>6, <1>7

LEMMA PtrType ==
  ASSUME NEW p \in Ptrs, NEW c \in Block, NEW m \in 0 .. P - 1
  PROVE  p[c][m] \in Block
BY DEF Ptrs

LEMMA LoadedType ==
  ASSUME NEW ind \in Ind, NEW p \in Ptrs, NEW x \in Nat, x < MaxTot
  PROVE  Loaded(ind, p, x) \in Block
<1>1. CASE x < D BY <1>1, Constants DEF Loaded, Ind
<1>2. CASE ~ (x < D) /\ x < D + P
  <2>1. x - D \in 0 .. P - 1 BY <1>2, Constants
  <2>2. p[ind.pt1][x - D] \in Block BY <2>1 DEF Ptrs, Ind
  <2> QED BY <1>2, <2>2 DEF Loaded
<1>3. CASE ~ (x < D) /\ ~ (x < D + P)
  <2>1. x \in D + P .. MaxTot - 1 BY <1>3, Constants, Places
  <2>2. Row(x) \in 0 .. P - 1 /\ Col(x) \in 0 .. P - 1 BY <2>1, Places
  <2>3. p[ind.pt2][Row(x)] \in Block BY <2>2 DEF Ptrs, Ind
  <2>4. p[p[ind.pt2][Row(x)]][Col(x)] \in Block BY <2>2, <2>3 DEF Ptrs
  <2> QED BY <1>3, <2>4 DEF Loaded
<1> QED BY <1>1, <1>2, <1>3

\* The indirect blocks that an inode holds.
LEMMA Indirect ==
  ASSUME NEW ind \in Ind, NEW p \in Ptrs
  PROVE  /\ ind.pt1 # 0 => Holds(ind, p, -1, ind.pt1)
         /\ ind.pt2 # 0 => Holds(ind, p, -2, ind.pt2)
         /\ \A m \in 0 .. P - 1 : ind.pt2 # 0 /\ p[ind.pt2][m] # 0
              => -3 - m \in Int /\ -3 - m < 0 /\ Holds(ind, p, -3 - m, p[ind.pt2][m])
<1>1. -1 # -2 OBVIOUS
<1>2. ASSUME NEW m \in 0 .. P - 1, ind.pt2 # 0, p[ind.pt2][m] # 0
      PROVE  -3 - m \in Int /\ -3 - m < 0 /\ Holds(ind, p, -3 - m, p[ind.pt2][m])
  <2>1. -3 - m \in Int /\ -3 - m < 0 /\ -3 - (-3 - m) = m BY Constants
  <2>2. PICK x \in Int : x = -3 - m /\ -3 - x = m BY <2>1
  <2>3. Holds(ind, p, x, p[ind.pt2][m]) BY <1>2, <2>2 DEF Holds
  <2> QED BY <2>1, <2>2, <2>3
<1> QED BY <1>2 DEF Holds

LEMMA Frame ==
  ASSUME NEW ind \in Ind, NEW p \in Ptrs, NEW p2 \in Ptrs, Shaped(ind, p),
         \A x \in Int, b \in Block : x < 0 /\ Holds(ind, p, x, b) => p2[b] = p[b]
  PROVE  /\ Shaped(ind, p2)
         /\ \A x \in Int, b \in Block : Holds(ind, p2, x, b) => Holds(ind, p, x, b)
<1>0. ind.pt1 \in Block /\ ind.pt2 \in Block /\ ind.tot \in Nat /\ -1 \in Int /\ -2 \in Int
  BY DEF Ind
<1>1. /\ ind.pt1 # 0 => p2[ind.pt1] = p[ind.pt1]
      /\ ind.pt2 # 0 => p2[ind.pt2] = p[ind.pt2]
  BY <1>0, Indirect
<1>2. ASSUME NEW m \in 0 .. P - 1, ind.pt2 # 0, p[ind.pt2][m] # 0
      PROVE  p2[p[ind.pt2][m]] = p[p[ind.pt2][m]]
  <2>1. p[ind.pt2][m] \in Block BY <1>0 DEF Ptrs
  <2> QED BY <1>2, <2>1, Indirect
<1>3. ASSUME NEW x \in 0 .. ind.tot - 1
      PROVE  Way(ind, p2, x) /\ Loaded(ind, p2, x) = Loaded(ind, p, x)
  <2>1. Way(ind, p, x) BY DEF Shaped
  <2>2. CASE x < D BY <1>0, <2>2, Constants DEF Way, Loaded
  <2>3. CASE ~ (x < D) /\ x < D + P BY <1>0, <1>1, <2>1, <2>3, Constants DEF Way, Loaded
  <2>4. CASE ~ (x < D) /\ ~ (x < D + P)
    <3>1. x \in D + P .. MaxTot - 1 BY <1>0, <2>4, Constants, Places DEF Shaped
    <3>2. Row(x) \in 0 .. P - 1 BY <3>1, Places
    <3>3. x >= D + P BY <1>0, <2>4, Constants
    <3>4. ind.pt2 # 0 /\ p[ind.pt2][Row(x)] # 0 BY <2>1, <3>3 DEF Way
    <3>5. /\ p2[ind.pt2] = p[ind.pt2]
          /\ p2[p[ind.pt2][Row(x)]] = p[p[ind.pt2][Row(x)]]
      BY <1>1, <1>2, <3>2, <3>4
    <3> QED BY <2>1, <2>4, <3>4, <3>5 DEF Way, Loaded
  <2> QED BY <2>2, <2>3, <2>4
<1>4. Shaped(ind, p2) BY <1>3 DEF Shaped
<1>5. ASSUME NEW x \in Int, NEW b \in Block, Holds(ind, p2, x, b)
      PROVE  Holds(ind, p, x, b)
  BY <1>1, <1>3, <1>5 DEF Holds
<1> QED BY <1>4, <1>5

LEMMA NewPt1 ==
  ASSUME NEW ind \in Ind, NEW new \in Ind, NEW p \in Ptrs, Shaped(ind, p), NEW b \in Block \ {0},
         ind.pt1 = 0, ind.tot < D + P,
         new.pt1 = b, new.pt2 = ind.pt2, new.direct = ind.direct, new.tot = ind.tot
  PROVE  /\ Shaped(new, p)
         /\ \A x \in Int, c \in Block : Holds(new, p, x, c) => Holds(ind, p, x, c) \/ (x = -1 /\ c = b)
<1>1. ind.tot \in Nat BY DEF Ind
<1>2. ASSUME NEW x \in 0 .. ind.tot - 1 PROVE x < D
  BY <1>1, Constants DEF Shaped, Way
<1>3. ASSUME NEW x \in 0 .. ind.tot - 1
      PROVE  Way(new, p, x) /\ Loaded(new, p, x) = Loaded(ind, p, x)
  BY <1>1, <1>2, Constants DEF Way, Loaded
<1>4. ASSUME NEW x \in Int, NEW c \in Block, Holds(new, p, x, c)
      PROVE  Holds(ind, p, x, c) \/ (x = -1 /\ c = b)
  <2> SUFFICES ASSUME ~Holds(ind, p, x, c) PROVE x = -1 /\ c = b OBVIOUS
  <2>1. x \in 0 .. ind.tot - 1 => Loaded(new, p, x) = Loaded(ind, p, x) BY <1>3
  <2> QED BY <1>4, <2>1 DEF Holds
<1>5. Shaped(new, p) BY <1>3 DEF Shaped
<1> QED BY <1>4, <1>5

LEMMA NewPt2 ==
  ASSUME NEW ind \in Ind, NEW new \in Ind, NEW p \in Ptrs, Shaped(ind, p), NEW b \in Block \ {0},
         ind.pt2 = 0, \A m \in 0 .. P - 1 : p[b][m] = 0,
         new.pt2 = b, new.pt1 = ind.pt1, new.direct = ind.direct, new.tot = ind.tot
  PROVE  /\ Shaped(new, p)
         /\ \A x \in Int, c \in Block : Holds(new, p, x, c) => Holds(ind, p, x, c) \/ (x = -2 /\ c = b)
<1>1. ind.tot \in Nat BY DEF Ind
<1>2. ASSUME NEW x \in 0 .. ind.tot - 1 PROVE x < D + P
  BY <1>1, Constants DEF Shaped, Way
<1>3. ASSUME NEW x \in 0 .. ind.tot - 1
      PROVE  Way(new, p, x) /\ Loaded(new, p, x) = Loaded(ind, p, x)
  BY <1>1, <1>2, Constants DEF Shaped, Way, Loaded
<1>4. ASSUME NEW x \in Int, NEW c \in Block, Holds(new, p, x, c)
      PROVE  Holds(ind, p, x, c) \/ (x = -2 /\ c = b)
  <2> SUFFICES ASSUME ~Holds(ind, p, x, c) PROVE x = -2 /\ c = b OBVIOUS
  <2>1. x \in 0 .. ind.tot - 1 => Loaded(new, p, x) = Loaded(ind, p, x) BY <1>3
  <2> QED BY <1>4, <2>1 DEF Holds
<1>5. Shaped(new, p) BY <1>3 DEF Shaped
<1> QED BY <1>4, <1>5

\* The places of one inode hold different blocks.
Distinct(ind, p) == \A x, y \in Int, c \in Block : Holds(ind, p, x, c) /\ Holds(ind, p, y, c) => x = y

\* b is stored at r in block c0.
Points(p2, p, c0, r, b) ==
  \A c \in Block : p2[c] = IF c = c0 THEN [p[c] EXCEPT ![r] = b] ELSE p[c]

LEMMA NewRow ==
  ASSUME NEW ind \in Ind, NEW p \in Ptrs, NEW p2 \in Ptrs, Shaped(ind, p), Distinct(ind, p),
         NEW b \in Block \ {0}, NEW r \in 0 .. P - 1, ind.pt2 # 0, p[ind.pt2][r] = 0,
         Points(p2, p, ind.pt2, r, b)
  PROVE  /\ Shaped(ind, p2)
         /\ \A x \in Int, c \in Block :
              Holds(ind, p2, x, c) => Holds(ind, p, x, c) \/ (x = -3 - r /\ c = b)
<1>0. ind.pt1 \in Block /\ ind.pt2 \in Block /\ ind.tot \in Nat /\ -1 \in Int /\ -2 \in Int
  BY DEF Ind
<1>1. ind.pt1 # 0 => p2[ind.pt1] = p[ind.pt1]
  <2>1. ind.pt1 # 0 => ind.pt1 # ind.pt2 BY <1>0, Indirect DEF Distinct
  <2> QED BY <1>0, <2>1 DEF Points
<1>2. ASSUME NEW m \in 0 .. P - 1, p[ind.pt2][m] # 0
      PROVE  p2[ind.pt2][m] = p[ind.pt2][m] /\ p2[p[ind.pt2][m]] = p[p[ind.pt2][m]]
  <2>1. p[ind.pt2][m] \in Block BY <1>0, PtrType
  <2>2. -3 - m # -2 /\ -3 - m \in Int BY Constants
  <2>3. p[ind.pt2][m] # ind.pt2
    BY <1>0, <1>2, <2>1, <2>2, Indirect DEF Distinct
  <2>4. m # r BY <1>2
  <2> QED BY <1>0, <2>1, <2>3, <2>4 DEF Ptrs, Points
<1>3. ASSUME NEW x \in 0 .. ind.tot - 1
      PROVE  Way(ind, p2, x) /\ Loaded(ind, p2, x) = Loaded(ind, p, x)
  <2>1. Way(ind, p, x) BY DEF Shaped
  <2>2. CASE x < D BY <1>0, <2>2, Constants DEF Way, Loaded
  <2>3. CASE ~ (x < D) /\ x < D + P BY <1>0, <1>1, <2>1, <2>3, Constants DEF Way, Loaded
  <2>4. CASE ~ (x < D) /\ ~ (x < D + P)
    <3>1. x \in D + P .. MaxTot - 1 BY <1>0, <2>4, Constants, Places DEF Shaped
    <3>2. Row(x) \in 0 .. P - 1 BY <3>1, Places
    <3>3. x >= D + P BY <1>0, <2>4, Constants
    <3>4. ind.pt2 # 0 /\ p[ind.pt2][Row(x)] # 0 BY <2>1, <3>3 DEF Way
    <3>5. /\ p2[ind.pt2][Row(x)] = p[ind.pt2][Row(x)]
          /\ p2[p[ind.pt2][Row(x)]] = p[p[ind.pt2][Row(x)]]
      BY <1>2, <3>2, <3>4
    <3>6. ind.pt1 # 0 BY <2>1, <3>3, <1>0, Constants DEF Way
    <3> QED BY <2>4, <3>4, <3>5, <3>6 DEF Way, Loaded
  <2> QED BY <2>2, <2>3, <2>4
<1>4. Shaped(ind, p2) BY <1>3 DEF Shaped
<1>5. ASSUME NEW x \in Int, NEW c \in Block, Holds(ind, p2, x, c)
      PROVE  Holds(ind, p, x, c) \/ (x = -3 - r /\ c = b)
  <2> SUFFICES ASSUME ~Holds(ind, p, x, c) PROVE x = -3 - r /\ c = b OBVIOUS
  <2>1. -3 - x \in 0 .. P - 1 /\ c = p2[ind.pt2][-3 - x] /\ c # 0
    BY <1>0, <1>3, <1>5 DEF Holds
  <2>2. PICK m \in 0 .. P - 1 : m = -3 - x BY <2>1
  <2>3. m = r
    <3> SUFFICES ASSUME m # r PROVE FALSE OBVIOUS
    <3>1. p2[ind.pt2] = [p[ind.pt2] EXCEPT ![r] = b] /\ p[ind.pt2] \in [0 .. P - 1 -> Block]
      BY <1>0 DEF Ptrs, Points
    <3>2. p2[ind.pt2][m] = p[ind.pt2][m] BY <3>1
    <3> QED BY <1>5, <2>1, <2>2, <3>2 DEF Holds
  <2>4. p2[ind.pt2][r] = b BY <1>0 DEF Ptrs, Points
  <2> QED BY <2>1, <2>2, <2>3, <2>4
<1> QED BY <1>4, <1>5

\* append_data_block's store of the new block's number d, in each of its three
\* places: nothing that is counted changes, and the way to the new block is there.
Stored(ind, p, new, p2, d) ==
  /\ Shaped(new, p2)
  /\ \A x \in Int, c \in Block : Holds(new, p2, x, c) => Holds(ind, p, x, c)
  /\ Way(new, p2, ind.tot) /\ Loaded(new, p2, ind.tot) = d

LEMMA StoreDirect ==
  ASSUME NEW ind \in Ind, NEW new \in Ind, NEW p \in Ptrs, Shaped(ind, p), NEW d \in Block,
         ind.tot < D, new.direct = [ind.direct EXCEPT ![ind.tot] = d],
         new.pt1 = ind.pt1, new.pt2 = ind.pt2, new.tot = ind.tot
  PROVE  Stored(ind, p, new, p, d)
<1>1. ind.tot \in 0 .. D - 1 /\ ind.direct \in [0 .. D - 1 -> Block] BY Constants DEF Ind
<1>2. ASSUME NEW x \in 0 .. ind.tot - 1
      PROVE  Way(new, p, x) /\ Loaded(new, p, x) = Loaded(ind, p, x)
  <2>1. Way(ind, p, x) BY DEF Shaped
  <2>2. x \in 0 .. D - 1 /\ x < D /\ x # ind.tot BY <1>1, Constants
  <2> QED BY <1>1, <2>1, <2>2 DEF Way, Loaded
<1>3. Shaped(new, p) BY <1>2 DEF Shaped
<1>4. ASSUME NEW x \in Int, NEW c \in Block, Holds(new, p, x, c)
      PROVE  Holds(ind, p, x, c)
  BY <1>2, <1>4 DEF Holds
<1>5. Way(new, p, ind.tot) /\ Loaded(new, p, ind.tot) = d BY <1>1, Constants DEF Way, Loaded
<1> QED BY <1>3, <1>4, <1>5 DEF Stored

LEMMA StoreSingle ==
  ASSUME NEW ind \in Ind, NEW p \in Ptrs, NEW p2 \in Ptrs, Shaped(ind, p), Distinct(ind, p),
         NEW d \in Block, D <= ind.tot, ind.tot < D + P, ind.pt1 # 0,
         \A c \in Block : p2[c] = IF c = ind.pt1 THEN [p[c] EXCEPT ![ind.tot - D] = d] ELSE p[c]
  PROVE  Stored(ind, p, ind, p2, d)
<1>0. ind.pt1 \in Block /\ ind.pt2 \in Block /\ ind.tot \in Nat /\ -1 \in Int /\ -2 \in Int
  BY DEF Ind
<1>1. ind.pt2 # 0 => p2[ind.pt2] = p[ind.pt2]
  <2>1. ind.pt2 # 0 => ind.pt1 # ind.pt2 BY <1>0, Indirect DEF Distinct
  <2> QED BY <1>0, <2>1
<1>2. /\ p[ind.pt1] \in [0 .. P - 1 -> Block] /\ ind.tot - D \in 0 .. P - 1
      /\ p2[ind.pt1] = [p[ind.pt1] EXCEPT ![ind.tot - D] = d]
  <2>1. p[ind.pt1] \in [0 .. P - 1 -> Block] BY <1>0 DEF Ptrs
  <2>2. ind.tot - D \in 0 .. P - 1 BY <1>0, Constants
  <2> QED BY <1>0, <2>1, <2>2
<1>3. ASSUME NEW x \in 0 .. ind.tot - 1
      PROVE  Way(ind, p2, x) /\ Loaded(ind, p2, x) = Loaded(ind, p, x)
  <2>1. Way(ind, p, x) BY DEF Shaped
  <2>2. CASE x < D BY <1>0, <2>2, Constants DEF Way, Loaded
  <2>3. CASE ~ (x < D)
    <3>1. x < D + P /\ x - D \in 0 .. P - 1 /\ x - D # ind.tot - D BY <1>0, <2>3, Constants
    <3>2. p2[ind.pt1][x - D] = p[ind.pt1][x - D] BY <1>2, <3>1
    <3> QED BY <1>0, <2>1, <2>3, <3>1, <3>2, Constants DEF Way, Loaded
  <2> QED BY <2>2, <2>3
<1>4. Shaped(ind, p2) BY <1>3 DEF Shaped
<1>5. ASSUME NEW x \in Int, NEW c \in Block, Holds(ind, p2, x, c)
      PROVE  Holds(ind, p, x, c)
  BY <1>1, <1>3, <1>5 DEF Holds
<1>6. Way(ind, p2, ind.tot) BY <1>0, Constants DEF Way
<1>7. Loaded(ind, p2, ind.tot) = d
  <2>1. p2[ind.pt1][ind.tot - D] = d BY <1>2
  <2> QED BY <1>0, <2>1, Constants DEF Loaded
<1> QED BY <1>4, <1>5, <1>6, <1>7 DEF Stored

LEMMA StoreDouble ==
  ASSUME NEW ind \in Ind, NEW p \in Ptrs, NEW p2 \in Ptrs, Shaped(ind, p), Distinct(ind, p),
         NEW d \in Block, ind.tot \in D + P .. MaxTot - 1, ind.pt1 # 0, ind.pt2 # 0,
         NEW c0 \in Block, c0 = p[ind.pt2][Row(ind.tot)], c0 # 0,
         \A c \in Block : p2[c] = IF c = c0 THEN [p[c] EXCEPT ![Col(ind.tot)] = d] ELSE p[c]
  PROVE  Stored(ind, p, ind, p2, d)
<1>0. ind.pt1 \in Block /\ ind.pt2 \in Block /\ ind.tot \in Nat /\ -1 \in Int /\ -2 \in Int
  BY DEF Ind
<1>r. PICK r \in 0 .. P - 1 : r = Row(ind.tot) BY Places
<1>h. -3 - r \in Int /\ -3 - r # -1 /\ -3 - r # -2 /\ Holds(ind, p, -3 - r, c0)
  BY <1>r, Indirect, Constants
<1>1. ind.pt1 # c0 /\ ind.pt2 # c0 BY <1>0, <1>h, Indirect DEF Distinct
<1>2. p2[ind.pt1] = p[ind.pt1] /\ p2[ind.pt2] = p[ind.pt2] BY <1>0, <1>1
<1>3. /\ p[c0] \in [0 .. P - 1 -> Block] /\ Col(ind.tot) \in 0 .. P - 1
      /\ p2[c0] = [p[c0] EXCEPT ![Col(ind.tot)] = d]
  BY Places DEF Ptrs
<1>4. ASSUME NEW x \in 0 .. ind.tot - 1
      PROVE  Way(ind, p2, x) /\ Loaded(ind, p2, x) = Loaded(ind, p, x)
  <2>1. Way(ind, p, x) BY DEF Shaped
  <2>2. CASE x < D BY <1>0, <2>2, Constants DEF Way, Loaded
  <2>3. CASE ~ (x < D) /\ x < D + P BY <1>0, <1>2, <2>1, <2>3, Constants DEF Way, Loaded
  <2>4. CASE ~ (x < D) /\ ~ (x < D + P)
    <3>1. x \in D + P .. MaxTot - 1 /\ x # ind.tot BY <1>0, <2>4, Constants, Places
    <3>2. PICK m \in 0 .. P - 1 : m = Row(x) BY <3>1, Places
    <3>3. Col(x) \in 0 .. P - 1 BY <3>1, Places
    <3>4. x >= D + P BY <1>0, <2>4, Constants
    <3>5. p[ind.pt2][m] # 0 BY <2>1, <3>2, <3>4 DEF Way
    <3>6. PICK c \in Block : c = p[ind.pt2][m] BY <1>0, PtrType
    <3>7. CASE c = c0
      <4>1. -3 - m \in Int /\ Holds(ind, p, -3 - m, c0)
        BY <3>5, <3>6, <3>7, Indirect
      <4>2. -3 - m = -3 - r BY <1>h, <4>1 DEF Distinct
      <4>3. Row(x) = Row(ind.tot) BY <1>r, <3>2, <4>2, Constants
      <4>4. Col(x) # Col(ind.tot) BY <3>1, <4>3, Places
      <4>5. p2[c][Col(x)] = p[c][Col(x)] BY <1>3, <3>3, <3>7, <4>4
      <4> QED BY <1>2, <2>1, <2>4, <3>2, <3>6, <4>5 DEF Way, Loaded
    <3>8. CASE c # c0
      <4>1. p2[c] = p[c] BY <3>8
      <4> QED BY <1>2, <2>1, <2>4, <3>2, <3>6, <4>1 DEF Way, Loaded
    <3> QED BY <3>7, <3>8
  <2> QED BY <2>2, <2>3, <2>4
<1>5. Shaped(ind, p2) BY <1>4 DEF Shaped
<1>6. ASSUME NEW x \in Int, NEW c \in Block, Holds(ind, p2, x, c)
      PROVE  Holds(ind, p, x, c)
  BY <1>2, <1>4, <1>6 DEF Holds
<1>7. Way(ind, p2, ind.tot) BY <1>0, <1>2 DEF Way
<1>8. Loaded(ind, p2, ind.tot) = d
  <2>1. p2[c0][Col(ind.tot)] = d BY <1>3
  <2>2. ~ (ind.tot < D) /\ ~ (ind.tot < D + P) BY Constants
  <2> QED BY <1>2, <2>1, <2>2 DEF Loaded
<1> QED BY <1>5, <1>6, <1>7, <1>8 DEF Stored

LEMMA Counting ==
  ASSUME NEW ind \in Ind, NEW new \in Ind, NEW p \in Ptrs, Shaped(ind, p), NEW d \in Block,
         ind.tot < MaxTot, Way(ind, p, ind.tot), Loaded(ind, p, ind.tot) = d,
         new.direct = ind.direct, new.pt1 = ind.pt1, new.pt2 = ind.pt2, new.tot = ind.tot + 1
  PROVE  /\ Shaped(new, p)
         /\ \A x \in Int, c \in Block :
              Holds(new, p, x, c) => Holds(ind, p, x, c) \/ (x = ind.tot /\ c = d)
<1>0. ind.tot \in Nat BY DEF Ind
<1>1. ASSUME NEW x \in 0 .. ind.tot
      PROVE  Way(new, p, x) /\ Loaded(new, p, x) = Loaded(ind, p, x)
  <2>1. x = ind.tot \/ x \in 0 .. ind.tot - 1 BY <1>0
  <2>2. Way(ind, p, x) BY <2>1 DEF Shaped
  <2> QED BY <2>2 DEF Way, Loaded
<1>2. Shaped(new, p) BY <1>0, <1>1, Places DEF Shaped
<1>3. ASSUME NEW x \in Int, NEW c \in Block, Holds(new, p, x, c)
      PROVE  Holds(ind, p, x, c) \/ (x = ind.tot /\ c = d)
  <2>1. x \in 0 .. ind.tot => x = ind.tot \/ x \in 0 .. ind.tot - 1 BY <1>0
  <2> QED BY <1>0, <1>1, <1>3, <2>1 DEF Holds
<1> QED BY <1>2, <1>3

\* A block that nobody holds is put into one place.
LEMMA OnePlaceMore ==
  ASSUME NEW ino, NEW p, NEW bits, NEW ino2, NEW p2, NEW bits2,
         Apart(ino, p, bits), bits \subseteq bits2,
         NEW k0 \in 1 .. Inodes, NEW x0 \in Int, NEW b0 \in bits2, Unheld(ino, p, b0),
         \A k \in 1 .. Inodes, x \in Int, b \in Block : Holds(ino2[k], p2, x, b) =>
           Holds(ino[k], p, x, b) \/ (k = k0 /\ x = x0 /\ b = b0)
  PROVE  Apart(ino2, p2, bits2)
<1>1. ASSUME NEW k \in 1 .. Inodes, NEW x \in Int, NEW b \in Block, Holds(ino2[k], p2, x, b)
      PROVE  b \in bits2
  BY <1>1 DEF Apart
<1>2. ASSUME NEW k \in 1 .. Inodes, NEW l \in 1 .. Inodes, NEW x \in Int, NEW y \in Int,
             NEW b \in Block, Holds(ino2[k], p2, x, b), Holds(ino2[l], p2, y, b)
      PROVE  k = l /\ x = y
  BY <1>2 DEF Apart, Unheld
<1> QED BY <1>1, <1>2 DEF Apart

LEMMA NoPlaceMore ==
  ASSUME NEW ino, NEW p, NEW bits, NEW ino2, NEW p2, NEW bits2,
         Apart(ino, p, bits), bits \subseteq bits2,
         \A k \in 1 .. Inodes, x \in Int, b \in Block :
           Holds(ino2[k], p2, x, b) => Holds(ino[k], p, x, b)
  PROVE  /\ Apart(ino2, p2, bits2)
         /\ \A b \in Block : Unheld(ino, p, b) => Unheld(ino2, p2, b)
BY DEF Apart, Unheld

-----------------------------------------------------------------------------
(* How far the blocks are counted *)

LEMMA OwnerType ==
  ASSUME Types, Working
  PROVE  /\ Root \in 1 .. Inodes /\ Root \in ibits
         /\ pc \in {"append", "tot"} => owner \in 1 .. Inodes
         /\ pc \notin {"idle", "inode"} => n \in 1 .. Inodes /\ n # Root
         /\ \A k \in 1 .. Inodes : inode[k] \in Ind /\ inode[k].tot \in Nat
BY DEF Types, Working, Ind

\* The only steps that change what is counted of an inode.
LEMMA Totals ==
  ASSUME Types, Working, [Next]_vars
  PROVE  \/ \A k \in 1 .. Inodes : inode'[k].tot = inode[k].tot
         \/ InitInode \/ CountBlock
<1>1. CASE CountEntry
  <2>1. inode \in [1 .. Inodes -> Ind] /\ Root \in 1 .. Inodes BY OwnerType DEF Types
  <2>2. inode' = [inode EXCEPT ![Root].bytes = @ + 1] BY <1>1 DEF CountEntry
  <2>3. Only(inode', inode, Root) /\ inode'[Root].tot = inode[Root].tot BY <2>1, <2>2, SetBytes
  <2> QED BY <2>3 DEF Only
<1>2. CASE AllocateIndirect
  <2>1. inode \in [1 .. Inodes -> Ind] /\ owner \in 1 .. Inodes
    BY <1>2, OwnerType DEF Types, AllocateIndirect
  <2>2. PICK b \in Block : \/ inode' = inode
                           \/ inode' = [inode EXCEPT ![owner].pt1 = b]
                           \/ inode' = [inode EXCEPT ![owner].pt2 = b]
    BY <1>2, Taken DEF AllocateIndirect
  <2>3. CASE inode' = [inode EXCEPT ![owner].pt1 = b]
    <3>1. Only(inode', inode, owner) /\ inode'[owner].tot = inode[owner].tot
      BY <2>1, <2>3, SetPt1
    <3> QED BY <3>1 DEF Only
  <2>4. CASE inode' = [inode EXCEPT ![owner].pt2 = b]
    <3>1. Only(inode', inode, owner) /\ inode'[owner].tot = inode[owner].tot
      BY <2>1, <2>4, SetPt2
    <3> QED BY <3>1 DEF Only
  <2> QED BY <2>2, <2>3, <2>4
<1>3. CASE StorePointer
  <2>1. inode \in [1 .. Inodes -> Ind] /\ owner \in 1 .. Inodes /\ dnum \in Block
    BY <1>3, OwnerType DEF Types, StorePointer
  <2>2. CASE Tot < D
    <3>1. PICK x \in 0 .. D - 1 : x = Tot BY <2>1, <2>2, OwnerType, Constants DEF Tot
    <3>2. Direct(inode', inode, owner, x, dnum)
      <4>1. ~(Tot \in D .. D + P - 1) /\ ~(Tot >= D + P) BY <2>2, <3>1, Constants
      <4> QED BY <1>3, <3>1, <4>1 DEF StorePointer, Link, Direct
    <3>3. Only(inode', inode, owner) /\ Redirected(inode'[owner], inode[owner], x, dnum)
      BY <2>1, <3>2, SetDirect
    <3> QED BY <3>3 DEF Only, Redirected
  <2>3. CASE ~ (Tot < D) BY <1>3, <2>3 DEF StorePointer, Link
  <2> QED BY <2>2, <2>3
<1> QED
  BY <1>1, <1>2, <1>3 DEF Next, WriteFile, AllocateInode, NameTaken, NameFree,
     AllocateDirBlock, AllocateFileBlock, StoreEntry, BlocksDone, StoreData, Return, Kill,
     vars, image

LEMMA StepB == TInv /\ Polls /\ [Next]_vars => Polls'
<1> SUFFICES ASSUME TInv, Polls, [Next]_vars PROVE Polls' OBVIOUS
<1>t. Types BY Shapes DEF TInv
<1>1. ASSUME NEW b \in 1 .. Blocks, TakeBlock(b) PROVE Polls'
  BY <1>1 DEF TakeBlock, FirstClear, Polls
<1>2. ASSUME NEW k \in 1 .. Inodes, TakeInode(k) PROVE Polls'
  BY <1>2 DEF TakeInode, FirstClear, Polls
<1>3. CASE UNCHANGED <<dbits, ibits>> BY <1>3 DEF Polls
<1>4. \/ \E b \in 1 .. Blocks : TakeBlock(b)
      \/ \E k \in 1 .. Inodes : TakeInode(k)
      \/ UNCHANGED <<dbits, ibits>>
  BY <1>t, Taken DEF Next, WriteFile, AllocateInode, InitInode, NameTaken, NameFree,
     AllocateDirBlock, AllocateFileBlock, StoreEntry, CountEntry, BlocksDone, StoreData, Return,
     AllocateIndirect, StorePointer, CountBlock, Kill, vars, image
<1> QED BY <1>1, <1>2, <1>3, <1>4

LEMMA StepP == TInv /\ Progress /\ [Next]_vars => Progress'
<1> SUFFICES ASSUME TInv, Progress, [Next]_vars PROVE Progress' OBVIOUS
<1>t. Types /\ Working BY Shapes DEF TInv
<1>t2. Types' /\ Working' BY Shapes, StepT DEF TInv
<1>o. /\ Root \in 1 .. Inodes /\ Root \in ibits
      /\ pc \in {"append", "tot"} => owner \in 1 .. Inodes
      /\ pc \notin {"idle", "inode"} => n \in 1 .. Inodes /\ n # Root
      /\ \A k \in 1 .. Inodes : inode[k] \in Ind /\ inode[k].tot \in Nat
  BY <1>t, OwnerType
<1>c. Cardinality(ibits) \in Nat /\ Cardinality(ibits') \in Nat
  <2>1. Cardinality(ibits) \in 0 .. Inodes BY <1>t, Sets
  <2>2. IsFiniteSet(ibits')
    <3>1. ibits' \subseteq 1 .. Inodes BY <1>t2 DEF Types
    <3>2. IsFiniteSet(1 .. Inodes) BY Constants, FS_Interval
    <3> QED BY <3>1, <3>2, FS_Subset
  <2> QED BY <2>1, <2>2, FS_CardinalityType, Constants
<1>1. CASE InitInode
  <2>1. /\ inode'[n].tot = 0 /\ inode'[Root].tot = inode[Root].tot
        /\ UNCHANGED <<ibits, n, i, owner>> /\ pc = "init" /\ pc' = "names"
    BY <1>1, <1>t, <1>o DEF InitInode, NewInode, locals, Types
  <2> QED BY <2>1, <1>o DEF Progress, ForRoot, ForFile
<1>2. CASE CountBlock
  <2>1. /\ inode'[owner].tot = inode[owner].tot + 1
        /\ \A k \in 1 .. Inodes \ {owner} : inode'[k].tot = inode[k].tot
    <3>1. inode \in [1 .. Inodes -> Ind] /\ owner \in 1 .. Inodes BY <1>2, <1>t, <1>o DEF CountBlock, Types
    <3>2. inode' = [inode EXCEPT ![owner].tot = @ + 1] BY <1>2 DEF CountBlock
    <3>3. Only(inode', inode, owner) /\ inode'[owner].tot = inode[owner].tot + 1
      BY <3>1, <3>2, SetTot
    <3> QED BY <3>3 DEF Only
  <2>2. /\ pc = "tot" /\ UNCHANGED <<ibits, n, owner>> /\ owner \in {Root, n}
        /\ i' = IF owner = Root THEN i ELSE i + 1
        /\ pc' = IF owner = Root THEN "entry" ELSE "blocks"
    BY <1>2, <1>t DEF CountBlock, Working
  <2>3. CASE owner = Root
    BY <1>o, <1>c, <2>1, <2>2, <2>3 DEF Progress, ForRoot, ForFile
  <2>4. CASE owner # Root
    BY <1>o, <1>c, <2>1, <2>2, <2>4 DEF Progress, ForRoot, ForFile
  <2> QED BY <2>3, <2>4
<1>3. CASE /\ \A k \in 1 .. Inodes : inode'[k].tot = inode[k].tot
           /\ ~InitInode /\ ~CountBlock
  <2>1. CASE AllocateInode
    <3>1. PICK k \in 1 .. Inodes : TakeInode(k) BY <2>1 DEF AllocateInode
    <3>2. Cardinality(ibits') = Cardinality(ibits) + 1 BY <3>1, <1>t, OneMore
    <3>3. pc' = "init" BY <2>1 DEF AllocateInode
    <3> QED BY <1>3, <1>o, <1>c, <3>2, <3>3 DEF Progress, ForRoot, ForFile
  <2>2. CASE WriteFile \/ NameTaken \/ Return \/ Kill
    <3>1. pc' \in {"idle", "inode"} /\ ibits' = ibits
      BY <2>2, <1>t, Taken DEF WriteFile, NameTaken, Return, Kill, Leave, image
    <3> QED BY <1>3, <1>o, <3>1 DEF Progress, ForRoot, ForFile
  <2>3. CASE NameFree \/ StoreEntry \/ StoreData
    <3>1. /\ UNCHANGED <<n, owner, ibits>> /\ pc' # "blocks" /\ pc' \notin {"append", "tot"}
          /\ pc \in {"names", "entry", "data"} /\ pc' \in {"dirblock", "entry", "bytes", "data"}
          /\ pc = "names" \/ (pc' # "dirblock" /\ (pc' = "data" <=> pc = "data"))
      BY <2>3 DEF NameFree, StoreEntry, StoreData, image, locals
    <3> QED BY <1>3, <1>o, <3>1 DEF Progress, ForRoot, ForFile
  <2>4. CASE AllocateDirBlock
    <3>1. pc = "dirblock" /\ pc' = "append" /\ owner' = Root /\ UNCHANGED <<n, ibits>>
      BY <2>4, <1>t, Taken DEF AllocateDirBlock
    <3> QED BY <1>3, <1>o, <3>1 DEF Progress, ForRoot, ForFile
  <2>5. CASE AllocateFileBlock
    <3>1. pc = "blocks" /\ pc' = "append" /\ owner' = n /\ UNCHANGED <<n, i, ibits>>
      BY <2>5, <1>t, Taken DEF AllocateFileBlock
    <3> QED BY <1>3, <1>o, <3>1 DEF Progress, ForRoot, ForFile
  <2>6. CASE CountEntry \/ BlocksDone
    <3>1. /\ UNCHANGED <<n, ibits>>
          /\ \/ pc = "bytes" /\ pc' = "blocks" /\ i' = 0
             \/ pc = "blocks" /\ pc' = "data"
      BY <2>6 DEF CountEntry, BlocksDone, image
    <3> QED BY <1>3, <1>o, <3>1 DEF Progress, ForRoot, ForFile
  <2>7. CASE AllocateIndirect \/ StorePointer
    <3>1. /\ UNCHANGED <<n, i, owner, ibits>>
          /\ pc = "append" /\ pc' \in {"append", "tot"}
      BY <2>7, <1>t, Taken DEF AllocateIndirect, StorePointer, locals
    <3> QED BY <1>3, <1>o, <3>1 DEF Progress, ForRoot, ForFile
  <2>8. CASE UNCHANGED vars
    <3>1. UNCHANGED <<n, i, owner, ibits, pc>> BY <2>8 DEF vars, image, locals
    <3> QED BY <1>3, <1>o, <3>1 DEF Progress, ForRoot, ForFile
  <2> QED BY <1>3, <2>1, <2>2, <2>3, <2>4, <2>5, <2>6, <2>7, <2>8 DEF Next
<1> QED BY <1>t, <1>1, <1>2, <1>3, Totals

-----------------------------------------------------------------------------
(* The structure of the image *)

LEMMA Pointed ==
  ASSUME NEW blk \in [Block -> Blk]
  PROVE  /\ Ptr(blk) \in Ptrs
         /\ \A b \in Block : Ptr(blk)[b] = blk[b].ptr
BY DEF Ptr, Ptrs, Blk

\* A block outside the bitmap is held by nobody.
LEMMA FreshUnheld ==
  ASSUME NEW ino, NEW p, NEW bits, Apart(ino, p, bits), NEW b \in Block, b \notin bits
  PROVE  Unheld(ino, p, b)
BY DEF Apart, Unheld

LEMMA OneApart ==
  ASSUME NEW ino, NEW p, NEW bits, Apart(ino, p, bits), NEW k \in 1 .. Inodes
  PROVE  Distinct(ino[k], p)
BY DEF Apart, Distinct

\* A block changes that an inode does not hold as an indirect one.
LEMMA FrameAll ==
  ASSUME NEW ino \in [1 .. Inodes -> Ind], NEW p \in Ptrs, NEW p2 \in Ptrs, NEW b \in Block,
         Unheld(ino, p, b), \A c \in Block \ {b} : p2[c] = p[c],
         \A k \in 1 .. Inodes : Shaped(ino[k], p)
  PROVE  /\ \A k \in 1 .. Inodes : Shaped(ino[k], p2)
         /\ \A k \in 1 .. Inodes, x \in Int, c \in Block :
              Holds(ino[k], p2, x, c) => Holds(ino[k], p, x, c)
<1>1. ASSUME NEW k \in 1 .. Inodes
      PROVE  /\ Shaped(ino[k], p2)
             /\ \A x \in Int, c \in Block : Holds(ino[k], p2, x, c) => Holds(ino[k], p, x, c)
  <2>1. \A x \in Int, c \in Block : x < 0 /\ Holds(ino[k], p, x, c) => p2[c] = p[c]
    BY DEF Unheld
  <2>2. ino[k] \in Ind /\ Shaped(ino[k], p) OBVIOUS
  <2> QED BY <2>1, <2>2, Frame
<1> QED BY <1>1

\* What an inode holds does not depend on its size in bytes.
LEMMA SameInode ==
  ASSUME NEW ind, NEW new, NEW p, new.tot = ind.tot, new.direct = ind.direct,
         new.pt1 = ind.pt1, new.pt2 = ind.pt2
  PROVE  /\ Shaped(ind, p) => Shaped(new, p)
         /\ \A x \in Int, c \in Block : Holds(new, p, x, c) => Holds(ind, p, x, c)
<1>1. ASSUME NEW x PROVE Way(new, p, x) = Way(ind, p, x) /\ Loaded(new, p, x) = Loaded(ind, p, x)
  BY DEF Way, Loaded
<1> QED BY <1>1 DEF Shaped, Holds

LEMMA InitS == Init => Structure
<1> SUFFICES ASSUME Init PROVE Structure OBVIOUS
<1>1. Types BY InitT, Shapes DEF TInv
<1>2. PICK p \in Ptrs : p = Ptr(block) BY <1>1, Pointed DEF Types
<1>3. Root \in 1 .. Inodes /\ 0 \in 0 .. D - 1 BY Constants DEF Root
<1>4. \A k \in 1 .. Inodes : /\ inode[k].pt1 = 0 /\ inode[k].pt2 = 0
                             /\ k # Root => inode[k].tot = 0
  BY <1>3 DEF Init, NewInode
<1>5. inode[Root].tot = 1 /\ inode[Root].direct[0] = 2
  BY <1>3 DEF Init, NewInode
<1>6. \A k \in 1 .. Inodes : Shaped(inode[k], p)
  BY <1>4, <1>5, Places, Constants DEF Shaped, Way
<1>7. ASSUME NEW k \in 1 .. Inodes, NEW x \in Int, NEW b \in Block, Holds(inode[k], p, x, b)
      PROVE  k = Root /\ x = 0 /\ b = 2
  <2>1. x \in 0 .. inode[k].tot - 1 /\ b = Loaded(inode[k], p, x) BY <1>4, <1>7 DEF Holds
  <2>2. k = Root BY <1>4, <2>1
  <2>3. x = 0 BY <1>5, <2>1, <2>2
  <2> QED BY <1>3, <1>5, <2>1, <2>2, <2>3, Constants DEF Loaded
<1>8. Apart(inode, p, dbits) BY <1>7 DEF Apart, Init
<1> QED BY <1>2, <1>6, <1>8 DEF Structure, Appended, Init

\* A file or the root gets no further than its pointers reach.
LEMMA Room ==
  ASSUME SInv, pc \in {"append", "tot"}
  PROVE  Tot \in Nat /\ Tot < MaxTot
<1>t. Types /\ Working BY Shapes DEF SInv, TInv
<1>0. owner \in 1 .. Inodes /\ Tot \in Nat /\ Root \in 1 .. Inodes BY <1>t, OwnerType DEF Tot
<1>1. CASE owner = Root
  <2>1. Tot < Cardinality(ibits) BY <1>1 DEF SInv, Progress, ForRoot, Tot
  <2>2. Cardinality(ibits) \in 0 .. Inodes BY <1>t, Sets
  <2>3. Inodes <= MaxTot BY MyfsAssumption DEF MaxTot
  <2> QED BY <1>0, <2>1, <2>2, <2>3, Constants, Places
<1>2. CASE owner = n /\ \A l \in Lens : l <= MaxTot
  <2>1. Tot = i /\ i < len /\ len \in Lens
    BY <1>2, <1>t DEF SInv, Progress, ForFile, Working, Tot
  <2> QED BY <1>0, <1>2, <2>1, Constants, Places
<1>3. CASE Polled <= MaxTot
  <2>1. PICK p \in Ptrs : p = Ptr(block) BY <1>t, Pointed DEF Types
  <2>2. PICK ind \in Ind : ind = inode[owner] BY <1>0, <1>t DEF Types
  <2>3. PICK t \in Nat : t = Tot /\ t = ind.tot BY <1>0, <2>2 DEF Tot
  <2>4. /\ Apart(inode, p, dbits) /\ Unheld(inode, p, dnum) /\ Shaped(ind, p)
        /\ dnum \in dbits /\ dbits \subseteq 1 .. Polled
    BY <1>0, <1>t, <2>1, <2>2 DEF SInv, Structure, Working, Polls
  <2> DEFINE f == [x \in 0 .. t |-> IF x = t THEN dnum ELSE Loaded(ind, p, x)]
  <2>5. ASSUME NEW x \in 0 .. t - 1
        PROVE  Loaded(ind, p, x) \in Block /\ Holds(ind, p, x, Loaded(ind, p, x))
    <3>1. x \in Nat /\ x < MaxTot BY <2>3, <2>4, Places DEF Shaped
    <3> QED BY <2>3, <3>1, LoadedType DEF Holds
  <2>6. f \in [0 .. t -> dbits]
    <3>1. ASSUME NEW x \in 0 .. t - 1 PROVE Loaded(ind, p, x) \in dbits
      BY <1>0, <2>2, <2>4, <2>5 DEF Apart
    <3>2. \A x \in 0 .. t : x = t \/ x \in 0 .. t - 1 BY <2>3
    <3> QED BY <2>4, <3>1, <3>2
  <2>7. ASSUME NEW x \in 0 .. t, NEW y \in 0 .. t, f[x] = f[y] PROVE x = y
    <3>1. Distinct(ind, p) BY <1>0, <2>2, <2>4, OneApart
    <3>2. \A z \in 0 .. t - 1 : z \in Int /\ Loaded(ind, p, z) # dnum
      BY <1>0, <2>2, <2>4, <2>5 DEF Unheld
    <3>3. \A z \in 0 .. t : z = t \/ z \in 0 .. t - 1 BY <2>3
    <3>4. CASE x = t /\ y = t BY <3>4
    <3>5. CASE x = t /\ y \in 0 .. t - 1 BY <2>3, <2>7, <3>2, <3>5
    <3>6. CASE y = t /\ x \in 0 .. t - 1 BY <2>3, <2>7, <3>2, <3>6
    <3>7. CASE x \in 0 .. t - 1 /\ y \in 0 .. t - 1
      <4>1. Loaded(ind, p, x) = Loaded(ind, p, y) BY <2>3, <2>7, <3>7
      <4> QED BY <2>5, <3>1, <3>2, <3>7, <4>1 DEF Distinct
    <3> QED BY <3>3, <3>4, <3>5, <3>6, <3>7
  <2> HIDE DEF f
  <2>8. f \in Injection(0 .. t, dbits) BY <2>6, <2>7 DEF Injection, IsInjective
  <2>9. IsFiniteSet(dbits) /\ Cardinality(dbits) <= Polled
    <3>1. IsFiniteSet(1 .. Polled) /\ Cardinality(1 .. Polled) = Polled BY Constants, FS_Interval
    <3> QED BY <2>4, <3>1, FS_Subset
  <2>10. Cardinality(0 .. t) <= Cardinality(dbits) BY <2>8, <2>9, FS_Injection
  <2>11. Cardinality(0 .. t) = t + 1 BY <2>3, FS_Interval
  <2>12. Cardinality(dbits) \in Nat BY <2>9, FS_CardinalityType
  <2> QED BY <1>0, <1>3, <2>3, <2>9, <2>10, <2>11, <2>12, Constants, Places
<1>4. owner \in {Root, n} BY <1>t DEF Working
<1>5. Polled <= MaxTot \/ \A l \in Lens : l <= MaxTot BY MyfsAssumption DEF MaxTot
<1> QED BY <1>1, <1>2, <1>3, <1>4, <1>5

\* Nothing is held that was not held before; one block more, in one place; and
\* nothing more by the inodes other than k0.
Keeps(ind, p, new, p2) ==
  /\ Shaped(new, p2)
  /\ \A x \in Int, c \in Block : Holds(new, p2, x, c) => Holds(ind, p, x, c)
Gains(ind, p, new, p2, x0, b0) ==
  /\ Shaped(new, p2)
  /\ \A x \in Int, c \in Block : Holds(new, p2, x, c) => Holds(ind, p, x, c) \/ (x = x0 /\ c = b0)
RestKeeps(ino, p, ino2, p2, k0) ==
  \A k \in 1 .. Inodes \ {k0} : Keeps(ino[k], p, ino2[k], p2)
StillUnheld(ino, p, ino2, p2, b0) ==
  \A d \in Block \ {b0} : Unheld(ino, p, d) => Unheld(ino2, p2, d)
OnlyBlock(p, p2, b) == \A c \in Block \ {b} : p2[c] = p[c]

\* What is counted stays in its place.
Lasts(ino, p, ino2, p2) ==
  \A k \in 1 .. Inodes, x \in Int, c \in Block :
    x \in 0 .. ino[k].tot - 1 /\ Holds(ino2[k], p2, x, c) => Holds(ino[k], p, x, c)

Good(ino, p, bits) == (\A k \in 1 .. Inodes : Shaped(ino[k], p)) /\ Apart(ino, p, bits)

\* A store into a block that inode k0 holds leaves what the others hold.
LEMMA Others ==
  ASSUME NEW ino \in [1 .. Inodes -> Ind], NEW p \in Ptrs, NEW p2 \in Ptrs, NEW bits,
         Good(ino, p, bits), NEW k0 \in 1 .. Inodes, NEW ino2, Only(ino2, ino, k0),
         NEW b \in Block, NEW y \in Int, Holds(ino[k0], p, y, b), OnlyBlock(p, p2, b)
  PROVE  RestKeeps(ino, p, ino2, p2, k0)
<1> SUFFICES ASSUME NEW k \in 1 .. Inodes \ {k0} PROVE Keeps(ino[k], p, ino2[k], p2)
  BY DEF RestKeeps
<1>1. ino2[k] = ino[k] /\ ino[k] \in Ind /\ Shaped(ino[k], p) BY DEF Only, Good
<1>2. \A x \in Int, c \in Block : x < 0 /\ Holds(ino[k], p, x, c) => p2[c] = p[c]
  BY DEF Good, Apart, OnlyBlock
<1>3. /\ Shaped(ino[k], p2)
      /\ \A x \in Int, c \in Block : Holds(ino[k], p2, x, c) => Holds(ino[k], p, x, c)
  BY <1>1, <1>2, Frame
<1> QED BY <1>1, <1>3 DEF Keeps

\* Only the inode k0 changes, no pointer in a block.
LEMMA OthersSame ==
  ASSUME NEW ino, NEW p, NEW bits, Good(ino, p, bits), NEW k0, NEW ino2, Only(ino2, ino, k0)
  PROVE  RestKeeps(ino, p, ino2, p, k0)
BY DEF Only, Good, RestKeeps, Keeps

\* The number of the new block is stored.
LEMMA AfterStore ==
  ASSUME NEW ino \in [1 .. Inodes -> Ind], NEW p \in Ptrs, NEW p2 \in Ptrs, NEW bits,
         Good(ino, p, bits), NEW k0 \in 1 .. Inodes, NEW ino2, NEW d \in Block,
         Unheld(ino, p, d), Stored(ino[k0], p, ino2[k0], p2, d), RestKeeps(ino, p, ino2, p2, k0)
  PROVE  Good(ino2, p2, bits) /\ Unheld(ino2, p2, d)
<1>1. \A k \in 1 .. Inodes : Shaped(ino2[k], p2) BY DEF Stored, RestKeeps, Keeps
<1>2. \A k \in 1 .. Inodes, x \in Int, c \in Block :
        Holds(ino2[k], p2, x, c) => Holds(ino[k], p, x, c)
  BY DEF Stored, RestKeeps, Keeps
<1>3. Apart(ino2, p2, bits) /\ Unheld(ino2, p2, d) BY <1>2, NoPlaceMore DEF Good
<1> QED BY <1>1, <1>3 DEF Good

\* An inode gets a new block in one place.
LEMMA AfterNew ==
  ASSUME NEW ino \in [1 .. Inodes -> Ind], NEW p \in Ptrs, NEW p2 \in Ptrs, NEW bits, NEW bits2,
         Good(ino, p, bits), bits \subseteq bits2, NEW k0 \in 1 .. Inodes, NEW ino2,
         NEW x0 \in Int, NEW b0 \in Block, b0 \in bits2, Unheld(ino, p, b0),
         Gains(ino[k0], p, ino2[k0], p2, x0, b0), RestKeeps(ino, p, ino2, p2, k0)
  PROVE  Good(ino2, p2, bits2) /\ StillUnheld(ino, p, ino2, p2, b0)
<1>1. \A k \in 1 .. Inodes : Shaped(ino2[k], p2) BY DEF Gains, RestKeeps, Keeps
<1>2. \A k \in 1 .. Inodes, x \in Int, c \in Block :
        Holds(ino2[k], p2, x, c) => Holds(ino[k], p, x, c) \/ (k = k0 /\ x = x0 /\ c = b0)
  BY DEF Gains, RestKeeps, Keeps
<1>3. Apart(ino2, p2, bits2)
  <2>1. Apart(ino, p, bits) BY DEF Good
  <2> QED BY <1>2, <2>1, OnePlaceMore
<1>4. StillUnheld(ino, p, ino2, p2, b0) BY <1>2 DEF Unheld, StillUnheld
<1> QED BY <1>1, <1>3, <1>4 DEF Good

\* A block outside the bitmap is cleared.
Clears(blk2, blk, b) == blk2 = [blk EXCEPT ![b] = Cleared]
Blank(p, b) == \A m \in 0 .. P - 1 : p[b][m] = 0

LEMMA AfterClear ==
  ASSUME NEW ino \in [1 .. Inodes -> Ind], NEW blk \in [Block -> Blk], NEW bits,
         Good(ino, Ptr(blk), bits), NEW b \in Block, b \notin bits,
         NEW blk2, Clears(blk2, blk, b)
  PROVE  /\ blk2 \in [Block -> Blk] /\ Ptr(blk2) \in Ptrs
         /\ Blank(Ptr(blk2), b) /\ OnlyBlock(Ptr(blk), Ptr(blk2), b)
         /\ Good(ino, Ptr(blk2), bits) /\ Unheld(ino, Ptr(blk2), b)
         /\ StillUnheld(ino, Ptr(blk), ino, Ptr(blk2), b)
         /\ Lasts(ino, Ptr(blk), ino, Ptr(blk2))
<1>1. blk2 \in [Block -> Blk] BY Empty DEF Clears
<1>2. blk2[b].ptr = [m \in 0 .. P - 1 |-> 0] BY DEF Cleared, Clears
<1>3. PICK p \in Ptrs : p = Ptr(blk) BY Pointed
<1>4. PICK p2 \in Ptrs : p2 = Ptr(blk2) BY <1>1, Pointed
<1>5. \A c \in Block \ {b} : p2[c] = p[c] BY <1>1, <1>3, <1>4, Pointed DEF Clears
<1>6. \A m \in 0 .. P - 1 : p2[b][m] = 0
  <2>1. p2[b] = [m \in 0 .. P - 1 |-> 0] BY <1>1, <1>2, <1>4, Pointed
  <2> QED BY <2>1
<1>7. Unheld(ino, p, b) BY <1>3, FreshUnheld DEF Good
<1>8. /\ \A k \in 1 .. Inodes : Shaped(ino[k], p2)
      /\ \A k \in 1 .. Inodes, x \in Int, c \in Block :
           Holds(ino[k], p2, x, c) => Holds(ino[k], p, x, c)
  BY <1>3, <1>5, <1>7, FrameAll DEF Good
<1>9. Apart(ino, p2, bits) /\ \A d \in Block : Unheld(ino, p, d) => Unheld(ino, p2, d)
  BY <1>3, <1>8, NoPlaceMore DEF Good
<1>10. Lasts(ino, p, ino, p2) BY <1>8 DEF Lasts
<1> QED BY <1>1, <1>3, <1>4, <1>6, <1>7, <1>8, <1>9, <1>10, <1>5
        DEF Good, StillUnheld, Blank, OnlyBlock

LEMMA StepS ==
  SInv /\ [Next]_vars => Structure' /\ Lasts(inode, Ptr(block), inode', Ptr(block'))
<1> SUFFICES ASSUME SInv, [Next]_vars
             PROVE  Structure' /\ Lasts(inode, Ptr(block), inode', Ptr(block'))
  OBVIOUS
<1>t. Types /\ Working BY Shapes DEF SInv, TInv
<1>t2. Types' BY Shapes, StepT DEF SInv, TInv
<1>o. /\ Root \in 1 .. Inodes
      /\ pc \in {"append", "tot"} => owner \in 1 .. Inodes
      /\ pc \notin {"idle", "inode"} => n \in 1 .. Inodes /\ n # Root
      /\ dnum \in Block
  BY <1>t, OwnerType DEF Types
<1>i. inode \in [1 .. Inodes -> Ind] /\ inode' \in [1 .. Inodes -> Ind] BY <1>t, <1>t2 DEF Types
<1>b. block \in [Block -> Blk] /\ block' \in [Block -> Blk] BY <1>t, <1>t2 DEF Types
<1>p. PICK p \in Ptrs : p = Ptr(block) BY <1>b, Pointed
<1>p2. PICK p2 \in Ptrs : p2 = Ptr(block') BY <1>b, Pointed
<1>s. /\ Good(inode, p, dbits)
      /\ pc \in {"append", "tot"} => Unheld(inode, p, dnum) /\ dnum \in dbits
      /\ pc = "tot" => /\ Tot < MaxTot /\ Way(inode[owner], p, Tot)
                       /\ Loaded(inode[owner], p, Tot) = dnum
  BY <1>p, <1>t DEF SInv, Structure, Good, Appended, Working
<1>q. Structure' /\ Lasts(inode, Ptr(block), inode', Ptr(block')) <=>
        /\ Good(inode', p2, dbits')
        /\ pc' \in {"append", "tot"} => Unheld(inode', p2, dnum')
        /\ Appended'
        /\ Lasts(inode, p, inode', p2)
  BY <1>p, <1>p2 DEF Structure, Good
<1>x. pc' # "tot" => Appended' BY DEF Appended
\* No pointer changes.
<1>1. CASE /\ WriteFile \/ AllocateInode \/ NameTaken \/ NameFree \/ StoreEntry \/ BlocksDone
              \/ StoreData \/ Return \/ Kill
  <2>1. pc' \notin {"append", "tot"} /\ inode' = inode
    BY <1>1 DEF WriteFile, AllocateInode, NameTaken, NameFree, StoreEntry, BlocksDone, StoreData,
       Return, Kill, Leave, image
  <2>2. dbits \subseteq dbits'
    BY <1>1, <1>t, Taken DEF WriteFile, AllocateInode, NameTaken, NameFree, StoreEntry, BlocksDone,
       StoreData, Return, Kill, image
  <2>3. \A b \in Block : block'[b].ptr = block[b].ptr
    <3>1. CASE UNCHANGED block BY <3>1
    <3>2. CASE StoreEntry
      <4>1. [name |-> name, inum |-> n] \in Ent BY <1>t DEF Types, Ent
      <4> QED BY <1>b, <3>2, <4>1, StoresEnt DEF StoreEntry
    <3>3. CASE StoreData
      <4>1. <<n, i>> \in (0 .. Inodes) \X Nat BY <1>t DEF Types
      <4> QED BY <1>b, <3>3, <4>1, StoresData DEF StoreData
    <3> QED BY <1>1, <3>1, <3>2, <3>3 DEF WriteFile, AllocateInode, NameTaken, NameFree, BlocksDone,
               Return, Kill, image
  <2>4. p2 = p BY <2>3, <1>p, <1>p2 DEF Ptr
  <2>5. Good(inode, p, dbits') BY <1>s, <2>2 DEF Good, Apart
  <2>6. Lasts(inode, p, inode', p2) BY <2>1, <2>4 DEF Lasts
  <2> QED BY <1>q, <1>x, <2>1, <2>4, <2>5, <2>6
<1>2. CASE InitInode
  <2>1. p2 = p /\ dbits' = dbits /\ pc' = "names" /\ n \in 1 .. Inodes
    BY <1>2, <1>o, <1>p, <1>p2 DEF InitInode
  <2>2. /\ \A k \in 1 .. Inodes \ {n} : inode'[k] = inode[k]
        /\ inode'[n].tot = 0 /\ inode'[n].pt1 = 0 /\ inode'[n].pt2 = 0
    BY <1>2, <1>i, <2>1 DEF InitInode, NewInode
  <2>3. /\ Shaped(inode'[n], p)
        /\ \A x \in Int, c \in Block : ~Holds(inode'[n], p, x, c)
    BY <2>2, Places, Constants DEF Shaped, Holds
  <2>4. \A k \in 1 .. Inodes : Shaped(inode'[k], p) BY <1>s, <2>2, <2>3 DEF Good
  <2>5. \A k \in 1 .. Inodes, x \in Int, c \in Block :
          Holds(inode'[k], p, x, c) => Holds(inode[k], p, x, c)
    BY <2>2, <2>3
  <2>6. Apart(inode', p, dbits) BY <1>s, <2>5, NoPlaceMore DEF Good
  <2>7. Lasts(inode, p, inode', p2) BY <2>1, <2>5 DEF Lasts
  <2> QED BY <1>q, <1>x, <2>1, <2>4, <2>6, <2>7 DEF Good
<1>3. CASE CountEntry
  <2>1. p2 = p /\ dbits' = dbits /\ pc' = "blocks" /\ inode' = [inode EXCEPT ![Root].bytes = @ + 1]
    BY <1>3, <1>p, <1>p2 DEF CountEntry
  <2>2. /\ Only(inode', inode, Root)
        /\ inode'[Root].tot = inode[Root].tot /\ inode'[Root].direct = inode[Root].direct
        /\ inode'[Root].pt1 = inode[Root].pt1 /\ inode'[Root].pt2 = inode[Root].pt2
    BY <1>i, <1>o, <2>1, SetBytes
  <2>3. /\ Shaped(inode[Root], p) => Shaped(inode'[Root], p)
        /\ \A x \in Int, c \in Block : Holds(inode'[Root], p, x, c) => Holds(inode[Root], p, x, c)
    BY <2>2, SameInode
  <2>4. \A k \in 1 .. Inodes : Shaped(inode'[k], p) BY <1>s, <1>o, <2>2, <2>3 DEF Good, Only
  <2>5. \A k \in 1 .. Inodes, x \in Int, c \in Block :
          Holds(inode'[k], p, x, c) => Holds(inode[k], p, x, c)
    BY <2>2, <2>3 DEF Only
  <2>6. Apart(inode', p, dbits) BY <1>s, <2>5, NoPlaceMore DEF Good
  <2>7. Lasts(inode, p, inode', p2) BY <2>1, <2>5 DEF Lasts
  <2> QED BY <1>q, <1>x, <2>1, <2>4, <2>6, <2>7 DEF Good
\* A block is allocated and cleared.
<1>4. CASE AllocateDirBlock \/ AllocateFileBlock
  <2>1. PICK b \in 1 .. Blocks : TakeBlock(b) /\ block' = [block EXCEPT ![b] = Cleared] /\ dnum' = b
    BY <1>4 DEF AllocateDirBlock, AllocateFileBlock
  <2>2. b \in Block /\ b \notin dbits /\ dbits \subseteq dbits' /\ inode' = inode /\ pc' = "append"
    BY <1>4, <2>1, <1>t, Taken DEF AllocateDirBlock, AllocateFileBlock, TakeBlock, FirstClear
  <2>3. Good(inode, p2, dbits) /\ Unheld(inode, p2, b) /\ Lasts(inode, p, inode, p2)
    <3>1. Good(inode, Ptr(block), dbits) BY <1>p, <1>s
    <3>2. Clears(block', block, b) BY <2>1 DEF Clears
    <3>3. /\ Good(inode, Ptr(block'), dbits) /\ Unheld(inode, Ptr(block'), b)
          /\ Lasts(inode, Ptr(block), inode, Ptr(block'))
      BY <1>i, <1>b, <2>2, <3>1, <3>2, AfterClear
    <3> QED BY <1>p, <1>p2, <3>3
  <2>4. Good(inode, p2, dbits') BY <2>2, <2>3 DEF Good, Apart
  <2> QED BY <1>q, <1>x, <2>1, <2>2, <2>3, <2>4
<1>5. CASE UNCHANGED vars
  <2>1. Structure BY DEF SInv
  <2>2. UNCHANGED <<inode, block, dbits, pc, dnum, owner>> BY <1>5 DEF vars, image, locals
  <2> QED BY <2>1, <2>2 DEF Structure, Appended, Tot, Lasts

<1>6. CASE AllocateIndirect
  <2>1. PICK b \in 1 .. Blocks :
          /\ TakeBlock(b)
          /\ \/ NeedsPt1 /\ inode' = [inode EXCEPT ![owner].pt1 = b]
                /\ block' = [block EXCEPT ![b] = Cleared]
             \/ NeedsPt2 /\ inode' = [inode EXCEPT ![owner].pt2 = b]
                /\ block' = [block EXCEPT ![b] = Cleared]
             \/ NeedsPtr /\ UNCHANGED inode
                /\ block' = [block EXCEPT ![b] = Cleared, ![inode[owner].pt2].ptr[Idx1] = b]
    BY <1>6 DEF AllocateIndirect
  <2>2. /\ b \in Block \ {0} /\ b \notin dbits /\ dbits \subseteq dbits' /\ b \in dbits'
        /\ pc = "append" /\ pc' = "append" /\ dnum' = dnum /\ owner \in 1 .. Inodes
    BY <1>6, <2>1, <1>o, <1>t, Taken DEF AllocateIndirect, TakeBlock, FirstClear, locals
  <2>3. PICK blk : blk = [block EXCEPT ![b] = Cleared] OBVIOUS
  <2>4. /\ blk \in [Block -> Blk] /\ Ptr(blk) \in Ptrs
        /\ Blank(Ptr(blk), b) /\ OnlyBlock(p, Ptr(blk), b)
        /\ Good(inode, Ptr(blk), dbits) /\ Unheld(inode, Ptr(blk), b)
        /\ StillUnheld(inode, p, inode, Ptr(blk), b)
        /\ Lasts(inode, p, inode, Ptr(blk))
    <3>1. Good(inode, Ptr(block), dbits) BY <1>p, <1>s
    <3>2. /\ blk \in [Block -> Blk] /\ Ptr(blk) \in Ptrs
          /\ Blank(Ptr(blk), b) /\ OnlyBlock(Ptr(block), Ptr(blk), b)
          /\ Good(inode, Ptr(blk), dbits) /\ Unheld(inode, Ptr(blk), b)
          /\ StillUnheld(inode, Ptr(block), inode, Ptr(blk), b)
          /\ Lasts(inode, Ptr(block), inode, Ptr(blk))
      <4>1. Clears(blk, block, b) BY <2>3 DEF Clears
      <4> QED BY <1>i, <1>b, <2>2, <3>1, <4>1, AfterClear
    <3> QED BY <1>p, <3>2
  <2>5. PICK p1 \in Ptrs : p1 = Ptr(blk) BY <2>4
  <2>6. /\ Blank(p1, b)
        /\ Good(inode, p1, dbits) /\ Unheld(inode, p1, b) /\ Unheld(inode, p1, dnum)
        /\ dnum \in Block \ {b}
    BY <1>o, <1>s, <2>2, <2>4, <2>5 DEF StillUnheld
  <2>7. PICK ind \in Ind : ind = inode[owner] BY <1>i, <2>2
  <2>8. PICK new \in Ind : new = inode'[owner] BY <1>i, <2>2
  <2>9. Shaped(ind, p1) /\ Distinct(ind, p1) BY <2>2, <2>6, <2>7, OneApart DEF Good
  <2>10. SUFFICES \E x0 \in Int : /\ Gains(inode[owner], p1, inode'[owner], p2, x0, b) /\ x0 < 0
                                  /\ RestKeeps(inode, p1, inode', p2, owner)
    <3>1. PICK x0 \in Int : /\ Gains(inode[owner], p1, inode'[owner], p2, x0, b) /\ x0 < 0
                            /\ RestKeeps(inode, p1, inode', p2, owner)
      BY <2>10
    <3>3. Lasts(inode, p1, inode', p2)
      <4>1. \A k \in 1 .. Inodes : inode[k].tot \in Nat BY <1>t, OwnerType
      <4> QED BY <3>1, <4>1 DEF Lasts, Gains, RestKeeps, Keeps
    <3>4. Lasts(inode, p, inode', p2)
      <4>1. Lasts(inode, p, inode, p1) BY <2>4, <2>5
      <4> QED BY <3>3, <4>1 DEF Lasts
    <3>2. Good(inode', p2, dbits') /\ StillUnheld(inode, p1, inode', p2, b)
      BY <1>i, <2>2, <2>6, <3>1, AfterNew
    <3> QED BY <1>q, <1>x, <2>2, <2>6, <3>2, <3>4 DEF StillUnheld
  <2>11. CASE NeedsPt1 /\ inode' = [inode EXCEPT ![owner].pt1 = b] /\ block' = blk
    <3>0. /\ Only(inode', inode, owner)
          /\ inode'[owner].pt1 = b /\ inode'[owner].pt2 = inode[owner].pt2
          /\ inode'[owner].direct = inode[owner].direct /\ inode'[owner].tot = inode[owner].tot
      BY <1>i, <2>2, <2>11, SetPt1
    <3>1. new.pt1 = b /\ new.pt2 = ind.pt2 /\ new.direct = ind.direct /\ new.tot = ind.tot
      BY <2>7, <2>8, <3>0
    <3>2. ind.pt1 = 0 /\ ind.tot < D + P
      BY <2>7, <2>11, Constants DEF NeedsPt1, Tot, Ind
    <3>3. /\ Shaped(new, p1)
          /\ \A x \in Int, c \in Block : Holds(new, p1, x, c) => Holds(ind, p1, x, c) \/ (x = -1 /\ c = b)
      BY <2>2, <2>9, <3>1, <3>2, NewPt1
    <3>4. RestKeeps(inode, p1, inode', p1, owner) BY <2>6, <3>0, OthersSame
    <3>5. p2 = p1 /\ -1 \in Int /\ -1 < 0 BY <1>p2, <2>5, <2>11
    <3>6. Gains(ind, p1, new, p1, -1, b) BY <3>3 DEF Gains
    <3> QED BY <2>7, <2>8, <3>4, <3>5, <3>6
  <2>12. CASE NeedsPt2 /\ inode' = [inode EXCEPT ![owner].pt2 = b] /\ block' = blk
    <3>0. /\ Only(inode', inode, owner)
          /\ inode'[owner].pt2 = b /\ inode'[owner].pt1 = inode[owner].pt1
          /\ inode'[owner].direct = inode[owner].direct /\ inode'[owner].tot = inode[owner].tot
      BY <1>i, <2>2, <2>12, SetPt2
    <3>1. new.pt2 = b /\ new.pt1 = ind.pt1 /\ new.direct = ind.direct /\ new.tot = ind.tot
      BY <2>7, <2>8, <3>0
    <3>2. ind.pt2 = 0 BY <2>7, <2>12 DEF NeedsPt2
    <3>3. /\ Shaped(new, p1)
          /\ \A x \in Int, c \in Block : Holds(new, p1, x, c) => Holds(ind, p1, x, c) \/ (x = -2 /\ c = b)
      BY <2>2, <2>6, <2>9, <3>1, <3>2, NewPt2 DEF Blank
    <3>4. RestKeeps(inode, p1, inode', p1, owner) BY <2>6, <3>0, OthersSame
    <3>5. p2 = p1 /\ -2 \in Int /\ -2 < 0 BY <1>p2, <2>5, <2>12
    <3>6. Gains(ind, p1, new, p1, -2, b) BY <3>3 DEF Gains
    <3> QED BY <2>7, <2>8, <3>4, <3>5, <3>6
  <2>13. CASE /\ NeedsPtr /\ inode' = inode
              /\ block' = [block EXCEPT ![b] = Cleared, ![inode[owner].pt2].ptr[Idx1] = b]
    <3>1. ind.tot \in D + P .. MaxTot - 1
      BY <2>2, <2>7, <2>13, Room, Places, Constants DEF NeedsPtr, Tot
    <3>2. PICK r \in 0 .. P - 1 : r = Row(ind.tot) BY <3>1, Places
    <3>3. r = Idx1 BY <2>7, <3>2 DEF Idx1, Row, Tot
    <3>4. PICK c0 \in Block : c0 = ind.pt2 /\ c0 # 0 BY <2>7, <2>13 DEF NeedsPtr, Ind
    <3>5. p[c0][r] = 0 BY <1>b, <1>p, <2>7, <2>13, <3>3, <3>4, Pointed DEF NeedsPtr
    <3>6. Holds(ind, p1, -2, c0) /\ Holds(ind, p, -2, c0) BY <3>4, Indirect
    <3>7. c0 # b BY <2>2, <2>6, <2>7, <3>6 DEF Unheld
    <3>8. p1[c0] = p[c0] BY <2>4, <2>5, <3>7 DEF OnlyBlock
    <3>9. block' = [blk EXCEPT ![c0].ptr[r] = b] BY <2>3, <2>7, <2>13, <3>3, <3>4
    <3>10. \A c \in Block : block'[c].ptr = IF c = c0 THEN [blk[c].ptr EXCEPT ![r] = b] ELSE blk[c].ptr
      BY <2>2, <2>4, <3>9, StoresPtr
    <3>11. \A c \in Block : p2[c] = IF c = c0 THEN [p1[c] EXCEPT ![r] = b] ELSE p1[c]
      BY <1>b, <1>p2, <2>4, <2>5, <3>10, Pointed
    <3>12. /\ Shaped(ind, p2)
           /\ \A x \in Int, c \in Block : Holds(ind, p2, x, c) => Holds(ind, p1, x, c) \/ (x = -3 - r /\ c = b)
      <4>1. ind.pt2 # 0 /\ p1[ind.pt2][r] = 0 BY <3>4, <3>5, <3>8
      <4>2. Points(p2, p1, ind.pt2, r, b) BY <3>4, <3>11 DEF Points
      <4> QED BY <2>2, <2>9, <4>1, <4>2, NewRow
    <3>13. Only(inode, inode, owner) BY <1>i DEF Only
    <3>14. OnlyBlock(p1, p2, c0) BY <3>11 DEF OnlyBlock
    <3>15. -2 \in Int /\ Holds(inode[owner], p1, -2, c0) BY <2>7, <3>6
    <3>16. RestKeeps(inode, p1, inode, p2, owner)
      BY <1>i, <2>2, <2>6, <3>13, <3>14, <3>15, Others
    <3>17. Gains(ind, p1, ind, p2, -3 - r, b) /\ -3 - r \in Int /\ -3 - r < 0 BY <3>12, Constants DEF Gains
    <3> QED BY <2>7, <2>13, <3>16, <3>17
  <2> QED BY <2>1, <2>3, <2>11, <2>12, <2>13
<1>7. CASE StorePointer
  <2>1. /\ pc = "append" /\ ~NeedsPt1 /\ ~NeedsPt2 /\ ~NeedsPtr /\ Link /\ pc' = "tot"
        /\ dbits' = dbits /\ owner' = owner /\ dnum' = dnum /\ owner \in 1 .. Inodes
    BY <1>7, <1>o DEF StorePointer, locals
  <2>2. PICK ind \in Ind : ind = inode[owner] BY <1>i, <2>1
  <2>3. PICK new \in Ind : new = inode'[owner] BY <1>i, <2>1
  <2>4. ind.tot = Tot /\ ind.tot \in Nat /\ ind.tot < MaxTot BY <2>1, <2>2, Room DEF Tot
  <2>5. Shaped(ind, p) /\ Distinct(ind, p) BY <1>s, <2>1, <2>2, OneApart DEF Good
  <2>6. SUFFICES /\ Stored(ind, p, new, p2, dnum) /\ new.tot = ind.tot
                 /\ RestKeeps(inode, p, inode', p2, owner)
    <3>1. Good(inode', p2, dbits) /\ Unheld(inode', p2, dnum)
      BY <1>i, <1>o, <1>s, <2>1, <2>2, <2>3, <2>6, AfterStore
    <3>2. Tot' = ind.tot BY <2>1, <2>3, <2>6 DEF Tot
    <3>3. Appended' BY <1>p2, <2>1, <2>3, <2>4, <2>6, <3>2 DEF Appended, Stored
    <3>4. Lasts(inode, p, inode', p2) BY <2>2, <2>3, <2>6 DEF Lasts, Stored, RestKeeps, Keeps
    <3> QED BY <1>q, <2>1, <3>1, <3>3, <3>4
  <2>7. CASE Tot < D
    <3>1. PICK x \in 0 .. D - 1 : x = ind.tot BY <2>4, <2>7, Constants
    <3>2. Direct(inode', inode, owner, x, dnum) /\ block' = block
      <4>1. x = Tot BY <2>4, <3>1
      <4>2. Direct(inode', inode, owner, x, dnum)
        <5>1. ~ (Tot \in D .. D + P - 1) /\ ~ (Tot >= D + P) BY <2>4, <2>7, Constants
        <5> QED BY <2>1, <4>1, <5>1 DEF Link, Direct
      <4>3. block' = block
        <5>1. Link BY <2>1
        <5>2. ~ (Tot \in D .. D + P - 1) /\ ~ (Tot >= D + P) BY <2>4, <2>7, Constants
        <5> QED BY <5>1, <5>2 DEF Link
      <4> QED BY <4>2, <4>3
    <3>3. Only(inode', inode, owner) /\ Redirected(new, ind, x, dnum)
      BY <1>i, <1>o, <2>1, <2>2, <2>3, <3>2, SetDirect
    <3>4. p2 = p BY <1>p, <1>p2, <3>2
    <3>5. /\ new.direct = [ind.direct EXCEPT ![ind.tot] = dnum]
          /\ new.pt1 = ind.pt1 /\ new.pt2 = ind.pt2 /\ new.tot = ind.tot
      BY <3>1, <3>3 DEF Redirected
    <3>6. Stored(ind, p, new, p, dnum) BY <1>o, <2>4, <2>5, <2>7, <3>5, StoreDirect
    <3>7. RestKeeps(inode, p, inode', p, owner) BY <1>s, <3>3, OthersSame
    <3> QED BY <3>4, <3>5, <3>6, <3>7
  <2>8. CASE ~ (Tot < D) /\ Tot < D + P
    <3>1. PICK c0 \in Block : c0 = ind.pt1 /\ c0 # 0
      <4>1. Tot \in D .. D + P - 1 BY <2>4, <2>8, Constants
      <4> QED BY <2>1, <2>2, <4>1 DEF NeedsPt1, Ind
    <3>2. inode' = inode /\ block' = [block EXCEPT ![c0].ptr[ind.tot - D] = dnum]
      <4>1. ~ (Tot >= D + P) /\ Tot = ind.tot BY <2>4, <2>8, Constants
      <4> QED BY <2>1, <2>2, <2>8, <3>1, <4>1 DEF Link
    <3>3. \A c \in Block : block'[c].ptr = IF c = c0 THEN [block[c].ptr EXCEPT ![ind.tot - D] = dnum]
                                                     ELSE block[c].ptr
      BY <1>b, <1>o, <3>2, StoresPtr
    <3>4. \A c \in Block : p2[c] = IF c = ind.pt1 THEN [p[c] EXCEPT ![ind.tot - D] = dnum] ELSE p[c]
      BY <1>b, <1>p, <1>p2, <3>1, <3>3, Pointed
    <3>5. D <= ind.tot /\ ind.tot < D + P BY <2>4, <2>8, Constants
    <3>6. Stored(ind, p, ind, p2, dnum) BY <1>o, <2>5, <3>1, <3>4, <3>5, StoreSingle
    <3>7. -1 \in Int /\ Holds(inode[owner], p, -1, c0) BY <2>2, <3>1, Indirect
    <3>8. Only(inode', inode, owner) BY <1>i, <3>2 DEF Only
    <3>9. OnlyBlock(p, p2, c0) BY <3>1, <3>4 DEF OnlyBlock
    <3>10. RestKeeps(inode, p, inode', p2, owner)
      BY <1>i, <1>s, <2>1, <3>7, <3>8, <3>9, Others
    <3> QED BY <2>2, <2>3, <3>2, <3>6, <3>10
  <2>9. CASE ~ (Tot < D) /\ ~ (Tot < D + P)
    <3>1. ind.tot \in D + P .. MaxTot - 1 /\ Tot >= D + P BY <2>4, <2>9, Constants, Places
    <3>2. ind.pt2 # 0 BY <2>1, <2>2, <3>1 DEF NeedsPt2
    <3>3. PICK r \in 0 .. P - 1 : r = Row(ind.tot) BY <3>1, Places
    <3>4. r = Idx1 BY <2>4, <3>3 DEF Idx1, Row
    <3>5. ind.pt2 \in Block BY DEF Ind
    <3>6. PICK c0 \in Block : c0 = p[ind.pt2][r] BY <3>5, PtrType
    <3>7. c0 = block[inode[owner].pt2].ptr[Idx1] BY <1>b, <1>p, <2>2, <3>4, <3>5, <3>6, Pointed
    <3>8. c0 # 0 BY <2>1, <2>2, <3>1, <3>2, <3>7 DEF NeedsPtr
    <3>9. PICK x \in 0 .. P - 1 : x = Col(ind.tot) BY <3>1, Places
    <3>10. x = Tot - D - P - Idx1 * P BY <2>4, <3>1, <3>3, <3>4, <3>9, Places
    <3>11. inode' = inode /\ block' = [block EXCEPT ![c0].ptr[x] = dnum]
      <4>1. ~ (Tot \in D .. D + P - 1) BY <2>4, <2>9, Constants
      <4> QED BY <2>1, <2>9, <3>7, <3>10, <4>1 DEF Link
    <3>12. \A c \in Block : block'[c].ptr = IF c = c0 THEN [block[c].ptr EXCEPT ![x] = dnum]
                                                      ELSE block[c].ptr
      BY <1>b, <1>o, <3>11, StoresPtr
    <3>13. \A c \in Block : p2[c] = IF c = c0 THEN [p[c] EXCEPT ![Col(ind.tot)] = dnum] ELSE p[c]
      BY <1>b, <1>p, <1>p2, <3>9, <3>12, Pointed
    <3>14. ind.pt1 # 0
      <4>1. D \in 0 .. ind.tot - 1 BY <3>1, Constants
      <4>2. Way(ind, p, D) BY <2>5, <4>1 DEF Shaped
      <4> QED BY <4>2, Constants DEF Way
    <3>15. Stored(ind, p, ind, p2, dnum)
      BY <1>o, <2>5, <3>1, <3>2, <3>3, <3>6, <3>8, <3>13, <3>14, StoreDouble
    <3>16. -3 - r \in Int /\ Holds(inode[owner], p, -3 - r, c0)
      BY <2>2, <3>2, <3>6, <3>8, Indirect
    <3>17. Only(inode', inode, owner) BY <1>i, <3>11 DEF Only
    <3>18. OnlyBlock(p, p2, c0) BY <3>13 DEF OnlyBlock
    <3>19. RestKeeps(inode, p, inode', p2, owner)
      BY <1>i, <1>s, <2>1, <3>16, <3>17, <3>18, Others
    <3> QED BY <2>2, <2>3, <3>11, <3>15, <3>19
  <2> QED BY <2>7, <2>8, <2>9
<1>8. CASE CountBlock
  <2>1. /\ pc = "tot" /\ pc' \notin {"append", "tot"} /\ owner \in 1 .. Inodes
        /\ inode' = [inode EXCEPT ![owner].tot = @ + 1] /\ p2 = p /\ dbits' = dbits
    BY <1>8, <1>o, <1>p, <1>p2 DEF CountBlock
  <2>2. PICK ind \in Ind : ind = inode[owner] BY <1>i, <2>1
  <2>3. PICK new \in Ind : new = inode'[owner] BY <1>i, <2>1
  <2>4. /\ Only(inode', inode, owner) /\ new.tot = ind.tot + 1
        /\ new.pt1 = ind.pt1 /\ new.pt2 = ind.pt2 /\ new.direct = ind.direct
    BY <1>i, <2>1, <2>2, <2>3, SetTot
  <2>5. Shaped(ind, p) BY <1>s, <2>1, <2>2 DEF Good
  <2>6. ind.tot < MaxTot /\ Way(ind, p, ind.tot) /\ Loaded(ind, p, ind.tot) = dnum /\ ind.tot \in Int
    BY <1>s, <2>1, <2>2 DEF Tot, Ind
  <2>7. /\ Shaped(new, p)
        /\ \A x \in Int, c \in Block : Holds(new, p, x, c) => Holds(ind, p, x, c) \/ (x = ind.tot /\ c = dnum)
    BY <1>o, <2>4, <2>5, <2>6, Counting
  <2>8. RestKeeps(inode, p, inode', p, owner) BY <1>s, <2>4, OthersSame
  <2>10. PICK x0 \in Int : x0 = ind.tot BY <2>6
  <2>11. Gains(inode[owner], p, inode'[owner], p, x0, dnum)
    BY <2>2, <2>3, <2>7, <2>10 DEF Gains
  <2>9. Good(inode', p, dbits)
    BY <1>i, <1>o, <1>s, <2>1, <2>8, <2>11, AfterNew
  <2>12. Lasts(inode, p, inode', p2)
    <3>1. \A k \in 1 .. Inodes : inode[k].tot \in Nat BY <1>t, OwnerType
    <3>2. x0 \notin 0 .. inode[owner].tot - 1 BY <2>1, <2>2, <2>10, <3>1
    <3> QED BY <2>1, <2>8, <2>11, <3>2 DEF Lasts, Gains, RestKeeps, Keeps
  <2> QED BY <1>q, <1>x, <2>1, <2>9, <2>12
<1> QED BY <1>1, <1>2, <1>3, <1>4, <1>5, <1>6, <1>7, <1>8 DEF Next

LEMMA InitP == Init => Polls /\ Progress
<1> SUFFICES ASSUME Init PROVE Polls /\ Progress OBVIOUS
<1>1. Polls BY Constants DEF Polls, Init, Root
<1>2. inode[Root].tot = 1
  <2>1. Root \in 1 .. Inodes /\ 0 \in 0 .. D - 1 BY Constants DEF Root
  <2> QED BY <2>1 DEF Init, NewInode
<1>3. Cardinality(ibits) = 1 BY FS_Singleton DEF Init
<1>4. pc = "idle" BY DEF Init
<1> QED BY <1>1, <1>2, <1>3, <1>4 DEF Progress, ForRoot, ForFile

-----------------------------------------------------------------------------
(* From places to Held *)

\* LoadedBlock, which the loader follows, is Loaded.
LEMMA LoaderReads ==
  ASSUME Types, NEW ind \in Ind, NEW x \in Nat, x < MaxTot
  PROVE  LoadedBlock(ind, x) = Loaded(ind, Ptr(block), x)
<1>1. \A b \in Block : Ptr(block)[b] = block[b].ptr BY Pointed DEF Types
<1>2. ind.pt1 \in Block /\ ind.pt2 \in Block BY DEF Ind
<1>3. CASE x < D
  <2>1. ~(x \in D .. D + P - 1) BY <1>3, Constants
  <2> QED BY <1>3, <2>1 DEF LoadedBlock, Loaded
<1>4. CASE ~(x < D) /\ x < D + P
  <2>1. x \in D .. D + P - 1 BY <1>4, Constants
  <2> QED BY <1>1, <1>2, <1>4, <2>1 DEF LoadedBlock, Loaded
<1>5. CASE ~(x < D) /\ ~(x < D + P)
  <2>1. ~(x \in D .. D + P - 1) /\ x \in D + P .. MaxTot - 1 BY <1>5, Constants, Places
  <2>2. Row(x) \in 0 .. P - 1 BY <2>1, Places
  <2>3. block[ind.pt2].ptr[Row(x)] \in Block
    <3>1. Ptr(block)[ind.pt2][Row(x)] \in Block BY <1>2, <2>2, Pointed, PtrType DEF Types
    <3> QED BY <1>1, <1>2, <3>1
  <2>4. LoadedBlock(ind, x) = block[block[ind.pt2].ptr[Row(x)]].ptr[Col(x)]
    BY <1>5, <2>1 DEF LoadedBlock, Row, Col
  <2>5. Loaded(ind, Ptr(block), x) = block[block[ind.pt2].ptr[Row(x)]].ptr[Col(x)]
    BY <1>1, <1>2, <1>5, <2>3 DEF Loaded
  <2> QED BY <2>4, <2>5
<1> QED BY <1>3, <1>4, <1>5

LEMMA HeldHolds ==
  ASSUME SInv, NEW k \in 1 .. Inodes, NEW h \in Held(k)
  PROVE  \E x \in Int, b \in Block : h = <<k, x, b>> /\ Holds(inode[k], Ptr(block), x, b)
<1>t. Types BY Shapes DEF SInv, TInv
<1>1. PICK ind \in Ind : ind = inode[k] BY <1>t DEF Types
<1>2. PICK p \in Ptrs : p = Ptr(block) BY <1>t, Pointed DEF Types
<1>3. Shaped(ind, p) BY <1>1, <1>2 DEF SInv, Structure
<1>4. \A b \in Block : p[b] = block[b].ptr BY <1>t, <1>2, Pointed DEF Types
<1>5. ind.pt1 \in Block /\ ind.pt2 \in Block /\ ind.tot \in Nat BY DEF Ind
<1>6. SUFFICES \E x \in Int, b \in Block : h = <<k, x, b>> /\ Holds(ind, p, x, b)
  BY <1>1, <1>2
<1>7. \/ \E u \in 0 .. ind.tot - 1 : h = <<k, u, LoadedBlock(ind, u)>>
      \/ ind.pt1 # 0 /\ h = <<k, -1, ind.pt1>>
      \/ ind.pt2 # 0 /\ h = <<k, -2, ind.pt2>>
      \/ ind.pt2 # 0 /\ \E m \in 0 .. P - 1 : /\ block[ind.pt2].ptr[m] # 0
                                             /\ h = <<k, -3 - m, block[ind.pt2].ptr[m]>>
  BY <1>1 DEF Held
<1>8. ASSUME NEW u \in 0 .. ind.tot - 1, h = <<k, u, LoadedBlock(ind, u)>>
      PROVE  \E x \in Int, b \in Block : h = <<k, x, b>> /\ Holds(ind, p, x, b)
  <2>1. u \in Nat /\ u < MaxTot BY <1>3, <1>5, Places DEF Shaped
  <2>2. LoadedBlock(ind, u) = Loaded(ind, p, u) BY <1>t, <1>2, <2>1, LoaderReads
  <2>3. Loaded(ind, p, u) \in Block BY <2>1, LoadedType
  <2>4. Holds(ind, p, u, Loaded(ind, p, u)) BY DEF Holds
  <2> QED BY <1>8, <2>1, <2>2, <2>3, <2>4
<1>9. CASE ind.pt1 # 0 /\ h = <<k, -1, ind.pt1>>
  BY <1>5, <1>9, Indirect
<1>10. CASE ind.pt2 # 0 /\ h = <<k, -2, ind.pt2>>
  BY <1>5, <1>10, Indirect
<1>11. ASSUME ind.pt2 # 0, NEW m \in 0 .. P - 1, block[ind.pt2].ptr[m] # 0,
              h = <<k, -3 - m, block[ind.pt2].ptr[m]>>
       PROVE  \E x \in Int, b \in Block : h = <<k, x, b>> /\ Holds(ind, p, x, b)
  <2>1. PICK b \in Block : b = p[ind.pt2][m] BY <1>5, PtrType
  <2>2. b = block[ind.pt2].ptr[m] BY <1>4, <1>5, <2>1
  <2>3. Holds(ind, p, -3 - m, b) /\ -3 - m \in Int BY <1>11, <2>1, <2>2, Indirect, Constants
  <2> QED BY <1>11, <2>2, <2>3
<1> QED BY <1>7, <1>8, <1>9, <1>10, <1>11

LEMMA Separate == SInv => BlocksApart
<1> SUFFICES ASSUME SInv PROVE BlocksApart OBVIOUS
<1>t. Types BY Shapes DEF SInv, TInv
<1>a. Apart(inode, Ptr(block), dbits) BY DEF SInv, Structure
<1>1. ASSUME NEW h \in AllHeld
      PROVE  \E k \in 1 .. Inodes, x \in Int, b \in Block :
               h = <<k, x, b>> /\ Holds(inode[k], Ptr(block), x, b)
  <2>1. PICK k \in ibits : h \in Held(k) BY DEF AllHeld
  <2>2. k \in 1 .. Inodes BY <1>t DEF Types
  <2> QED BY <2>1, <2>2, HeldHolds
<1>2. ASSUME NEW h \in AllHeld PROVE h[3] \in dbits
  BY <1>1, <1>a DEF Apart
<1>3. ASSUME NEW g \in AllHeld, NEW h \in AllHeld, g[3] = h[3] PROVE g = h
  <2>1. PICK k \in 1 .. Inodes, x \in Int, b \in Block :
          g = <<k, x, b>> /\ Holds(inode[k], Ptr(block), x, b) BY <1>1
  <2>2. PICK l \in 1 .. Inodes, y \in Int, c \in Block :
          h = <<l, y, c>> /\ Holds(inode[l], Ptr(block), y, c) BY <1>1
  <2>3. b = c BY <1>3, <2>1, <2>2
  <2>4. k = l /\ x = y BY <1>a, <2>1, <2>2, <2>3 DEF Apart
  <2> QED BY <2>1, <2>2, <2>3, <2>4
<1> QED BY <1>2, <1>3 DEF BlocksApart

\* Whatever the sizes, the files written and the tools killed, no block is in
\* two places, and each that is held is marked: no later allocation returns it.
THEOREM NeverShared == Spec => []BlocksApart
<1>1. Init => SInv BY InitT, InitP, InitS DEF SInv
<1>2. SInv /\ [Next]_vars => SInv' BY StepT, StepB, StepP, StepS DEF SInv
<1> QED BY <1>1, <1>2, Separate, PTL DEF Spec
-----------------------------------------------------------------------------
(* The root directory *)

Size == inode[Root].bytes
Spread == inode[Root].tot
Dir(u) == Loaded(inode[Root], Ptr(block), u)
Vacant(b) == \A k \in 0 .. E - 1 : block[b].ent[k].inum = 0

Searching == pc \in {"init", "names", "dirblock", "entry"} \/ ForRoot

\* The root has room for its entries and those are as many as there are inodes
\* at the most, also while one is being added.
Sizes ==
  /\ 1 <= Size /\ 1 <= Spread /\ Size <= Spread * E
  /\ Size <= Cardinality(ibits)
  /\ Searching \/ pc = "bytes" => Size < Cardinality(ibits)
  /\ pc = "dirblock" \/ ForRoot => Size % E = 0
  /\ pc \in {"entry", "bytes"} => Size < Spread * E

\* Behind the entry that comes next nothing is stored, except where an entry is
\* the first of its block.
Layout ==
  /\ \A u \in 0 .. Spread - 1, k \in 1 .. E - 1 :
       u * E + k > Size => block[Dir(u)].ent[k].inum = 0
  /\ ForRoot => Vacant(dnum)
  /\ pc = "entry" /\ Size % E = 0 => dnum = Dir(Spread - 1) /\ Vacant(dnum)

DInv == SInv /\ Sizes /\ Layout

\* What a step does, apart from those that add an entry, as far as the root is
\* concerned.
LEMMA Moves ==
  ASSUME Types, Working, [Next]_vars
  PROVE  \/ StoreEntry \/ CountEntry \/ (CountBlock /\ owner = Root)
         \/ /\ pc' \in {"idle", "inode"} /\ ibits' = ibits
            /\ kills' \in {kills, kills + 1} /\ (pc = "bytes" => kills' = kills + 1)
         \/ AllocateInode
         \/ pc = "init" /\ pc' = "names" /\ UNCHANGED <<n, ibits, kills>>
         \/ NameFree
         \/ AllocateDirBlock
         \/ ForRoot /\ ForRoot' /\ UNCHANGED <<dnum, n, name, ibits, kills>>
         \/ /\ ~ForRoot' /\ pc' \in {"blocks", "data", "append", "tot"} /\ pc # "bytes"
            /\ UNCHANGED <<ibits, kills>>
         \/ UNCHANGED vars
<1> SUFFICES ASSUME ~StoreEntry, ~CountEntry, ~(CountBlock /\ owner = Root), ~AllocateInode,
                    ~NameFree, ~AllocateDirBlock, ~(UNCHANGED vars)
             PROVE  \/ /\ pc' \in {"idle", "inode"} /\ ibits' = ibits
                       /\ kills' \in {kills, kills + 1} /\ (pc = "bytes" => kills' = kills + 1)
                    \/ pc = "init" /\ pc' = "names" /\ UNCHANGED <<n, ibits, kills>>
                    \/ ForRoot /\ ForRoot' /\ UNCHANGED <<dnum, n, name, ibits, kills>>
                    \/ /\ ~ForRoot' /\ pc' \in {"blocks", "data", "append", "tot"} /\ pc # "bytes"
                       /\ UNCHANGED <<ibits, kills>>
  OBVIOUS
<1>1. CASE WriteFile \/ NameTaken \/ Return
  BY <1>1 DEF WriteFile, NameTaken, Return, Leave, image
<1>2. CASE Kill
  <2>1. ibits' = ibits BY <1>2, Taken DEF Kill
  <2> QED BY <1>2, <2>1 DEF Kill, Leave
<1>3. CASE InitInode BY <1>3 DEF InitInode, locals
<1>4. CASE AllocateFileBlock
  <2>1. ibits' = ibits BY <1>4, Taken DEF AllocateFileBlock
  <2>2. owner' # Root BY <1>4, OwnerType DEF AllocateFileBlock
  <2> QED BY <1>4, <2>1, <2>2 DEF AllocateFileBlock, ForRoot
<1>5. CASE AllocateIndirect \/ StorePointer
  <2>1. ibits' = ibits BY <1>5, Taken DEF AllocateIndirect, StorePointer
  <2>2. /\ UNCHANGED <<dnum, n, name, owner, kills>> /\ pc = "append"
        /\ pc' \in {"append", "tot"}
    BY <1>5 DEF AllocateIndirect, StorePointer, locals
  <2> QED BY <2>1, <2>2 DEF ForRoot
<1>6. CASE CountBlock
  BY <1>6 DEF CountBlock, ForRoot
<1>7. CASE BlocksDone \/ StoreData
  BY <1>7 DEF BlocksDone, StoreData, image, ForRoot
<1> QED BY <1>1, <1>2, <1>3, <1>4, <1>5, <1>6, <1>7 DEF Next

\* The root's size changes where an entry is counted only.
LEMMA Bytes ==
  ASSUME Types, Working, [Next]_vars
  PROVE  Size \in Nat /\ Size' = IF CountEntry THEN Size + 1 ELSE Size
<1>o. /\ Root \in 1 .. Inodes /\ inode \in [1 .. Inodes -> Ind]
      /\ pc \in {"append", "tot"} => owner \in 1 .. Inodes
      /\ pc \notin {"idle", "inode"} => n \in 1 .. Inodes /\ n # Root
  BY OwnerType DEF Types
<1>0. Size \in Nat BY <1>o DEF Size, Ind
<1>1. CASE CountEntry
  <2>1. inode' = [inode EXCEPT ![Root].bytes = @ + 1] BY <1>1 DEF CountEntry
  <2>2. inode'[Root].bytes = inode[Root].bytes + 1 BY <1>o, <2>1, SetBytes
  <2> QED BY <1>0, <1>1, <2>2 DEF Size
<1>2. CASE AllocateIndirect
  <2>1. owner \in 1 .. Inodes BY <1>2, <1>o DEF AllocateIndirect
  <2>2. PICK b \in Block : \/ inode' = inode
                           \/ inode' = [inode EXCEPT ![owner].pt1 = b]
                           \/ inode' = [inode EXCEPT ![owner].pt2 = b]
    BY <1>2, Taken DEF AllocateIndirect
  <2>3. ASSUME inode' = [inode EXCEPT ![owner].pt1 = b]
        PROVE  \A k \in 1 .. Inodes : inode'[k].bytes = inode[k].bytes
    <3>1. Only(inode', inode, owner) /\ inode'[owner].bytes = inode[owner].bytes
      BY <1>o, <2>1, <2>3, SetPt1
    <3> QED BY <3>1 DEF Only
  <2>4. ASSUME inode' = [inode EXCEPT ![owner].pt2 = b]
        PROVE  \A k \in 1 .. Inodes : inode'[k].bytes = inode[k].bytes
    <3>1. Only(inode', inode, owner) /\ inode'[owner].bytes = inode[owner].bytes
      BY <1>o, <2>1, <2>4, SetPt2
    <3> QED BY <3>1 DEF Only
  <2>7. inode' = inode \/ \A k \in 1 .. Inodes : inode'[k].bytes = inode[k].bytes
    BY <2>2, <2>3, <2>4
  <2>5. Size' = Size BY <1>o, <2>7 DEF Size
  <2>6. ~CountEntry BY <1>2 DEF AllocateIndirect, CountEntry
  <2> QED BY <1>0, <2>5, <2>6
<1>3. CASE StorePointer
  <2>1. owner \in 1 .. Inodes /\ dnum \in Block BY <1>3, <1>o DEF Types, StorePointer
  <2>2. Size' = Size
    <3>1. CASE Tot < D
      <4>1. PICK x \in 0 .. D - 1 : x = Tot BY <2>1, <3>1, OwnerType, Constants DEF Tot
      <4>2. ~(Tot \in D .. D + P - 1) /\ ~(Tot >= D + P) BY <3>1, <4>1, Constants
      <4>3. Direct(inode', inode, owner, x, dnum)
        BY <1>3, <4>1, <4>2 DEF StorePointer, Link, Direct
      <4>4. Only(inode', inode, owner) /\ Redirected(inode'[owner], inode[owner], x, dnum)
        BY <1>o, <2>1, <4>3, SetDirect
      <4> QED BY <1>o, <4>4 DEF Only, Redirected, Size
    <3>2. CASE ~ (Tot < D) BY <1>3, <3>2 DEF StorePointer, Link, Size
    <3> QED BY <3>1, <3>2
  <2>3. ~CountEntry BY <1>3 DEF StorePointer, CountEntry
  <2> QED BY <1>0, <2>2, <2>3
<1>4. CASE CountBlock
  <2>1. owner \in 1 .. Inodes /\ inode' = [inode EXCEPT ![owner].tot = @ + 1]
    BY <1>4, <1>o DEF CountBlock
  <2>2. Only(inode', inode, owner) /\ inode'[owner].bytes = inode[owner].bytes
    BY <1>o, <2>1, SetTot
  <2>3. ~CountEntry BY <1>4 DEF CountBlock, CountEntry
  <2> QED BY <1>0, <1>o, <2>2, <2>3 DEF Only, Size
<1>5. CASE InitInode
  <2>1. inode'[Root] = inode[Root] BY <1>5, <1>o DEF InitInode
  <2>2. ~CountEntry BY <1>5 DEF InitInode, CountEntry
  <2> QED BY <1>0, <2>1, <2>2 DEF Size
<1>6. CASE ~CountEntry /\ inode' = inode BY <1>0, <1>6 DEF Size
<1>7. \/ CountEntry \/ AllocateIndirect \/ StorePointer \/ CountBlock \/ InitInode
      \/ inode' = inode
  BY DEF Next, WriteFile, AllocateInode, NameTaken, NameFree, AllocateDirBlock,
     AllocateFileBlock, StoreEntry, BlocksDone, StoreData, Return, Kill, vars, image
<1> QED BY <1>1, <1>2, <1>3, <1>4, <1>5, <1>6, <1>7

LEMMA StepInv == SInv /\ [Next]_vars => SInv'
BY StepT, StepB, StepP, StepS DEF SInv

\* The root's blocks.
LEMMA DirBlocks ==
  ASSUME SInv
  PROVE  /\ Spread \in Nat /\ Size \in Nat
         /\ \A u \in 0 .. Spread - 1 : Dir(u) \in Block /\ Dir(u) \in dbits
         /\ \A u, l \in 0 .. Spread - 1 : Dir(u) = Dir(l) => u = l
<1>t. Types /\ Working BY Shapes DEF SInv, TInv
<1>1. Root \in 1 .. Inodes BY <1>t, OwnerType
<1>2. PICK ind \in Ind : ind = inode[Root] BY <1>t, <1>1 DEF Types
<1>3. PICK p \in Ptrs : p = Ptr(block) BY <1>t, Pointed DEF Types
<1>4. /\ Shaped(ind, p) /\ Apart(inode, p, dbits)
  BY <1>1, <1>2, <1>3 DEF SInv, Structure
<1>5. Spread = ind.tot /\ Spread \in Nat /\ Size \in Nat BY <1>2 DEF Spread, Size, Ind
<1>6. ASSUME NEW u \in 0 .. Spread - 1
      PROVE  Dir(u) \in Block /\ Holds(ind, p, u, Dir(u)) /\ u \in Int
  <2>1. u \in Nat /\ u < MaxTot BY <1>4, <1>5, Places DEF Shaped
  <2>2. Loaded(ind, p, u) \in Block BY <2>1, LoadedType
  <2> QED BY <1>2, <1>3, <1>5, <2>1, <2>2 DEF Holds, Dir
<1>7. Distinct(ind, p) BY <1>1, <1>2, <1>4, OneApart
<1>8. \A u \in 0 .. Spread - 1 : Dir(u) \in dbits BY <1>1, <1>2, <1>4, <1>6 DEF Apart
<1>9. \A u, l \in 0 .. Spread - 1 : Dir(u) = Dir(l) => u = l BY <1>6, <1>7 DEF Distinct
<1> QED BY <1>5, <1>6, <1>8, <1>9

LEMMA DirStays ==
  ASSUME SInv, [Next]_vars
  PROVE  /\ Spread' = IF CountBlock /\ owner = Root THEN Spread + 1 ELSE Spread
         /\ \A u \in 0 .. Spread - 1 : Dir(u)' = Dir(u)
         /\ CountBlock /\ owner = Root => Dir(Spread - 1)' = dnum
<1>t. Types /\ Working BY Shapes DEF SInv, TInv
<1>t2. SInv' BY StepInv
<1>t3. Types' BY <1>t2, Shapes DEF SInv, TInv
<1>o. Root \in 1 .. Inodes /\ Spread \in Nat BY <1>t, OwnerType, DirBlocks
<1>1. Spread' = IF CountBlock /\ owner = Root THEN Spread + 1 ELSE Spread
  <2>1. CASE \A k \in 1 .. Inodes : inode'[k].tot = inode[k].tot
    <3>1. ~CountBlock
      <4> SUFFICES ASSUME CountBlock PROVE FALSE OBVIOUS
      <4>1. owner \in 1 .. Inodes /\ inode' = [inode EXCEPT ![owner].tot = @ + 1]
        BY <1>t, OwnerType DEF CountBlock
      <4>2. inode'[owner].tot = inode[owner].tot + 1 BY <1>t, <4>1, SetTot DEF Types
      <4>3. inode[owner].tot \in Nat BY <1>t, <4>1, OwnerType
      <4> QED BY <2>1, <4>1, <4>2, <4>3
    <3> QED BY <1>o, <2>1, <3>1 DEF Spread
  <2>2. CASE InitInode
    <3>1. inode'[Root] = inode[Root] BY <1>t, <1>o, <2>2, OwnerType DEF InitInode, Types
    <3>2. ~CountBlock BY <2>2 DEF InitInode, CountBlock
    <3> QED BY <3>1, <3>2 DEF Spread
  <2>3. CASE CountBlock
    <3>1. owner \in 1 .. Inodes /\ inode' = [inode EXCEPT ![owner].tot = @ + 1]
      BY <1>t, <2>3, OwnerType DEF CountBlock
    <3>2. inode'[owner].tot = inode[owner].tot + 1 /\ Only(inode', inode, owner)
      BY <1>t, <3>1, SetTot DEF Types
    <3> QED BY <1>o, <2>3, <3>2 DEF Only, Spread
  <2> QED BY <1>t, <2>1, <2>2, <2>3, Totals
<1>b. (\A u \in 0 .. Spread - 1 : Dir(u) \in Block /\ Dir(u) \in dbits)' BY <1>t2, DirBlocks, PTL
<1>2. ASSUME NEW u \in 0 .. Spread - 1 PROVE Dir(u)' = Dir(u)
  <2>1. u \in 0 .. Spread' - 1 BY <1>o, <1>1
  <2>2. PICK c \in Block : c = Dir(u)' BY <1>b, <2>1
  <2>3. Holds(inode'[Root], Ptr(block'), u, c) BY <2>1, <2>2 DEF Holds, Dir, Spread
  <2>4. Lasts(inode, Ptr(block), inode', Ptr(block')) BY StepS
  <2>5. Holds(inode[Root], Ptr(block), u, c) BY <1>o, <2>3, <2>4 DEF Lasts, Spread
  <2>6. c = Loaded(inode[Root], Ptr(block), u)
    <3>1. u # -1 /\ u # -2 /\ -3 - u \notin 0 .. P - 1 BY Constants
    <3> QED BY <2>5, <3>1 DEF Holds
  <2> QED BY <2>2, <2>6 DEF Dir
<1>3. ASSUME CountBlock, owner = Root PROVE Dir(Spread - 1)' = dnum
  <2>1. pc = "tot" /\ Loaded(inode[Root], Ptr(block), Spread) = dnum /\ block' = block
    BY <1>3 DEF SInv, Structure, Appended, Tot, Spread, CountBlock
  <2>2. inode' = [inode EXCEPT ![Root].tot = @ + 1] BY <1>3 DEF CountBlock
  <2>3. /\ inode'[Root].pt1 = inode[Root].pt1 /\ inode'[Root].pt2 = inode[Root].pt2
        /\ inode'[Root].direct = inode[Root].direct
    BY <1>o, <1>t, <2>2, SetTot DEF Types
  <2>4. Dir(Spread - 1)' = Loaded(inode'[Root], Ptr(block'), Spread)
    <3>1. Spread' - 1 = Spread BY <1>o, <1>1, <1>3
    <3> QED BY <3>1 DEF Dir
  <2> QED BY <2>1, <2>3, <2>4 DEF Loaded
<1> QED BY <1>1, <1>2, <1>3
\* Only the addition of an entry writes into the entries of a block that is
\* marked.
LEMMA EntStays ==
  ASSUME SInv, [Next]_vars, ~StoreEntry
  PROVE  \A b \in dbits : block'[b].ent = block[b].ent
<1>t. Types BY Shapes DEF SInv, TInv
<1>b. block \in [Block -> Blk] /\ dbits \subseteq Block BY <1>t DEF Types, Block
<1>1. CASE UNCHANGED block BY <1>1
<1>2. CASE AllocateDirBlock \/ AllocateFileBlock
  <2>1. PICK b \in 1 .. Blocks : TakeBlock(b) /\ block' = [block EXCEPT ![b] = Cleared]
    BY <1>2 DEF AllocateDirBlock, AllocateFileBlock
  <2>2. b \notin dbits BY <2>1 DEF TakeBlock, FirstClear
  <2> QED BY <1>b, <2>1, <2>2
<1>3. CASE StoreData
  <2>1. <<n, i>> \in (0 .. Inodes) \X Nat BY <1>t DEF Types
  <2> QED BY <1>b, <1>3, <2>1, StoresData DEF StoreData
<1>4. CASE AllocateIndirect
  <2>1. PICK b \in 1 .. Blocks :
          /\ TakeBlock(b)
          /\ \/ block' = [block EXCEPT ![b] = Cleared]
             \/ block' = [block EXCEPT ![b] = Cleared, ![inode[owner].pt2].ptr[Idx1] = b]
    BY <1>4 DEF AllocateIndirect
  <2>2. b \notin dbits /\ b \in Block BY <2>1, <1>t, Taken DEF TakeBlock, FirstClear
  <2>3. PICK blk : blk = [block EXCEPT ![b] = Cleared] OBVIOUS
  <2>4. blk \in [Block -> Blk] BY <1>b, <2>3, Empty
  <2>5. \A d \in dbits : blk[d].ent = block[d].ent BY <1>b, <2>2, <2>3
  <2>6. PICK c, x : c = inode[owner].pt2 /\ x = Idx1 OBVIOUS
  <2>7. block' = blk \/ block' = [blk EXCEPT ![c].ptr[x] = b] BY <2>1, <2>3, <2>6
  <2>8. \A d \in Block : [blk EXCEPT ![c].ptr[x] = b][d].ent = blk[d].ent
    BY <2>2, <2>4, StoresPtr
  <2>9. \A d \in Block : block'[d].ent = blk[d].ent BY <2>7, <2>8
  <2> QED BY <1>b, <2>5, <2>9
<1>5. CASE StorePointer
  <2>1. Link /\ dnum \in Block BY <1>5, <1>t DEF StorePointer, Types
  <2>2. UNCHANGED block \/ \E c, x : block' = [block EXCEPT ![c].ptr[x] = dnum]
    BY <2>1 DEF Link
  <2>3. ASSUME NEW c, NEW x, block' = [block EXCEPT ![c].ptr[x] = dnum]
        PROVE  \A d \in Block : block'[d].ent = block[d].ent
    <3>1. \A d \in Block : [block EXCEPT ![c].ptr[x] = dnum][d].ent = block[d].ent
      BY <1>b, <2>1, StoresPtr
    <3> QED BY <2>3, <3>1
  <2>4. \A d \in Block : block'[d].ent = block[d].ent BY <2>2, <2>3
  <2> QED BY <1>b, <2>4
<1> QED
  BY <1>1, <1>2, <1>3, <1>4, <1>5 DEF Next, WriteFile, AllocateInode, InitInode, NameTaken,
     NameFree, CountEntry, BlocksDone, Return, CountBlock, Kill, vars, image

LEMMA DirKept ==
  ASSUME SInv, [Next]_vars, ~StoreEntry
  PROVE  \A u \in 0 .. Spread - 1 : Dir(u)' = Dir(u) /\ block'[Dir(u)].ent = block[Dir(u)].ent
BY DirBlocks, DirStays, EntStays

LEMMA Quotient ==
  ASSUME NEW q \in Nat, NEW M \in Nat, NEW N \in Nat \ {0}, q <= M * N
  PROVE  /\ q < M * N => q \div N < M
         /\ q % N # 0 => q < M * N
         /\ q < N => q \div N = 0 /\ q % N = q
<1>1. PICK d \in Nat, r \in 0 .. N - 1 : d = q \div N /\ r = q % N /\ q = d * N + r BY DivMod
<1>2. ASSUME M <= d PROVE q = M * N /\ r = 0
  <2>1. PICK e \in Nat : d = M + e BY <1>2
  <2>2. d * N = M * N + e * N BY <2>1
  <2>3. e * N \in Nat /\ M * N \in Nat BY <2>1
  <2> QED BY <1>1, <2>2, <2>3
<1>3. ASSUME d < M PROVE q < M * N
  <2>1. PICK e \in Nat : M = d + 1 + e BY <1>3
  <2>2. M * N = d * N + N + e * N BY <2>1
  <2>3. e * N \in Nat /\ d * N \in Nat BY <2>1
  <2> QED BY <1>1, <2>2, <2>3
<1>4. ASSUME q < N PROVE d = 0
  <2> SUFFICES ASSUME d # 0 PROVE FALSE OBVIOUS
  <2>1. PICK e \in Nat : d = 1 + e BY <1>1
  <2>2. d * N = N + e * N BY <2>1
  <2>3. e * N \in Nat BY <2>1
  <2> QED BY <1>1, <1>4, <2>2, <2>3
<1>5. d = 0 => q = r BY <1>1
<1>6. M * N \in Nat OBVIOUS
<1>7. d < M \/ M <= d OBVIOUS
<1> QED BY <1>1, <1>2, <1>3, <1>4, <1>5, <1>6, <1>7

\* The block and the slot that add_dir_entry stores in.
LEMMA Target ==
  ASSUME DInv, pc = "entry"
  PROVE  \E u \in 0 .. Spread - 1 :
           /\ EntryBlock = Dir(u) /\ Size % E \in 0 .. E - 1
           /\ u = IF Size % E = 0 THEN Spread - 1 ELSE Size \div E
<1>t. Types BY Shapes DEF DInv, SInv, TInv
<1>0. /\ Spread \in Nat \ {0} /\ Size \in Nat /\ Size % E \in 0 .. E - 1 /\ Size \div E \in Nat
  <2>1. Spread \in Nat /\ Size \in Nat BY DirBlocks DEF DInv
  <2>2. 1 <= Spread BY DEF DInv, Sizes
  <2>3. E \in Nat \ {0} BY Constants
  <2>4. Size % E \in 0 .. E - 1 /\ Size \div E \in Nat BY <2>1, <2>3, DivMod
  <2>5. Spread \in Nat \ {0} BY <2>1, <2>2
  <2> QED BY <2>1, <2>4, <2>5
<1>1. CASE Size % E = 0
  <2>1. EntryBlock = Dir(Spread - 1) BY <1>1 DEF DInv, Layout, EntryBlock, Size
  <2> QED BY <1>0, <1>1, <2>1
<1>2. CASE Size % E # 0
  <2>1. Size <= Spread * E /\ Size < Cardinality(ibits)
    BY <1>2 DEF DInv, Sizes, Searching
  <2>2. Size \div E < Spread
    <3>1. Size < Spread * E BY <1>0, <1>2, <2>1, Constants, Quotient
    <3> QED BY <1>0, <2>1, <3>1, Constants, Quotient
  <2>3. Size < (P + 1) * E
    <3>1. Cardinality(ibits) <= Inodes BY <1>t, Constants, Sets
    <3>2. Cardinality(ibits) <= Polled
      <4>1. ibits \subseteq 1 .. Polled BY DEF DInv, SInv, Polls
      <4>2. IsFiniteSet(1 .. Polled) /\ Cardinality(1 .. Polled) = Polled BY Constants, FS_Interval
      <4> QED BY <4>1, <4>2, FS_Subset
    <3>3. Cardinality(ibits) \in Nat BY <1>t, Constants, Sets
    <3>4. PICK m \in Nat : m = (P + 1) * E BY Constants
    <3>5. Inodes < m \/ Polled < m BY <3>4, MyfsAssumption
    <3> QED BY <1>0, <2>1, <3>1, <3>2, <3>3, <3>4, <3>5, Constants
  <2>4. Size \div E < P + 1
    <3>1. PICK m \in Nat : m = (P + 1) * E BY Constants
    <3>2. Size <= (P + 1) * E BY <1>0, <2>3, <3>1
    <3>3. P + 1 \in Nat BY Constants
    <3> QED BY <1>0, <2>3, <3>2, <3>3, Constants, Quotient
  <2>5. PICK k \in Nat : k = Size \div E /\ k < Spread /\ k < D + P
    BY <1>0, <2>2, <2>4, Constants
  <2>6. FileBlock(inode[Root], k) = Dir(k)
    <3>1. Root \in 1 .. Inodes BY Constants DEF Root
    <3>2. PICK ind \in Ind : ind = inode[Root] BY <1>t, <3>1 DEF Types
    <3>3. Ptr(block)[ind.pt1] = block[ind.pt1].ptr BY <1>t, Pointed DEF Types, Ind
    <3>4. CASE k < D
      <4>1. k \notin D .. D + P - 1 BY <3>4, Constants
      <4> QED BY <3>4, <4>1 DEF FileBlock, Dir, Loaded
    <3>5. CASE ~(k < D)
      <4>1. k \in D .. D + P - 1 BY <2>5, <3>5, Constants
      <4> QED BY <2>5, <3>2, <3>3, <3>5, <4>1 DEF FileBlock, Dir, Loaded
    <3> QED BY <3>4, <3>5
  <2>7. EntryBlock = Dir(k) BY <1>2, <2>5, <2>6 DEF EntryBlock, Size
  <2> QED BY <1>0, <1>2, <2>5, <2>7
<1> QED BY <1>1, <1>2

\* The entry that is stored, and nothing else.
NewEntry(u) ==
  \A b \in Block, k \in 0 .. E - 1 :
    block'[b].ent[k] = IF b = Dir(u) /\ k = Size % E THEN [name |-> name, inum |-> n]
                                                     ELSE block[b].ent[k]

LEMMA EntryStored ==
  ASSUME DInv, StoreEntry
  PROVE  /\ pc = "entry" /\ pc' = "bytes" /\ n \in ibits \ {Root}
         /\ UNCHANGED <<ibits, inode, kills, Size, Spread>>
         /\ \A u \in 0 .. Spread - 1 : Dir(u)' = Dir(u)
         /\ \E u \in 0 .. Spread - 1 :
              /\ Size % E \in 0 .. E - 1
              /\ u = (IF Size % E = 0 THEN Spread - 1 ELSE Size \div E)
              /\ NewEntry(u)
<1>t. Types /\ Working BY Shapes DEF DInv, SInv, TInv
<1>0. SInv /\ [Next]_vars BY DEF DInv, Next
<1>1. /\ pc = "entry" /\ pc' = "bytes" /\ n \in ibits \ {Root}
      /\ UNCHANGED <<ibits, inode, kills, Size, Spread>>
  BY <1>t DEF StoreEntry, Size, Spread, Working
<1>2. \A u \in 0 .. Spread - 1 : Dir(u)' = Dir(u) BY <1>0, DirStays
<1>3. PICK u \in 0 .. Spread - 1 :
        /\ EntryBlock = Dir(u) /\ Size % E \in 0 .. E - 1
        /\ u = IF Size % E = 0 THEN Spread - 1 ELSE Size \div E
  BY <1>1, Target
<1>4. NewEntry(u)
  <2>1. PICK e \in Ent : e = [name |-> name, inum |-> n] BY <1>t DEF Types, Ent
  <2>2. PICK c, x : c = Dir(u) /\ x = Size % E OBVIOUS
  <2>3. block' = [block EXCEPT ![c].ent[x] = e]
    BY <1>3, <2>1, <2>2 DEF StoreEntry, Size
  <2>4. \A b \in Block : block'[b].ent = IF b = c THEN [block[b].ent EXCEPT ![x] = e]
                                                  ELSE block[b].ent
    BY <1>t, <2>3, StoresEnt DEF Types
  <2>5. \A b \in Block : block[b].ent \in [0 .. E - 1 -> Ent] BY <1>t DEF Types, Blk
  <2> HIDE <2>3
  <2>6. ASSUME NEW b \in Block, NEW k \in 0 .. E - 1
        PROVE  block'[b].ent[k] = IF b = c /\ k = x THEN e ELSE block[b].ent[k]
    BY <2>4, <2>5
  <2> QED BY <2>1, <2>2, <2>6 DEF NewEntry
<1> QED BY <1>1, <1>2, <1>3, <1>4
LEMMA InitD == Init => Sizes /\ Layout
<1> SUFFICES ASSUME Init PROVE Sizes /\ Layout OBVIOUS
<1>1. Root \in 1 .. Inodes /\ 0 \in 0 .. D - 1 BY Constants DEF Root
<1>2. Size = 1 /\ Spread = 1 /\ inode[Root].direct[0] = 2
  BY <1>1 DEF Init, NewInode, Size, Spread
<1>3. Cardinality(ibits) = 1 BY FS_Singleton DEF Init
<1>4. pc = "idle" BY DEF Init
<1>5. 1 * E = E /\ 1 <= E BY Constants
<1>6. Sizes BY <1>2, <1>3, <1>4, <1>5 DEF Sizes, Searching, ForRoot
<1>7. Dir(0) = 2 /\ 2 \in Block
  BY <1>2, Constants DEF Dir, Loaded, Block
<1>8. \A k \in 1 .. E - 1 : block[Dir(0)].ent[k].inum = 0
  <2>1. block[2] = [Cleared EXCEPT !.ent[0] = [name |-> NoName, inum |-> Root]] BY <1>7 DEF Init
  <2>2. \A k \in 1 .. E - 1 : block[2].ent[k] = NoEntry BY <2>1, Constants DEF Cleared
  <2> QED BY <1>7, <2>2 DEF NoEntry
<1>9. \A u \in 0 .. Spread - 1 : u = 0 BY <1>2
<1>10. Layout BY <1>4, <1>8, <1>9 DEF Layout, ForRoot
<1> QED BY <1>6, <1>10

LEMMA StepSizes == SInv /\ Sizes /\ [Next]_vars => Sizes'
<1> SUFFICES ASSUME SInv, Sizes, [Next]_vars PROVE Sizes' OBVIOUS
<1>t. Types /\ Working BY Shapes DEF SInv, TInv
<1>d. /\ Spread \in Nat /\ Size \in Nat
      /\ Spread' = IF CountBlock /\ owner = Root THEN Spread + 1 ELSE Spread
      /\ Size' = IF CountEntry THEN Size + 1 ELSE Size
  BY <1>t, DirBlocks, DirStays, Bytes
<1>c. Cardinality(ibits) \in Nat /\ E \in Nat \ {0} BY <1>t, Sets, Constants
<1>m. PICK m \in Nat : m = Spread * E BY <1>c, <1>d
<1>m2. (Spread + 1) * E = m + E BY <1>c, <1>d, <1>m
<1>s. /\ 1 <= Size /\ 1 <= Spread /\ Size <= m
      /\ Size <= Cardinality(ibits)
      /\ Searching \/ pc = "bytes" => Size < Cardinality(ibits)
      /\ pc = "dirblock" \/ ForRoot => Size % E = 0
      /\ pc \in {"entry", "bytes"} => Size < m
  BY <1>m DEF Sizes
<1>1. CASE StoreEntry
  <2>1. pc = "entry" /\ pc' = "bytes" /\ UNCHANGED ibits BY <1>1 DEF StoreEntry
  <2>2. Size' = Size /\ Spread' = Spread
    BY <1>1, <1>d DEF StoreEntry, CountEntry, CountBlock
  <2> QED BY <1>c, <1>d, <1>m, <1>s, <2>1, <2>2 DEF Sizes, Searching, ForRoot
<1>2. CASE CountEntry
  <2>1. pc = "bytes" /\ pc' = "blocks" /\ UNCHANGED ibits BY <1>2 DEF CountEntry
  <2>2. Size' = Size + 1 /\ Spread' = Spread BY <1>2, <1>d DEF CountEntry, CountBlock
  <2> QED BY <1>c, <1>d, <1>m, <1>s, <2>1, <2>2 DEF Sizes, Searching, ForRoot
<1>3. CASE CountBlock /\ owner = Root
  <2>1. pc = "tot" /\ pc' = "entry" /\ UNCHANGED ibits BY <1>3 DEF CountBlock
  <2>2. Size' = Size /\ Spread' = Spread + 1 BY <1>3, <1>d DEF CountEntry, CountBlock
  <2>3. Size < m + E /\ Size < Cardinality(ibits)
    BY <1>c, <1>d, <1>3, <1>s, <2>1 DEF Searching, ForRoot
  <2>4. Spread' * E = m + E BY <1>m2, <2>2
  <2> QED BY <1>c, <1>d, <1>s, <2>1, <2>2, <2>3, <2>4 DEF Sizes, Searching, ForRoot
<1>4. CASE ~StoreEntry /\ ~CountEntry /\ ~(CountBlock /\ owner = Root)
  <2>0. Size' = Size /\ Spread' = Spread BY <1>4, <1>d
  <2>1. CASE pc' \in {"idle", "inode"} /\ ibits' = ibits
    BY <1>m, <1>s, <2>0, <2>1 DEF Sizes, Searching, ForRoot
  <2>2. CASE AllocateInode
    <3>1. PICK k \in 1 .. Inodes : TakeInode(k) BY <2>2 DEF AllocateInode
    <3>2. Cardinality(ibits') = Cardinality(ibits) + 1 BY <3>1, <1>t, OneMore
    <3>3. pc' = "init" BY <2>2 DEF AllocateInode
    <3> QED BY <1>c, <1>d, <1>m, <1>s, <2>0, <3>2, <3>3 DEF Sizes, Searching, ForRoot
  <2>3. CASE pc = "init" /\ pc' = "names" /\ UNCHANGED ibits
    BY <1>m, <1>s, <2>0, <2>3 DEF Sizes, Searching, ForRoot
  <2>4. CASE NameFree
    <3>1. /\ pc = "names" /\ UNCHANGED ibits
          /\ pc' = IF Size % E = 0 THEN "dirblock" ELSE "entry"
      BY <2>4 DEF NameFree, image, Size
    <3>2. CASE Size % E = 0 BY <1>m, <1>s, <2>0, <3>1, <3>2 DEF Sizes, Searching, ForRoot
    <3>3. CASE Size % E # 0
      <4>1. Size <= Spread * E BY <1>m, <1>s
      <4>2. Size < Spread * E BY <1>c, <1>d, <3>3, <4>1, Quotient
      <4>3. Size < m BY <1>m, <4>2
      <4> QED BY <1>m, <1>s, <2>0, <3>1, <3>3, <4>3 DEF Sizes, Searching, ForRoot
    <3> QED BY <3>2, <3>3
  <2>5. CASE AllocateDirBlock
    <3>1. pc = "dirblock" /\ pc' = "append" /\ UNCHANGED ibits
      BY <2>5, <1>t, Taken DEF AllocateDirBlock
    <3> QED BY <1>m, <1>s, <2>0, <3>1 DEF Sizes, Searching, ForRoot
  <2>6. CASE ForRoot /\ ForRoot' /\ UNCHANGED ibits
    BY <1>m, <1>s, <2>0, <2>6 DEF Sizes, Searching, ForRoot
  <2>7. CASE ~ForRoot' /\ pc' \in {"blocks", "data", "append", "tot"} /\ UNCHANGED ibits
    BY <1>m, <1>s, <2>0, <2>7 DEF Sizes, Searching
  <2>8. CASE UNCHANGED vars
    <3>1. UNCHANGED <<ibits, pc, owner>> BY <2>8 DEF vars, image, locals
    <3> QED BY <1>m, <1>s, <2>0, <3>1 DEF Sizes, Searching, ForRoot
  <2> QED BY <1>t, <1>4, <2>1, <2>2, <2>3, <2>4, <2>5, <2>6, <2>7, <2>8, Moves
<1> QED BY <1>1, <1>2, <1>3, <1>4

LEMMA StepLayout == DInv /\ [Next]_vars => Layout'
<1> SUFFICES ASSUME DInv, [Next]_vars PROVE Layout' OBVIOUS
<1>t. Types /\ Working /\ SInv BY Shapes DEF DInv, SInv, TInv
<1>d. /\ Spread \in Nat /\ Size \in Nat
      /\ Spread' = IF CountBlock /\ owner = Root THEN Spread + 1 ELSE Spread
      /\ Size' = IF CountEntry THEN Size + 1 ELSE Size
      /\ \A u \in 0 .. Spread - 1 : Dir(u) \in Block /\ Dir(u)' = Dir(u)
  BY <1>t, DirBlocks, DirStays, Bytes
<1>l. /\ \A u \in 0 .. Spread - 1, k \in 1 .. E - 1 :
           u * E + k > Size => block[Dir(u)].ent[k].inum = 0
      /\ ForRoot => Vacant(dnum)
      /\ pc = "entry" /\ Size % E = 0 => dnum = Dir(Spread - 1) /\ Vacant(dnum)
  BY DEF DInv, Layout
<1>e. E \in Nat \ {0} BY Constants
<1>1. CASE StoreEntry
  <2>1. /\ pc' = "bytes" /\ Size' = Size /\ Spread' = Spread BY <1>1, EntryStored
  <2>2. PICK u \in 0 .. Spread - 1 :
          /\ Size % E \in 0 .. E - 1
          /\ u = (IF Size % E = 0 THEN Spread - 1 ELSE Size \div E)
          /\ NewEntry(u)
    BY <1>1, EntryStored
  <2>3. Size = (Size \div E) * E + (Size % E) BY <1>d, <1>e, DivMod
  <2>4. ASSUME NEW l \in 0 .. Spread - 1, NEW k \in 1 .. E - 1, l * E + k > Size
        PROVE  block'[Dir(l)].ent[k].inum = 0
    <3>1. ~(Dir(l) = Dir(u) /\ k = Size % E)
      <4> SUFFICES ASSUME Dir(l) = Dir(u), k = Size % E PROVE FALSE OBVIOUS
      <4>1. l = u BY <1>t, DirBlocks
      <4>2. u = Size \div E BY <2>2
      <4> QED BY <1>d, <2>3, <2>4, <4>1, <4>2
    <3>2. block'[Dir(l)].ent[k] = block[Dir(l)].ent[k]
      <4>1. k \in 0 .. E - 1 BY <1>e
      <4>2. Dir(l) \in Block BY <1>d
      <4> QED BY <2>2, <3>1, <4>1, <4>2 DEF NewEntry
    <3> QED BY <1>l, <2>4, <3>2
  <2>5. \A l \in 0 .. Spread' - 1, k \in 1 .. E - 1 :
          l * E + k > Size' => block'[Dir(l)'].ent[k].inum = 0
    BY <1>d, <2>1, <2>4
  <2> QED BY <2>1, <2>5 DEF Layout, ForRoot
<1>2. CASE ~StoreEntry /\ ~(CountBlock /\ owner = Root)
  <2>1. Spread' = Spread /\ (Size' = Size \/ Size' = Size + 1) BY <1>d, <1>2
  <2>2. \A u \in 0 .. Spread - 1 : block'[Dir(u)].ent = block[Dir(u)].ent
    BY <1>t, <1>2, DirKept
  <2>3. ASSUME NEW l \in 0 .. Spread - 1, NEW k \in 1 .. E - 1, l * E + k > Size'
        PROVE  block'[Dir(l)].ent[k].inum = 0
    <3>1. PICK q \in Nat : q = l * E + k BY <1>d, <1>e
    <3>2. l * E + k > Size BY <1>d, <2>1, <2>3, <3>1
    <3> QED BY <1>l, <2>2, <3>2
  <2>4. \A l \in 0 .. Spread' - 1, k \in 1 .. E - 1 :
          l * E + k > Size' => block'[Dir(l)'].ent[k].inum = 0
    BY <1>d, <2>1, <2>3
  <2>5. SUFFICES /\ ForRoot' => Vacant(dnum)'
                 /\ pc' = "entry" /\ Size' % E = 0 => dnum' = Dir(Spread - 1)' /\ Vacant(dnum)'
    BY <2>4 DEF Layout
  <2>6. CASE AllocateDirBlock
    <3>1. PICK b \in 1 .. Blocks : block' = [block EXCEPT ![b] = Cleared] /\ dnum' = b
      BY <2>6 DEF AllocateDirBlock
    <3>2. block'[b] = Cleared BY <1>t, <3>1 DEF Types, Block
    <3>5. \A k \in 0 .. E - 1 : Cleared.ent[k].inum = 0 BY DEF Cleared, NoEntry
    <3>3. Vacant(dnum)' BY <3>1, <3>2, <3>5 DEF Vacant
    <3>4. pc' = "append" BY <2>6 DEF AllocateDirBlock
    <3> QED BY <3>3, <3>4
  <2>7. CASE ForRoot /\ ForRoot' /\ UNCHANGED dnum
    <3>1. dnum \in dbits BY <1>t, <2>7 DEF Working, ForRoot
    <3>2. block'[dnum].ent = block[dnum].ent BY <1>t, <1>2, <3>1, EntStays
    <3>3. Vacant(dnum)' BY <1>l, <2>7, <3>2 DEF Vacant
    <3>4. pc' # "entry" BY <2>7 DEF ForRoot
    <3> QED BY <3>3, <3>4
  <2>8. CASE NameFree
    <3>1. pc' = (IF Size % E = 0 THEN "dirblock" ELSE "entry") /\ pc = "names"
      BY <2>8 DEF NameFree, Size
    <3>2. ~CountEntry BY <3>1 DEF CountEntry
    <3>3. Size' = Size BY <1>d, <3>2
    <3> QED BY <3>1, <3>3 DEF ForRoot
  <2>9. CASE UNCHANGED vars
    <3>1. UNCHANGED <<inode, block, pc, owner, dnum>> BY <2>9 DEF vars, image, locals
    <3>2. UNCHANGED <<Size, Spread>> /\ Dir(Spread - 1)' = Dir(Spread - 1)
      BY <3>1 DEF Size, Spread, Dir
    <3>3. Vacant(dnum)' <=> Vacant(dnum) BY <3>1 DEF Vacant
    <3> QED BY <1>l, <3>1, <3>2, <3>3 DEF ForRoot
  <2>10. CASE pc' # "entry" /\ ~ForRoot' BY <2>10
  <2>11. CASE CountEntry \/ AllocateInode
    <3>1. pc' \in {"blocks", "init"} BY <2>11 DEF CountEntry, AllocateInode
    <3> QED BY <3>1 DEF ForRoot
  <2> QED BY <1>t, <1>2, <2>6, <2>7, <2>8, <2>9, <2>10, <2>11, Moves DEF ForRoot
<1>3. CASE CountBlock /\ owner = Root
  <2>1. pc = "tot" /\ pc' = "entry" /\ UNCHANGED <<block, dnum>> BY <1>3 DEF CountBlock
  <2>2. Spread' = Spread + 1 /\ Size' = Size BY <1>d, <1>3, <2>1 DEF CountEntry
  <2>3. Dir(Spread - 1)' = dnum /\ Spread' - 1 = Spread
    <3>1. Dir(Spread - 1)' = dnum BY <1>t, <1>3, DirStays
    <3> QED BY <1>d, <2>2, <3>1
  <2>4. Vacant(dnum) BY <1>3, <1>l, <2>1 DEF ForRoot
  <2>5. Vacant(dnum)' BY <2>1, <2>4 DEF Vacant
  <2>6. ASSUME NEW l \in 0 .. Spread' - 1, NEW k \in 1 .. E - 1, l * E + k > Size'
        PROVE  block'[Dir(l)'].ent[k].inum = 0
    <3>1. CASE l = Spread
      <4>1. Dir(l)' = dnum
        <5>1. Dir(l)' = Loaded(inode'[Root], Ptr(block'), l) BY DEF Dir
        <5>2. Dir(Spread - 1)' = Loaded(inode'[Root], Ptr(block'), Spread' - 1) BY DEF Dir
        <5> QED BY <2>3, <3>1, <5>1, <5>2
      <4> QED BY <1>e, <2>1, <2>4, <4>1 DEF Vacant
    <3>2. CASE l \in 0 .. Spread - 1
      BY <1>d, <1>l, <2>1, <2>2, <2>6, <3>2
    <3> QED BY <1>d, <2>2, <3>1, <3>2
  <2> QED BY <2>1, <2>3, <2>5, <2>6 DEF Layout, ForRoot
<1> QED BY <1>1, <1>2, <1>3
\* The first block of the root is filled from its start, each entry with a name
\* of its own, and the name that is being added is not among them.
FirstBlock ==
  /\ \A k \in 0 .. E - 1 :
       k < Size \/ (pc = "bytes" /\ k = Size) => block[Dir(0)].ent[k].inum # 0
  /\ \A k, m \in 0 .. E - 1 :
       /\ block[Dir(0)].ent[k].inum # 0 /\ block[Dir(0)].ent[m].inum # 0
       /\ block[Dir(0)].ent[k].name = block[Dir(0)].ent[m].name
       => k = m
  /\ pc \in {"dirblock", "entry"} \/ ForRoot
       => \A k \in 0 .. E - 1 : k < Size => block[Dir(0)].ent[k].name # name

LEMMA FirstIs == Dir(0) = inode[Root].direct[0]
BY Constants DEF Dir, Loaded

LEMMA InitF == Init => FirstBlock
<1> SUFFICES ASSUME Init PROVE FirstBlock OBVIOUS
<1>1. Root \in 1 .. Inodes /\ 0 \in 0 .. D - 1 /\ 2 \in Block BY Constants DEF Root, Block
<1>2. Size = 1 /\ inode[Root].direct[0] = 2 BY <1>1 DEF Init, NewInode, Size
<1>3. Dir(0) = 2 BY <1>2, FirstIs
<1>4. block[2] = [Cleared EXCEPT !.ent[0] = [name |-> NoName, inum |-> Root]] BY <1>1 DEF Init
<1>5. \A k \in 0 .. E - 1 : block[2].ent[k].inum = IF k = 0 THEN Root ELSE 0
  BY <1>4, Constants DEF Cleared, NoEntry
<1>6. pc = "idle" /\ Root # 0 BY DEF Init, Root
<1> QED BY <1>2, <1>3, <1>5, <1>6 DEF FirstBlock, ForRoot

\* write_file's look for the name sees the first block.
LEMMA Seen ==
  ASSUME DInv, FirstBlock, ~SameFile
  PROVE  \A k \in 0 .. E - 1 : k < Size => block[Dir(0)].ent[k].name # name
<1>t. Types BY Shapes DEF DInv, SInv, TInv
<1>1. 0 \in 0 .. Spread - 1
  <2>1. Spread \in Nat /\ 1 <= Spread BY DirBlocks DEF DInv, Sizes
  <2> QED BY <2>1
<1>2. PICK f : f = Dir(0) /\ f = inode[Root].direct[0] BY FirstIs
<1>3. f # 0
  <2>1. f \in dbits BY <1>1, <1>2, DirBlocks DEF DInv
  <2> QED BY <1>t, <2>1 DEF Types
<1>4. EntriesOf(f) \subseteq Listed
  <2>1. CASE ~FullOf(f) BY <1>2, <1>3, <2>1 DEF Listed
  <2>2. CASE FullOf(f) BY <1>2, <1>3, <2>2 DEF Listed
  <2> QED BY <2>1, <2>2
<1>5. ASSUME NEW k \in 0 .. E - 1, k < Size PROVE block[Dir(0)].ent[k].name # name
  <2>1. Size \in Nat BY DirBlocks DEF DInv
  <2>2. \A m \in 0 .. k : block[f].ent[m].inum # 0
    <3>1. \A m \in 0 .. k : m \in 0 .. E - 1 /\ m < Size BY <1>5, <2>1, Constants
    <3> QED BY <1>2, <3>1 DEF FirstBlock
  <2>3. block[f].ent[k] \in EntriesOf(f) BY <2>2 DEF EntriesOf
  <2>4. block[f].ent[k].name # name BY <1>4, <2>3 DEF SameFile
  <2> QED BY <1>2, <2>4
<1> QED BY <1>5

LEMMA StepFirst == DInv /\ FirstBlock /\ [Next]_vars => FirstBlock'
<1> SUFFICES ASSUME DInv, FirstBlock, [Next]_vars PROVE FirstBlock' OBVIOUS
<1>t. Types /\ Working /\ SInv BY Shapes DEF DInv, SInv, TInv
<1>d. /\ Spread \in Nat /\ Size \in Nat /\ 1 <= Spread /\ 1 <= Size /\ 0 \in 0 .. Spread - 1
      /\ Size' = IF CountEntry THEN Size + 1 ELSE Size
  <2>1. 1 <= Spread /\ 1 <= Size BY DEF DInv, Sizes
  <2>2. Spread \in Nat /\ Size \in Nat BY <1>t, DirBlocks
  <2>3. 0 \in 0 .. Spread - 1 BY <2>1, <2>2
  <2> QED BY <1>t, <2>1, <2>2, <2>3, Bytes
<1>f. PICK f \in Block : f = Dir(0) /\ Dir(0)' = f BY <1>t, <1>d, DirBlocks, DirStays
<1>k. /\ \A k \in 0 .. E - 1 : k < Size \/ (pc = "bytes" /\ k = Size) => block[f].ent[k].inum # 0
      /\ \A k, m \in 0 .. E - 1 :
           /\ block[f].ent[k].inum # 0 /\ block[f].ent[m].inum # 0
           /\ block[f].ent[k].name = block[f].ent[m].name
           => k = m
      /\ pc \in {"dirblock", "entry"} \/ ForRoot
           => \A k \in 0 .. E - 1 : k < Size => block[f].ent[k].name # name
  BY <1>f DEF FirstBlock
<1>e. E \in Nat \ {0} BY Constants
<1>1. CASE StoreEntry
  <2>1. /\ pc = "entry" /\ pc' = "bytes" /\ n \in ibits \ {Root} /\ Size' = Size
    BY <1>1, EntryStored
  <2>2. PICK u \in 0 .. Spread - 1 :
          /\ Size % E \in 0 .. E - 1
          /\ u = (IF Size % E = 0 THEN Spread - 1 ELSE Size \div E)
          /\ NewEntry(u)
    BY <1>1, EntryStored
  <2>3. n # 0 BY <1>t, <2>1 DEF Types
  <2>4. Size < Spread * E BY <2>1 DEF DInv, Sizes
  \* The entry goes into the first block just when there is room.
  <2>5. u = 0 <=> Size < E
    <3>1. CASE Size < E
      <4>1. Size <= Spread * E
        <5>1. Spread * E \in Nat BY <1>d, <1>e
        <5> QED BY <1>d, <2>4, <5>1
      <4>2. Size \div E = 0 /\ Size % E = Size BY <1>d, <1>e, <3>1, <4>1, Quotient
      <4> QED BY <1>d, <2>2, <3>1, <4>2
    <3>2. CASE ~(Size < E)
      <4>1. Size = (Size \div E) * E + (Size % E) /\ Size \div E \in Nat /\ Size % E \in 0 .. E - 1
        BY <1>d, <1>e, DivMod
      <4>2. Size \div E # 0
        <5> SUFFICES ASSUME Size \div E = 0 PROVE FALSE OBVIOUS
        <5>1. (Size \div E) * E = 0 BY <1>e
        <5> QED BY <1>d, <1>e, <3>2, <4>1, <5>1
      <4>3. Spread # 1
        <5> SUFFICES ASSUME Spread = 1 PROVE FALSE OBVIOUS
        <5>1. Spread * E = E BY <1>e
        <5> QED BY <1>d, <1>e, <2>4, <3>2, <5>1
      <4> QED BY <1>d, <2>2, <3>2, <4>2, <4>3
    <3> QED BY <3>1, <3>2
  <2>6. CASE Size < E
    <3>1. u = 0 BY <2>5, <2>6
    <3>2. Size % E = Size
      <4>1. Size <= Spread * E
        <5>1. Spread * E \in Nat BY <1>d, <1>e
        <5> QED BY <1>d, <2>4, <5>1
      <4> QED BY <1>d, <1>e, <2>6, <4>1, Quotient
    <3>3. \A k \in 0 .. E - 1 :
            block'[f].ent[k] = IF k = Size THEN [name |-> name, inum |-> n] ELSE block[f].ent[k]
      BY <1>f, <2>2, <3>1, <3>2 DEF NewEntry
    <3>4. \A k \in 0 .. E - 1 : k > Size => block[f].ent[k].inum = 0
      <4>1. ASSUME NEW k \in 0 .. E - 1, k > Size PROVE block[f].ent[k].inum = 0
        <5>1. k \in 1 .. E - 1 /\ 0 * E + k > Size BY <1>d, <1>e, <4>1
        <5> QED BY <1>d, <1>f, <5>1 DEF DInv, Layout
      <4> QED BY <4>1
    <3>5. \A k \in 0 .. E - 1 : k < Size \/ k = Size => block'[f].ent[k].inum # 0
      BY <1>k, <2>3, <3>3
    <3>6. ASSUME NEW k \in 0 .. E - 1, NEW m \in 0 .. E - 1,
                 block'[f].ent[k].inum # 0, block'[f].ent[m].inum # 0,
                 block'[f].ent[k].name = block'[f].ent[m].name
          PROVE  k = m
      <4>1. CASE k = Size /\ m = Size BY <4>1
      <4>2. CASE k = Size /\ m # Size
        <5>1. block[f].ent[m].name = name /\ block[f].ent[m].inum # 0 BY <3>3, <3>6, <4>2
        <5>2. m < Size BY <1>d, <3>4, <4>2, <5>1
        <5> QED BY <1>k, <2>1, <5>1, <5>2
      <4>3. CASE k # Size /\ m = Size
        <5>1. block[f].ent[k].name = name /\ block[f].ent[k].inum # 0 BY <3>3, <3>6, <4>3
        <5>2. k < Size BY <1>d, <3>4, <4>3, <5>1
        <5> QED BY <1>k, <2>1, <5>1, <5>2
      <4>4. CASE k # Size /\ m # Size BY <1>k, <3>3, <3>6, <4>4
      <4> QED BY <4>1, <4>2, <4>3, <4>4
    <3> QED BY <1>f, <2>1, <3>5, <3>6 DEF FirstBlock, ForRoot
  <2>7. CASE ~(Size < E)
    <3>1. Dir(u) # f BY <1>d, <1>f, <1>t, <2>5, <2>7, DirBlocks
    <3>2. \A k \in 0 .. E - 1 : block'[f].ent[k] = block[f].ent[k]
      BY <2>2, <3>1 DEF NewEntry
    <3>3. \A k \in 0 .. E - 1 : k < Size /\ k # Size BY <1>d, <1>e, <2>7
    <3> QED BY <1>f, <1>k, <2>1, <3>2, <3>3 DEF FirstBlock, ForRoot
  <2> QED BY <2>6, <2>7
<1>2. CASE ~StoreEntry
  <2>1. block'[f].ent = block[f].ent BY <1>d, <1>f, <1>t, <1>2, DirKept
  <2>2. \A k \in 0 .. E - 1 :
          k < Size' \/ (pc' = "bytes" /\ k = Size') => block'[f].ent[k].inum # 0
    <3>1. CASE CountEntry
      <4>1. pc = "bytes" /\ pc' = "blocks" /\ Size' = Size + 1 BY <1>d, <3>1 DEF CountEntry
      <4> QED BY <1>d, <1>k, <2>1, <4>1
    <3>2. CASE ~CountEntry
      <4>1. Size' = Size BY <1>d, <3>2
      <4>2. pc' = "bytes" => pc = "bytes"
        BY <1>2, <1>t, Moves DEF AllocateInode, NameFree, AllocateDirBlock, CountEntry,
           CountBlock, ForRoot, vars
      <4> QED BY <1>k, <2>1, <4>1, <4>2
    <3> QED BY <3>1, <3>2
  <2>3. ASSUME pc' \in {"dirblock", "entry"} \/ ForRoot'
        PROVE  /\ name' = name /\ Size' = Size
               /\ \A k \in 0 .. E - 1 : k < Size => block[f].ent[k].name # name
    <3>0. Size' = Size
      <4>1. ~CountEntry BY <2>3 DEF CountEntry, ForRoot
      <4> QED BY <1>d, <4>1
    <3>1. CASE NameFree
      <4>1. ~SameFile /\ name' = name BY <3>1 DEF NameFree, locals
      <4> QED BY <1>f, <3>0, <4>1, Seen
    <3>2. CASE AllocateDirBlock
      <4>1. pc = "dirblock" /\ name' = name BY <3>2 DEF AllocateDirBlock
      <4> QED BY <1>k, <3>0, <4>1
    <3>3. CASE ForRoot /\ UNCHANGED name BY <1>k, <3>0, <3>3
    <3>4. CASE CountBlock /\ owner = Root
      <4>1. ForRoot /\ name' = name BY <3>4 DEF CountBlock, ForRoot
      <4> QED BY <1>k, <3>0, <4>1
    <3>5. CASE UNCHANGED vars
      <4>1. UNCHANGED <<pc, owner, name>> BY <3>5 DEF vars, locals
      <4> QED BY <1>k, <2>3, <3>0, <4>1 DEF ForRoot
    <3> QED BY <1>2, <1>t, <2>3, <3>1, <3>2, <3>3, <3>4, <3>5, Moves
            DEF CountEntry, AllocateInode, ForRoot
  <2> QED BY <1>f, <1>k, <2>1, <2>2, <2>3 DEF FirstBlock
<1> QED BY <1>1, <1>2

LEMMA FirstNames == FirstBlock => FirstBlockNames
BY FirstIs DEF FirstBlock, FirstBlockNames

\* For every image, no name is twice in the block that the boot loader searches,
\* however many tools were killed and wherever.
THEOREM NamesApart == Spec => []FirstBlockNames
<1>1. Init => DInv /\ FirstBlock BY InitT, InitP, InitS, InitD, InitF DEF DInv, SInv
<1>2. DInv /\ FirstBlock /\ [Next]_vars => (DInv /\ FirstBlock)'
  BY StepInv, StepSizes, StepLayout, StepFirst DEF DInv
<1> QED BY <1>1, <1>2, FirstNames, PTL DEF Spec
-----------------------------------------------------------------------------
(* The entries of the root *)

Inum(s) == block[s[1]].ent[s[2]].inum
Slots == {<<Dir(u), k>> : u \in 0 .. Spread - 1, k \in 0 .. E - 1}

\* EntriesSound, with what it rests on: the inode that is being named is in no
\* entry yet, and an entry that is stored where the next one goes is uncounted.
Listing ==
  /\ \A s \in Entries : Inum(s) \in ibits
  /\ \A s, t \in Entries : Inum(s) = Inum(t) => s = t
  /\ Cardinality(Entries) - Size \in 0 .. (IF pc = "bytes" THEN kills + 1 ELSE kills)
  /\ Searching => \A s \in Entries : Inum(s) # n
  /\ pc = "bytes" => Size < Cardinality(Entries)
  /\ Size % E # 0 /\ block[Dir(Size \div E)].ent[Size % E].inum # 0
       => Size < Cardinality(Entries)

LEMMA EntriesAre ==
  ASSUME SInv
  PROVE  /\ Entries = {s \in Slots : Inum(s) # 0}
         /\ IsFiniteSet(Entries) /\ Cardinality(Entries) \in Nat
<1>t. Types BY Shapes DEF SInv, TInv
<1>1. Root \in 1 .. Inodes BY Constants DEF Root
<1>2. PICK ind \in Ind : ind = inode[Root] BY <1>t, <1>1 DEF Types
<1>3. Shaped(ind, Ptr(block)) BY <1>1, <1>2 DEF SInv, Structure
<1>4. ASSUME NEW u \in 0 .. Spread - 1 PROVE LoadedBlock(inode[Root], u) = Dir(u)
  <2>1. u \in Nat /\ u < MaxTot BY <1>2, <1>3, Places DEF Shaped, Spread, Ind
  <2> QED BY <1>t, <1>2, <2>1, LoaderReads DEF Dir
<1>5. Entries = {s \in {<<LoadedBlock(inode[Root], u), k>> : u \in 0 .. Spread - 1, k \in 0 .. E - 1} :
                   Inum(s) # 0}
  BY DEF Entries, Inum, Spread
<1>6. {<<LoadedBlock(inode[Root], u), k>> : u \in 0 .. Spread - 1, k \in 0 .. E - 1} = Slots
  BY <1>4 DEF Slots
<1>7. Entries = {s \in Slots : Inum(s) # 0} BY <1>5, <1>6
<1>8. Entries \subseteq (0 .. Blocks) \X (0 .. E - 1)
  <2>1. \A u \in 0 .. Spread - 1 : Dir(u) \in 0 .. Blocks BY DirBlocks DEF Block
  <2>2. Slots \subseteq (0 .. Blocks) \X (0 .. E - 1) BY <2>1 DEF Slots
  <2> QED BY <1>7, <2>2
<1>9. IsFiniteSet((0 .. Blocks) \X (0 .. E - 1))
  <2>1. IsFiniteSet(0 .. Blocks) /\ IsFiniteSet(0 .. E - 1) BY Constants, FS_Interval
  <2> QED BY <2>1, FS_Product
<1>10. IsFiniteSet(Entries) BY <1>8, <1>9, FS_Subset
<1> QED BY <1>7, <1>10, FS_CardinalityType

LEMMA InEntries ==
  ASSUME SInv
  PROVE  /\ \A s \in Entries : \E u \in 0 .. Spread - 1, k \in 0 .. E - 1 :
                s = <<Dir(u), k>> /\ block[Dir(u)].ent[k].inum # 0
         /\ \A u \in 0 .. Spread - 1, k \in 0 .. E - 1 :
              block[Dir(u)].ent[k].inum # 0 => <<Dir(u), k>> \in Entries
BY EntriesAre DEF Slots, Inum

LEMMA EntriesStay ==
  ASSUME DInv, [Next]_vars, ~StoreEntry
  PROVE  Entries' = Entries /\ \A s \in Entries : Inum(s)' = Inum(s)
<1>t. SInv /\ SInv' BY StepInv DEF DInv
<1>d. /\ Spread \in Nat
      /\ Spread' = IF CountBlock /\ owner = Root THEN Spread + 1 ELSE Spread
      /\ CountBlock /\ owner = Root => Dir(Spread - 1)' = dnum
      /\ \A u \in 0 .. Spread - 1 : Dir(u)' = Dir(u) /\ block'[Dir(u)].ent = block[Dir(u)].ent
  BY <1>t, DirBlocks, DirStays, DirKept
<1>p. /\ \A s \in Entries' : \E u \in 0 .. Spread' - 1, k \in 0 .. E - 1 :
             s = <<Dir(u)', k>> /\ block'[Dir(u)'].ent[k].inum # 0
      /\ \A u \in 0 .. Spread' - 1, k \in 0 .. E - 1 :
           block'[Dir(u)'].ent[k].inum # 0 => <<Dir(u)', k>> \in Entries'
  <2>1. (/\ \A s \in Entries : \E u \in 0 .. Spread - 1, k \in 0 .. E - 1 :
                s = <<Dir(u), k>> /\ block[Dir(u)].ent[k].inum # 0
         /\ \A u \in 0 .. Spread - 1, k \in 0 .. E - 1 :
              block[Dir(u)].ent[k].inum # 0 => <<Dir(u), k>> \in Entries)'
    BY <1>t, InEntries, PTL
  <2> QED BY <2>1
<1>1. ASSUME NEW s \in Entries PROVE s \in Entries' /\ Inum(s)' = Inum(s)
  <2>1. PICK u \in 0 .. Spread - 1, k \in 0 .. E - 1 :
          s = <<Dir(u), k>> /\ block[Dir(u)].ent[k].inum # 0
    BY <1>t, InEntries
  <2>2. block'[Dir(u)'].ent[k].inum = block[Dir(u)].ent[k].inum /\ Dir(u)' = Dir(u) BY <1>d
  <2>3. u \in 0 .. Spread' - 1 BY <1>d
  <2>4. s \in Entries' BY <1>p, <2>1, <2>2, <2>3
  <2> QED BY <2>1, <2>2, <2>4 DEF Inum
<1>2. ASSUME NEW s \in Entries' PROVE s \in Entries
  <2>1. PICK u \in 0 .. Spread' - 1, k \in 0 .. E - 1 :
          s = <<Dir(u)', k>> /\ block'[Dir(u)'].ent[k].inum # 0
    BY <1>p
  <2>2. CASE u \in 0 .. Spread - 1
    <3>1. block'[Dir(u)'].ent[k].inum = block[Dir(u)].ent[k].inum /\ Dir(u)' = Dir(u)
      BY <1>d, <2>2
    <3> QED BY <1>t, <2>1, <2>2, <3>1, InEntries
  <2>3. CASE u \notin 0 .. Spread - 1
    <3>1. CountBlock /\ owner = Root /\ u = Spread /\ Spread' - 1 = u BY <1>d, <2>3
    <3>2. Dir(u)' = dnum
      <4>1. Dir(u)' = Loaded(inode'[Root], Ptr(block'), u) BY DEF Dir
      <4>2. Dir(Spread - 1)' = Loaded(inode'[Root], Ptr(block'), Spread' - 1) BY DEF Dir
      <4> QED BY <1>d, <3>1, <4>1, <4>2
    <3>3. Vacant(dnum) /\ block' = block
      BY <3>1 DEF DInv, Layout, ForRoot, CountBlock
    <3> QED BY <2>1, <3>2, <3>3 DEF Vacant
  <2> QED BY <2>2, <2>3
<1> QED BY <1>1, <1>2

LEMMA InitL == Init => Listing
<1> SUFFICES ASSUME Init PROVE Listing OBVIOUS
<1>s. SInv BY InitT, InitP, InitS DEF SInv
<1>1. Root \in 1 .. Inodes /\ 0 \in 0 .. D - 1 /\ 2 \in Block /\ 0 \in 0 .. E - 1
  BY Constants DEF Root, Block
<1>2. Size = 1 /\ Spread = 1 /\ inode[Root].direct[0] = 2
  BY <1>1 DEF Init, NewInode, Size, Spread
<1>3. Dir(0) = 2 BY <1>2, FirstIs
<1>4. block[2] = [Cleared EXCEPT !.ent[0] = [name |-> NoName, inum |-> Root]] BY <1>1 DEF Init
<1>5. \A k \in 0 .. E - 1 : block[2].ent[k].inum = IF k = 0 THEN Root ELSE 0
  BY <1>4, Constants DEF Cleared, NoEntry
<1>6. pc = "idle" /\ Root # 0 /\ ibits = {Root} /\ kills = 0 BY DEF Init, Root
<1>7. Entries = {<<2, 0>>}
  <2>1. \A u \in 0 .. Spread - 1 : u = 0 BY <1>2
  <2>2. 0 \in 0 .. Spread - 1 BY <1>2
  <2>3. \A s \in Entries : s = <<2, 0>> BY <1>3, <1>5, <1>s, <2>1, InEntries
  <2>4. <<2, 0>> \in Entries BY <1>1, <1>3, <1>5, <1>6, <1>s, <2>2, InEntries
  <2> QED BY <2>3, <2>4
<1>8. Cardinality(Entries) = 1 BY <1>7, FS_Singleton
<1>9. Inum(<<2, 0>>) = Root BY <1>1, <1>5 DEF Inum
<1>10. block[Dir(Size \div E)].ent[Size % E].inum = 0 \/ Size % E = 0
  <2> SUFFICES ASSUME Size % E # 0 PROVE block[Dir(Size \div E)].ent[Size % E].inum = 0 OBVIOUS
  <2>1. E # 1 BY <1>2
  <2>2. 1 <= 1 * E /\ 1 < E BY <2>1, Constants
  <2>3. Size \div E = 0 /\ Size % E = 1 BY <1>2, <2>2, Constants, Quotient
  <2> QED BY <1>3, <1>5, <2>2, <2>3, Constants
<1> QED BY <1>2, <1>6, <1>7, <1>8, <1>9, <1>10 DEF Listing, Searching, ForRoot
LEMMA StepListing == DInv /\ Listing /\ [Next]_vars => Listing'
<1> SUFFICES ASSUME DInv, Listing, [Next]_vars PROVE Listing' OBVIOUS
<1>t. Types /\ Working /\ SInv /\ SInv' BY Shapes, StepInv DEF DInv, SInv, TInv
<1>e. E \in Nat \ {0} BY Constants
<1>d. /\ Spread \in Nat /\ Size \in Nat /\ kills \in Nat
      /\ Size' = IF CountEntry THEN Size + 1 ELSE Size
  BY <1>t, DirBlocks, Bytes, Constants DEF Types
<1>c. IsFiniteSet(Entries) /\ Cardinality(Entries) \in Nat BY <1>t, EntriesAre
<1>p. (/\ \A s \in Entries : \E u \in 0 .. Spread - 1, k \in 0 .. E - 1 :
              s = <<Dir(u), k>> /\ block[Dir(u)].ent[k].inum # 0
       /\ \A u \in 0 .. Spread - 1, k \in 0 .. E - 1 :
            block[Dir(u)].ent[k].inum # 0 => <<Dir(u), k>> \in Entries)'
  BY <1>t, InEntries, PTL
<1>l. /\ \A s \in Entries : Inum(s) \in ibits
      /\ \A s, t \in Entries : Inum(s) = Inum(t) => s = t
      /\ Size <= Cardinality(Entries)
      /\ Cardinality(Entries) <= Size + (IF pc = "bytes" THEN kills + 1 ELSE kills)
      /\ Searching => \A s \in Entries : Inum(s) # n
      /\ pc = "bytes" => Size < Cardinality(Entries)
      /\ Size % E # 0 /\ block[Dir(Size \div E)].ent[Size % E].inum # 0
           => Size < Cardinality(Entries)
  BY <1>c, <1>d DEF Listing
<1>1. CASE StoreEntry
  <2>1. /\ pc = "entry" /\ pc' = "bytes" /\ n \in ibits \ {Root}
        /\ UNCHANGED <<ibits, kills, Size, Spread>>
        /\ \A u \in 0 .. Spread - 1 : Dir(u)' = Dir(u)
    BY <1>1, EntryStored
  <2>2. PICK u \in 0 .. Spread - 1 :
          /\ Size % E \in 0 .. E - 1
          /\ u = (IF Size % E = 0 THEN Spread - 1 ELSE Size \div E)
          /\ NewEntry(u)
    BY <1>1, EntryStored
  <2>3. n # 0 /\ \A l \in 0 .. Spread - 1 : Dir(l) \in Block BY <1>t, <2>1, DirBlocks DEF Types
  <2>4. PICK s0 : s0 = <<Dir(u), Size % E>> OBVIOUS
  <2>5. ASSUME NEW l \in 0 .. Spread - 1, NEW k \in 0 .. E - 1
        PROVE  /\ <<Dir(l), k>> = s0 => block'[Dir(l)].ent[k].inum = n
               /\ <<Dir(l), k>> # s0 => block'[Dir(l)].ent[k].inum = block[Dir(l)].ent[k].inum
    <3>1. <<Dir(l), k>> = s0 <=> Dir(l) = Dir(u) /\ k = Size % E BY <2>4
    <3> QED BY <2>2, <2>3, <3>1 DEF NewEntry
  <2>6. /\ \A s \in Entries' : \E l \in 0 .. Spread - 1, k \in 0 .. E - 1 :
              s = <<Dir(l), k>> /\ block'[Dir(l)].ent[k].inum # 0
        /\ \A l \in 0 .. Spread - 1, k \in 0 .. E - 1 :
             block'[Dir(l)].ent[k].inum # 0 => <<Dir(l), k>> \in Entries'
    BY <1>p, <2>1
  <2>7. ASSUME NEW s \in Entries' PROVE s = s0 \/ (s \in Entries /\ Inum(s)' = Inum(s))
    <3> SUFFICES ASSUME s # s0 PROVE s \in Entries /\ Inum(s)' = Inum(s) OBVIOUS
    <3>1. PICK l \in 0 .. Spread - 1, k \in 0 .. E - 1 :
            s = <<Dir(l), k>> /\ block'[Dir(l)].ent[k].inum # 0
      BY <2>6
    <3>2. block'[Dir(l)].ent[k].inum = block[Dir(l)].ent[k].inum BY <2>5, <3>1
    <3> QED BY <1>t, <3>1, <3>2, InEntries DEF Inum
  <2>8. ASSUME NEW s \in Entries, s # s0 PROVE s \in Entries'
    <3>1. PICK l \in 0 .. Spread - 1, k \in 0 .. E - 1 :
            s = <<Dir(l), k>> /\ block[Dir(l)].ent[k].inum # 0
      BY <1>t, InEntries
    <3>2. block'[Dir(l)].ent[k].inum = block[Dir(l)].ent[k].inum BY <2>5, <2>8, <3>1
    <3> QED BY <2>6, <3>1, <3>2
  <2>9. s0 \in Entries' /\ Inum(s0)' = n BY <2>2, <2>3, <2>4, <2>5, <2>6 DEF Inum
  <2>10. Entries' = Entries \cup {s0} BY <2>7, <2>8, <2>9
  <2>11. s0 \in Entries => Size < Cardinality(Entries)
    <3> SUFFICES ASSUME s0 \in Entries PROVE Size < Cardinality(Entries) OBVIOUS
    <3>1. block[Dir(u)].ent[Size % E].inum # 0
      <4>1. Inum(s0) # 0 BY <1>t, EntriesAre
      <4> QED BY <2>4, <4>1 DEF Inum
    <3>2. CASE Size % E = 0
      <4>1. Vacant(Dir(u)) BY <2>1, <2>2, <3>2 DEF DInv, Layout
      <4> QED BY <2>2, <3>1, <4>1 DEF Vacant
    <3>3. CASE Size % E # 0 BY <1>l, <2>2, <3>1, <3>3
    <3> QED BY <3>2, <3>3
  <2>12. Cardinality(Entries') = IF s0 \in Entries THEN Cardinality(Entries) ELSE Cardinality(Entries) + 1
    BY <1>c, <2>10, FS_AddElement
  <2>13. Size < Cardinality(Entries') /\ Cardinality(Entries') <= Size + kills + 1
         /\ Cardinality(Entries') \in Nat
    BY <1>c, <1>d, <1>l, <2>1, <2>11, <2>12
  <2>14. Searching BY <2>1 DEF Searching
  <2>15. \A s \in Entries' : Inum(s)' \in ibits' BY <1>l, <2>1, <2>7, <2>9
  <2>16. ASSUME NEW s \in Entries', NEW t \in Entries', Inum(s)' = Inum(t)' PROVE s = t
    BY <1>l, <2>7, <2>9, <2>14, <2>16
  <2>17. ~Searching' BY <2>1 DEF Searching, ForRoot
  <2>18. Cardinality(Entries') - Size' \in 0 .. (IF pc' = "bytes" THEN kills' + 1 ELSE kills')
    BY <1>d, <2>1, <2>13
  <2>19. Size' < Cardinality(Entries') BY <2>1, <2>13
  <2> QED BY <2>15, <2>16, <2>17, <2>18, <2>19 DEF Listing
<1>2. CASE ~StoreEntry
  <2>1. Entries' = Entries /\ \A s \in Entries : Inum(s)' = Inum(s) BY <1>2, EntriesStay
  <2>2. ASSUME NEW s \in Entries', NEW t \in Entries', Inum(s)' = Inum(t)' PROVE s = t
    BY <1>l, <2>1, <2>2
  <2>3. ibits \subseteq ibits'
    BY <1>t, <1>2, Moves, Taken DEF CountEntry, CountBlock, AllocateInode, NameFree,
       AllocateDirBlock, image, vars
  <2>4. \A s \in Entries' : Inum(s)' \in ibits' BY <1>l, <2>1, <2>3
  <2>5. Searching' => \A s \in Entries' : Inum(s)' # n'
    <3>1. CASE AllocateInode
      <4>1. PICK k \in 1 .. Inodes : TakeInode(k) /\ n' = k BY <3>1 DEF AllocateInode
      <4>2. n' \notin ibits BY <4>1 DEF TakeInode, FirstClear
      <4> QED BY <1>l, <2>1, <4>2
    <3>2. CASE Searching /\ n' = n BY <1>l, <2>1, <3>2
    <3>3. CASE UNCHANGED vars
      <4>1. UNCHANGED <<pc, owner, n>> BY <3>3 DEF vars, locals
      <4> QED BY <1>l, <2>1, <4>1 DEF Searching, ForRoot
    <3>4. CASE ~Searching' BY <3>4
    <3>5. \/ AllocateInode \/ (Searching /\ n' = n) \/ UNCHANGED vars \/ ~Searching'
      BY <1>t, <1>2, Moves DEF CountEntry, CountBlock, NameFree, AllocateDirBlock, Searching,
         ForRoot, image, locals
    <3> QED BY <3>1, <3>2, <3>3, <3>4, <3>5
  <2>6. CASE CountEntry
    <3>1. pc = "bytes" /\ pc' = "blocks" /\ kills' = kills /\ Size' = Size + 1
      BY <1>d, <2>6 DEF CountEntry
    <3>2. Cardinality(Entries') - Size' \in 0 .. kills' BY <1>c, <1>d, <1>l, <2>1, <3>1
    <3>3. Size' % E # 0 => block'[Dir(Size \div E)'].ent[Size' % E].inum = 0
      <4> SUFFICES ASSUME Size' % E # 0
                   PROVE  block'[Dir(Size \div E)'].ent[Size' % E].inum = 0
        OBVIOUS
      <4>1. PICK q \in Nat : q = Size' /\ q = Size + 1 BY <1>d, <3>1
      <4>2. PICK u \in Nat, k \in 0 .. E - 1 :
              u = q \div E /\ k = q % E /\ q = u * E + k
        <5>1. q \div E \in Nat /\ q % E \in 0 .. E - 1 /\ q = (q \div E) * E + (q % E)
          BY <1>e, DivMod
        <5> QED BY <5>1
      <4>3. q <= Spread * E
        <5>1. Size < Spread * E BY <3>1 DEF DInv, Sizes
        <5>2. PICK m \in Nat : m = Spread * E BY <1>d, <1>e
        <5> QED BY <1>d, <4>1, <5>1, <5>2
      <4>4. q < Spread * E
        <5>1. PICK m \in Nat : m = Spread * E BY <1>d, <1>e
        <5>2. m % E = 0 BY <1>d, <1>e, <5>1, Quotient
        <5>3. q # m BY <4>1, <5>2
        <5> QED BY <4>3, <5>1, <5>3
      <4>5. q \div E < Spread BY <1>d, <1>e, <4>1, <4>3, <4>4, Quotient
      <4>6. u \in 0 .. Spread - 1 /\ k \in 1 .. E - 1 BY <1>d, <1>e, <4>1, <4>2, <4>5
      <4>7. u * E + k > Size BY <1>d, <4>1, <4>2
      <4>8. block[Dir(u)].ent[k].inum = 0 BY <4>6, <4>7 DEF DInv, Layout
      <4>9. block' = block /\ Dir(u)' = Dir(u)
        BY <1>t, <2>6, <4>6, DirStays DEF CountEntry
      <4>10. Dir(Size \div E)' = Dir(u)' BY <4>1, <4>2 DEF Dir
      <4> QED BY <4>1, <4>2, <4>8, <4>9, <4>10
    <3>4. ~Searching' BY <3>1 DEF Searching, ForRoot
    <3> QED BY <2>2, <2>4, <3>1, <3>2, <3>3, <3>4 DEF Listing
  <2>7. CASE ~CountEntry
    <3>1. Size' = Size BY <1>d, <2>7
    <3>2. /\ pc' = "bytes" => pc = "bytes"
          /\ kills' \in {kills, kills + 1}
          /\ pc = "bytes" /\ pc' # "bytes" => kills' = kills + 1
      BY <1>t, <1>2, <2>7, Moves DEF CountBlock, AllocateInode, NameFree, AllocateDirBlock,
         ForRoot, vars
    <3>3. Cardinality(Entries') - Size' \in 0 .. (IF pc' = "bytes" THEN kills' + 1 ELSE kills')
      BY <1>c, <1>d, <1>l, <2>1, <3>1, <3>2
    <3>4. pc' = "bytes" => Size' < Cardinality(Entries') BY <1>l, <2>1, <3>1, <3>2
    <3>5. Size' % E # 0 /\ block'[Dir(Size \div E)'].ent[Size' % E].inum # 0
            => Size' < Cardinality(Entries')
      <4> SUFFICES ASSUME Size % E # 0, block'[Dir(Size \div E)'].ent[Size % E].inum # 0
                   PROVE  Size < Cardinality(Entries)
        BY <2>1, <3>1
      <4>1. Size <= Spread * E BY DEF DInv, Sizes
      <4>2. Size < Spread * E
        <5>1. PICK m \in Nat : m = Spread * E BY <1>d, <1>e
        <5>2. m % E = 0 BY <1>d, <1>e, <5>1, Quotient
        <5>3. Size # m BY <5>2
        <5> QED BY <1>d, <4>1, <5>1, <5>3
      <4>3. Size \div E < Spread BY <1>d, <1>e, <4>1, <4>2, Quotient
      <4>7. Size \div E \in Nat BY <1>d, <1>e, DivMod
      <4>4. PICK u \in 0 .. Spread - 1 : u = Size \div E BY <1>d, <4>3, <4>7
      <4>5. Dir(u)' = Dir(u) /\ block'[Dir(u)].ent = block[Dir(u)].ent
        BY <1>t, <1>2, DirKept
      <4>6. block[Dir(Size \div E)].ent[Size % E].inum # 0
        <5>1. Dir(Size \div E)' = Dir(u)' BY <3>1, <4>4 DEF Dir
        <5> QED BY <4>4, <4>5, <5>1
      <4> QED BY <1>l, <4>6
    <3> QED BY <2>2, <2>4, <2>5, <3>3, <3>4, <3>5, <2>1 DEF Listing
  <2> QED BY <2>6, <2>7
<1> QED BY <1>1, <1>2

LEMMA ListingSound == Listing => EntriesSound
BY DEF Listing, EntriesSound, Inum, Size

\* For every image, the entries of the root name inodes that are allocated, each
\* once, and the root's size counts them up to one for each killed tool.
THEOREM EntriesKept == Spec => []EntriesSound
<1>1. Init => DInv /\ Listing BY InitT, InitP, InitS, InitD, InitL DEF DInv, SInv
<1>2. DInv /\ Listing /\ [Next]_vars => (DInv /\ Listing)'
  BY StepInv, StepSizes, StepLayout, StepListing DEF DInv
<1> QED BY <1>1, <1>2, ListingSound, PTL DEF Spec


-----------------------------------------------------------------------------
(* Where get_file_data_ptr leads for a block that needs pt2: to the memory   *)
(* in front of the first block.  Its two steps read a pointer in a block     *)
(* that a pointer leads to; only pt2 leads to blocks with pointers, those    *)
(* were allocated after it, and for them the last index is out of range.     *)

\* Blocks that an inode holds for their pointers.
Branch(ino, p, b) == \E k \in 1 .. Inodes, x \in Int : x < 0 /\ Holds(ino[k], p, x, b)

Trees(ino, p, bits) ==
  \A b \in Block, m \in 0 .. P - 1 : p[b][m] # 0 =>
    /\ Branch(ino, p, b) /\ p[b][m] \in bits
    /\ p[b][m] > b \/ ~Branch(ino, p, p[b][m])

\* poll has not left out any bit.
Prefix(bits) == \A b \in bits : 1 .. b \subseteq bits

Unused == \A k \in 1 .. Inodes : k \notin ibits \/ (pc = "init" /\ k = n)
            => inode[k].pt1 = 0 /\ inode[k].pt2 = 0

TreesInv == Trees(inode, Ptr(block), dbits) /\ Prefix(dbits) /\ Unused

\* The indirect blocks of an inode do not change.
SameBranches(ind, p, new, p2) ==
  \A x \in Int, b \in Block : x < 0 => (Holds(new, p2, x, b) <=> Holds(ind, p, x, b))

LEMMA BranchesStay ==
  ASSUME NEW ind \in Ind, NEW new \in Ind, NEW p, NEW p2, new.pt1 = ind.pt1, new.pt2 = ind.pt2,
         ind.pt2 # 0 => p2[ind.pt2] = p[ind.pt2]
  PROVE  SameBranches(ind, p, new, p2)
<1> SUFFICES ASSUME NEW x \in Int, NEW b \in Block, x < 0
             PROVE  Holds(new, p2, x, b) <=> Holds(ind, p, x, b)
  BY DEF SameBranches
<1>1. x \notin 0 .. ind.tot - 1 /\ x \notin 0 .. new.tot - 1 BY DEF Ind
<1> QED BY <1>1 DEF Holds

\* No branch is new but for blocks that were not marked.
LEMMA AfterBranches ==
  ASSUME NEW ino, NEW ino2, NEW p, NEW p2, NEW bits, NEW bits2,
         Trees(ino, p, bits), bits \subseteq bits2, bits \subseteq Block,
         \A k \in 1 .. Inodes, x \in Int, b \in Block : x < 0 /\ Holds(ino2[k], p2, x, b) =>
           Holds(ino[k], p, x, b) \/ b \notin bits,
         \A k \in 1 .. Inodes, x \in Int, b \in Block :
           x < 0 /\ Holds(ino[k], p, x, b) => Holds(ino2[k], p2, x, b),
         \A b \in Block, m \in 0 .. P - 1 : p2[b][m] # 0 =>
           \/ p2[b][m] = p[b][m]
           \/ /\ Branch(ino2, p2, b) /\ p2[b][m] \in bits2
              /\ p2[b][m] > b \/ ~Branch(ino2, p2, p2[b][m])
  PROVE  Trees(ino2, p2, bits2)
<1>1. \A b \in Block : Branch(ino, p, b) => Branch(ino2, p2, b) BY DEF Branch
<1>2. \A b \in bits : Branch(ino2, p2, b) => Branch(ino, p, b) BY DEF Branch
<1> QED BY <1>1, <1>2 DEF Trees

LEMMA AfterSame ==
  ASSUME NEW ino, NEW ino2, NEW p, NEW p2, NEW bits, NEW bits2,
         Trees(ino, p, bits), bits \subseteq bits2, bits \subseteq Block,
         \A k \in 1 .. Inodes : SameBranches(ino[k], p, ino2[k], p2),
         \A b \in Block, m \in 0 .. P - 1 : p2[b][m] # 0 =>
           \/ p2[b][m] = p[b][m]
           \/ Branch(ino2, p2, b) /\ p2[b][m] \in bits2 /\ ~Branch(ino2, p2, p2[b][m])
  PROVE  Trees(ino2, p2, bits2)
<1>1. \A k \in 1 .. Inodes, x \in Int, b \in Block :
        x < 0 => (Holds(ino2[k], p2, x, b) <=> Holds(ino[k], p, x, b))
  BY DEF SameBranches
<1> QED BY <1>1, AfterBranches

LEMMA InitTrees == Init => TreesInv
<1> SUFFICES ASSUME Init PROVE TreesInv OBVIOUS
<1>1. Types BY InitT, Shapes DEF TInv
<1>2. \A b \in Block : Ptr(block)[b] = block[b].ptr BY <1>1, Pointed DEF Types
<1>3. \A b \in Block, m \in 0 .. P - 1 : block[b].ptr[m] = 0
  BY Constants DEF Init, Cleared
<1>4. Trees(inode, Ptr(block), dbits) BY <1>2, <1>3 DEF Trees
<1>5. Prefix(dbits) BY DEF Init, Prefix
<1>6. \A k \in 1 .. Inodes : inode[k].pt1 = 0 /\ inode[k].pt2 = 0
  <2>1. Root \in 1 .. Inodes /\ 0 \in 0 .. D - 1 BY Constants DEF Root
  <2> QED BY <2>1 DEF Init, NewInode
<1> QED BY <1>4, <1>5, <1>6 DEF TreesInv, Unused

LEMMA StepPrefix == Types /\ Prefix(dbits) /\ [Next]_vars => Prefix(dbits')
<1> SUFFICES ASSUME Types, Prefix(dbits), [Next]_vars PROVE Prefix(dbits') OBVIOUS
<1>1. ASSUME NEW b \in 1 .. Blocks, TakeBlock(b) PROVE Prefix(dbits')
  <2>1. dbits' = dbits \cup {b} /\ \A c \in 1 .. b - 1 : c \in dbits
    BY <1>1 DEF TakeBlock, FirstClear
  <2>2. 1 .. b \subseteq dbits' BY <2>1
  <2> QED BY <2>1, <2>2 DEF Prefix
<1>2. \/ \E b \in 1 .. Blocks : TakeBlock(b)
      \/ UNCHANGED dbits
  BY Taken DEF Next, WriteFile, AllocateInode, InitInode, NameTaken, NameFree,
     AllocateDirBlock, AllocateFileBlock, StoreEntry, CountEntry, BlocksDone, StoreData, Return,
     AllocateIndirect, StorePointer, CountBlock, Kill, vars, image, TakeInode
<1> QED BY <1>1, <1>2

LEMMA StepUnused == SInv /\ Unused /\ [Next]_vars => Unused'
<1> SUFFICES ASSUME SInv, Unused, [Next]_vars,
                    NEW k \in 1 .. Inodes, k \notin ibits' \/ (pc' = "init" /\ k = n')
             PROVE  inode'[k].pt1 = 0 /\ inode'[k].pt2 = 0
  BY DEF Unused
<1>t. Types /\ Working BY Shapes DEF SInv, TInv
<1>i. inode \in [1 .. Inodes -> Ind] BY <1>t DEF Types
<1>1. CASE AllocateInode
  <2>1. PICK l \in 1 .. Inodes : TakeInode(l) /\ n' = l /\ inode' = inode BY <1>1 DEF AllocateInode
  <2>2. ibits' = ibits \cup {l} /\ l \notin ibits BY <1>t, <2>1, Taken
  <2> QED BY <2>1, <2>2 DEF Unused
<1>2. ibits \subseteq ibits' /\ (~AllocateInode => ibits' = ibits)
  BY <1>t, Taken DEF Next, WriteFile, AllocateInode, InitInode, NameTaken, NameFree,
     AllocateDirBlock, AllocateFileBlock, StoreEntry, CountEntry, BlocksDone, StoreData, Return,
     AllocateIndirect, StorePointer, CountBlock, Kill, vars, image
<1>3. ASSUME NEW l \in ibits \cap 1 .. Inodes, Only(inode', inode, l), pc' # "init"
      PROVE  inode'[k].pt1 = 0 /\ inode'[k].pt2 = 0
  BY <1>2, <1>3 DEF Only, Unused
<1>4. CASE inode' = inode /\ (pc' # "init" \/ UNCHANGED <<pc, n, ibits>>)
  BY <1>2, <1>4 DEF Unused
<1>5. CASE InitInode
  <2>1. n \in ibits \cap 1 .. Inodes /\ pc' # "init" BY <1>t, <1>5 DEF InitInode, Working, Types
  <2>2. k # n BY <1>2, <2>1
  <2>3. inode'[k] = inode[k] /\ k \notin ibits BY <1>2, <1>5, <1>i, <2>1, <2>2 DEF InitInode
  <2> QED BY <2>3 DEF Unused
<1>6. CASE CountEntry
  <2>1. Root \in ibits \cap 1 .. Inodes BY <1>t, OwnerType DEF Types
  <2>2. inode' = [inode EXCEPT ![Root].bytes = @ + 1] /\ pc' # "init" BY <1>6 DEF CountEntry
  <2>3. Only(inode', inode, Root) BY <1>i, <2>1, <2>2, SetBytes
  <2> QED BY <1>3, <2>1, <2>2, <2>3
<1>7. CASE CountBlock
  <2>1. owner \in ibits \cap 1 .. Inodes BY <1>t, <1>7, OwnerType DEF Types, CountBlock, Working
  <2>2. inode' = [inode EXCEPT ![owner].tot = @ + 1] /\ pc' # "init" BY <1>7 DEF CountBlock
  <2>3. Only(inode', inode, owner) BY <1>i, <2>1, <2>2, SetTot
  <2> QED BY <1>3, <2>1, <2>2, <2>3
<1>8. CASE AllocateIndirect
  <2>1. owner \in ibits \cap 1 .. Inodes /\ pc' # "init"
    BY <1>t, <1>8, OwnerType DEF Types, AllocateIndirect, Working
  <2>2. PICK b \in Block : \/ inode' = inode
                           \/ inode' = [inode EXCEPT ![owner].pt1 = b]
                           \/ inode' = [inode EXCEPT ![owner].pt2 = b]
    BY <1>t, <1>8, Taken DEF AllocateIndirect
  <2>3. inode' = inode \/ Only(inode', inode, owner)
    <3>1. CASE inode' = [inode EXCEPT ![owner].pt1 = b] BY <1>i, <2>1, <3>1, SetPt1
    <3>2. CASE inode' = [inode EXCEPT ![owner].pt2 = b] BY <1>i, <2>1, <3>2, SetPt2
    <3> QED BY <2>2, <3>1, <3>2
  <2> QED BY <1>3, <1>4, <2>1, <2>3
<1>9. CASE StorePointer
  <2>1. owner \in ibits \cap 1 .. Inodes /\ pc' # "init" /\ dnum \in Block
    BY <1>t, <1>9, OwnerType DEF Types, StorePointer, Working
  <2>2. CASE Tot < D
    <3>0. Tot \in Nat BY <1>t, <2>1, OwnerType DEF Tot
    <3>1. PICK x \in 0 .. D - 1 : x = Tot BY <2>2, <3>0, Constants
    <3>2. Direct(inode', inode, owner, x, dnum)
      <4>1. ~ (Tot \in D .. D + P - 1) /\ ~ (Tot >= D + P) BY <2>2, <3>1, Constants
      <4> QED BY <1>9, <3>1, <4>1 DEF StorePointer, Link, Direct
    <3>3. Only(inode', inode, owner) BY <1>i, <2>1, <3>2, SetDirect
    <3> QED BY <1>3, <2>1, <3>3
  <2>3. CASE ~ (Tot < D)
    <3>1. inode' = inode BY <1>9, <2>3 DEF StorePointer, Link
    <3> QED BY <1>4, <2>1, <3>1
  <2> QED BY <2>2, <2>3
<1>10. CASE \/ WriteFile \/ NameTaken \/ NameFree \/ AllocateDirBlock \/ AllocateFileBlock
            \/ StoreEntry \/ BlocksDone \/ StoreData \/ Return \/ Kill \/ UNCHANGED vars
  <2>1. inode' = inode /\ (pc' # "init" \/ UNCHANGED <<pc, n, ibits>>)
    BY <1>10 DEF WriteFile, NameTaken, NameFree, AllocateDirBlock, AllocateFileBlock, StoreEntry,
       BlocksDone, StoreData, Return, Kill, Leave, vars, image, locals
  <2> QED BY <1>4, <2>1
<1> QED BY <1>1, <1>5, <1>6, <1>7, <1>8, <1>9, <1>10 DEF Next

LEMMA StepTrees == SInv /\ TreesInv /\ [Next]_vars => Trees(inode', Ptr(block'), dbits')
<1> SUFFICES ASSUME SInv, TreesInv, [Next]_vars PROVE Trees(inode', Ptr(block'), dbits') OBVIOUS
<1>t. Types /\ Working BY Shapes DEF SInv, TInv
<1>t2. Types' BY Shapes, StepT DEF SInv, TInv
<1>o. /\ Root \in 1 .. Inodes
      /\ pc \in {"append", "tot"} => owner \in 1 .. Inodes
      /\ pc \notin {"idle", "inode"} => n \in 1 .. Inodes /\ n # Root
      /\ dnum \in Block
  BY <1>t, OwnerType DEF Types
<1>i. inode \in [1 .. Inodes -> Ind] /\ inode' \in [1 .. Inodes -> Ind] BY <1>t, <1>t2 DEF Types
<1>b. block \in [Block -> Blk] /\ block' \in [Block -> Blk] /\ dbits \subseteq Block
  <2>1. dbits \subseteq Block BY <1>t DEF Types, Block
  <2> QED BY <1>t, <1>t2, <2>1 DEF Types
<1>p. PICK p \in Ptrs : p = Ptr(block) BY <1>b, Pointed
<1>p2. PICK p2 \in Ptrs : p2 = Ptr(block') BY <1>b, Pointed
<1>s. /\ \A k \in 1 .. Inodes : Shaped(inode[k], p)
      /\ Apart(inode, p, dbits) /\ Trees(inode, p, dbits)
      /\ pc \in {"append", "tot"} => Unheld(inode, p, dnum) /\ dnum \in dbits
  BY <1>p, <1>t DEF SInv, Structure, Working, TreesInv
<1>q. SUFFICES Trees(inode', p2, dbits') BY <1>p2
<1>u. dbits \subseteq dbits'
  BY <1>t, Taken DEF Next, WriteFile, AllocateInode, InitInode, NameTaken, NameFree,
     AllocateDirBlock, AllocateFileBlock, StoreEntry, CountEntry, BlocksDone, StoreData, Return,
     AllocateIndirect, StorePointer, CountBlock, Kill, vars, image
\* Each inode keeps its indirect blocks, and the pointers in those stay.
<1>k. ASSUME \A k \in 1 .. Inodes : inode'[k].pt1 = inode[k].pt1 /\ inode'[k].pt2 = inode[k].pt2,
             \A k \in 1 .. Inodes : inode[k].pt2 # 0 => p2[inode[k].pt2] = p[inode[k].pt2],
             \A b \in Block, m \in 0 .. P - 1 : p2[b][m] # 0 =>
               \/ p2[b][m] = p[b][m]
               \/ Branch(inode', p2, b) /\ p2[b][m] \in dbits /\ ~Branch(inode', p2, p2[b][m])
      PROVE  Trees(inode', p2, dbits')
  <2>1. ASSUME NEW k \in 1 .. Inodes PROVE SameBranches(inode[k], p, inode'[k], p2)
    BY <1>i, <1>k, BranchesStay
  <2> QED BY <1>b, <1>k, <1>s, <1>u, <2>1, AfterSame
<1>1. CASE \/ WriteFile \/ AllocateInode \/ NameTaken \/ NameFree \/ StoreEntry \/ BlocksDone
           \/ StoreData \/ Return \/ Kill \/ UNCHANGED vars
  <2>1. inode' = inode
    BY <1>1 DEF WriteFile, AllocateInode, NameTaken, NameFree, StoreEntry, BlocksDone, StoreData,
       Return, Kill, Leave, image, vars
  <2>2. \A b \in Block : block'[b].ptr = block[b].ptr
    <3>1. CASE UNCHANGED block BY <3>1
    <3>2. CASE StoreEntry
      <4>1. [name |-> name, inum |-> n] \in Ent BY <1>t DEF Types, Ent
      <4> QED BY <1>b, <3>2, <4>1, StoresEnt DEF StoreEntry
    <3>3. CASE StoreData
      <4>1. <<n, i>> \in (0 .. Inodes) \X Nat BY <1>t DEF Types
      <4> QED BY <1>b, <3>3, <4>1, StoresData DEF StoreData
    <3> QED BY <1>1, <3>1, <3>2, <3>3 DEF WriteFile, AllocateInode, NameTaken, NameFree, BlocksDone,
               Return, Kill, image, vars
  <2>3. p2 = p BY <2>2, <1>p, <1>p2 DEF Ptr
  <2> QED BY <1>k, <2>1, <2>3
<1>2. CASE InitInode
  <2>1. p2 = p /\ n \in 1 .. Inodes /\ pc = "init" BY <1>2, <1>o, <1>p, <1>p2 DEF InitInode
  <2>2. /\ \A k \in 1 .. Inodes \ {n} : inode'[k] = inode[k]
        /\ inode'[n].pt1 = 0 /\ inode'[n].pt2 = 0
    BY <1>2, <1>i, <2>1 DEF InitInode, NewInode
  <2>3. inode[n].pt1 = 0 /\ inode[n].pt2 = 0 BY <2>1 DEF TreesInv, Unused
  <2> QED BY <1>k, <2>1, <2>2, <2>3
<1>3. CASE CountEntry
  <2>1. p2 = p /\ inode' = [inode EXCEPT ![Root].bytes = @ + 1]
    BY <1>3, <1>p, <1>p2 DEF CountEntry
  <2>2. /\ Only(inode', inode, Root)
        /\ inode'[Root].pt1 = inode[Root].pt1 /\ inode'[Root].pt2 = inode[Root].pt2
    BY <1>i, <1>o, <2>1, SetBytes
  <2> QED BY <1>k, <2>1, <2>2 DEF Only
<1>4. CASE CountBlock
  <2>1. owner \in 1 .. Inodes /\ inode' = [inode EXCEPT ![owner].tot = @ + 1] /\ p2 = p
    BY <1>4, <1>o, <1>p, <1>p2 DEF CountBlock
  <2>2. /\ Only(inode', inode, owner)
        /\ inode'[owner].pt1 = inode[owner].pt1 /\ inode'[owner].pt2 = inode[owner].pt2
    BY <1>i, <2>1, SetTot
  <2> QED BY <1>k, <2>1, <2>2 DEF Only
\* A block is cleared that no inode holds.
<1>c. ASSUME NEW b \in 1 .. Blocks, TakeBlock(b), NEW blk, Clears(blk, block, b)
      PROVE  /\ blk \in [Block -> Blk] /\ Ptr(blk) \in Ptrs /\ b \in Block \ {0} /\ b \notin dbits
             /\ Blank(Ptr(blk), b) /\ OnlyBlock(p, Ptr(blk), b)
             /\ \A k \in 1 .. Inodes : inode[k].pt2 # 0 => inode[k].pt2 \in dbits
             /\ \A c \in dbits : c < b
  <2>1. b \in Block \ {0} /\ b \notin dbits BY <1>c DEF TakeBlock, FirstClear, Block
  <2>2. Good(inode, Ptr(block), dbits) BY <1>p, <1>s DEF Good
  <2>3. /\ blk \in [Block -> Blk] /\ Ptr(blk) \in Ptrs
        /\ Blank(Ptr(blk), b) /\ OnlyBlock(Ptr(block), Ptr(blk), b)
    BY <1>i, <1>b, <1>c, <2>1, <2>2, AfterClear
  <2>4. ASSUME NEW k \in 1 .. Inodes, inode[k].pt2 # 0 PROVE inode[k].pt2 \in dbits
    <3>1. PICK ind \in Ind : ind = inode[k] BY <1>i
    <3>2. Holds(ind, p, -2, ind.pt2) /\ ind.pt2 \in Block BY <2>4, <3>1, Indirect DEF Ind
    <3> QED BY <1>s, <3>1, <3>2 DEF Apart
  <2>5. ASSUME NEW c \in dbits PROVE c < b
    <3>1. c \in Nat /\ b \in Nat /\ b # c BY <1>b, <2>1, Constants DEF Block
    <3>2. c > b => b \in 1 .. c BY <1>c, <3>1
    <3> QED BY <2>1, <3>1, <3>2 DEF TreesInv, Prefix
  <2> QED BY <1>p, <2>1, <2>3, <2>4, <2>5
<1>5. CASE AllocateDirBlock \/ AllocateFileBlock
  <2>1. PICK b \in 1 .. Blocks : TakeBlock(b) /\ block' = [block EXCEPT ![b] = Cleared]
    BY <1>5 DEF AllocateDirBlock, AllocateFileBlock
  <2>2. inode' = inode BY <1>5 DEF AllocateDirBlock, AllocateFileBlock
  <2>3. Clears(block', block, b) BY <2>1 DEF Clears
  <2>4. /\ b \notin dbits /\ Blank(p2, b) /\ OnlyBlock(p, p2, b)
        /\ \A k \in 1 .. Inodes : inode[k].pt2 # 0 => inode[k].pt2 \in dbits
    BY <1>c, <1>p2, <2>1, <2>3
  <2>5. \A k \in 1 .. Inodes : inode[k].pt2 # 0 => p2[inode[k].pt2] = p[inode[k].pt2]
    BY <1>b, <2>4 DEF OnlyBlock
  <2>6. \A c \in Block, m \in 0 .. P - 1 : p2[c][m] # 0 => p2[c][m] = p[c][m]
    BY <2>4 DEF OnlyBlock, Blank
  <2> QED BY <1>k, <2>2, <2>5, <2>6
<1>6. CASE StorePointer
  <2>1. /\ pc = "append" /\ ~NeedsPt1 /\ ~NeedsPt2 /\ ~NeedsPtr /\ Link /\ pc' = "tot"
        /\ dnum' = dnum /\ owner \in 1 .. Inodes
    BY <1>6, <1>o DEF StorePointer, locals
  <2>2. PICK ind \in Ind : ind = inode[owner] BY <1>i, <2>1
  <2>4. ind.tot = Tot /\ ind.tot \in Nat /\ ind.tot < MaxTot BY <2>1, <2>2, Room DEF Tot
  <2>5. ~Branch(inode', p2, dnum)
    <3>1. Structure' BY StepS
    <3>2. Unheld(inode', p2, dnum) BY <1>p2, <2>1, <3>1 DEF Structure
    <3> QED BY <3>2 DEF Branch, Unheld
  \* The number goes into block c0, which the owner holds in place y.
  <2>6. ASSUME NEW c0 \in Block, NEW x \in 0 .. P - 1, NEW y \in Int, y < 0, y # -2, Holds(ind, p, y, c0),
               inode' = inode, block' = [block EXCEPT ![c0].ptr[x] = dnum]
        PROVE  Trees(inode', p2, dbits')
    <3>1. \A c \in Block : block'[c].ptr = IF c = c0 THEN [block[c].ptr EXCEPT ![x] = dnum]
                                                     ELSE block[c].ptr
      BY <1>b, <1>o, <2>6, StoresPtr
    <3>2. \A c \in Block : p2[c] = IF c = c0 THEN [p[c] EXCEPT ![x] = dnum] ELSE p[c]
      BY <1>b, <1>p, <1>p2, <3>1, Pointed
    <3>3. ASSUME NEW k \in 1 .. Inodes, inode[k].pt2 # 0 PROVE p2[inode[k].pt2] = p[inode[k].pt2]
      <4>1. PICK other \in Ind : other = inode[k] BY <1>i
      <4>2. Holds(other, p, -2, other.pt2) /\ other.pt2 \in Block /\ -2 \in Int
        BY <3>3, <4>1, Indirect DEF Ind
      <4>3. other.pt2 # c0 BY <1>s, <2>1, <2>2, <2>6, <4>1, <4>2 DEF Apart
      <4> QED BY <3>2, <4>1, <4>2, <4>3
    <3>4. SameBranches(ind, p, ind, p2) BY <2>1, <2>2, <3>3, BranchesStay
    <3>5. Branch(inode', p2, c0) BY <2>1, <2>2, <2>6, <3>4 DEF SameBranches, Branch
    <3>6. ASSUME NEW c \in Block, NEW m \in 0 .. P - 1, p2[c][m] # p[c][m]
          PROVE  c = c0 /\ p2[c][m] = dnum
      <4>1. p[c] \in [0 .. P - 1 -> Block] BY DEF Ptrs
      <4> QED BY <3>2, <3>6, <4>1
    <3> QED BY <1>k, <1>s, <2>1, <2>5, <2>6, <3>3, <3>5, <3>6
  <2>7. CASE Tot < D
    <3>1. PICK x \in 0 .. D - 1 : x = ind.tot BY <2>4, <2>7, Constants
    <3>2. ~ (Tot \in D .. D + P - 1) /\ ~ (Tot >= D + P) BY <2>4, <2>7, Constants
    <3>3. Direct(inode', inode, owner, x, dnum) /\ block' = block
      <4>1. x = Tot BY <2>4, <3>1
      <4>2. Direct(inode', inode, owner, x, dnum) BY <2>1, <4>1, <3>2 DEF Link, Direct
      <4>3. block' = block
        <5>1. Link BY <2>1
        <5> QED BY <5>1, <3>2 DEF Link
      <4> QED BY <4>2, <4>3
    <3>4. Only(inode', inode, owner) /\ Redirected(inode'[owner], inode[owner], x, dnum)
      BY <1>i, <1>o, <2>1, <3>3, SetDirect
    <3>5. p2 = p BY <1>p, <1>p2, <3>3
    <3> QED BY <1>k, <3>4, <3>5 DEF Only, Redirected
  <2>8. CASE ~ (Tot < D) /\ Tot < D + P
    <3>1. PICK c0 \in Block : c0 = ind.pt1 /\ c0 # 0
      <4>1. Tot \in D .. D + P - 1 BY <2>4, <2>8, Constants
      <4> QED BY <2>1, <2>2, <4>1 DEF NeedsPt1, Ind
    <3>2. PICK x \in 0 .. P - 1 : x = ind.tot - D BY <2>4, <2>8, Constants
    <3>3. inode' = inode /\ block' = [block EXCEPT ![c0].ptr[x] = dnum]
      <4>1. ~ (Tot >= D + P) /\ Tot = ind.tot BY <2>4, <2>8, Constants
      <4> QED BY <2>1, <2>2, <2>8, <3>1, <3>2, <4>1 DEF Link
    <3>4. -1 \in Int /\ -1 < 0 /\ -1 # -2 /\ Holds(ind, p, -1, c0) BY <3>1, Indirect
    <3> QED BY <2>6, <3>3, <3>4
  <2>9. CASE ~ (Tot < D) /\ ~ (Tot < D + P)
    <3>1. ind.tot \in D + P .. MaxTot - 1 /\ Tot >= D + P BY <2>4, <2>9, Constants, Places
    <3>2. ind.pt2 # 0 BY <2>1, <2>2, <3>1 DEF NeedsPt2
    <3>3. PICK r \in 0 .. P - 1 : r = Row(ind.tot) BY <3>1, Places
    <3>4. r = Idx1 BY <2>4, <3>3 DEF Idx1, Row
    <3>5. ind.pt2 \in Block BY DEF Ind
    <3>6. PICK c0 \in Block : c0 = p[ind.pt2][r] BY <3>5, PtrType
    <3>7. c0 = block[inode[owner].pt2].ptr[Idx1] BY <1>b, <1>p, <2>2, <3>4, <3>5, <3>6, Pointed
    <3>8. c0 # 0 BY <2>1, <2>2, <3>1, <3>2, <3>7 DEF NeedsPtr
    <3>9. PICK x \in 0 .. P - 1 : x = Col(ind.tot) BY <3>1, Places
    <3>10. x = Tot - D - P - Idx1 * P BY <2>4, <3>1, <3>3, <3>4, <3>9, Places
    <3>11. inode' = inode /\ block' = [block EXCEPT ![c0].ptr[x] = dnum]
      <4>1. ~ (Tot \in D .. D + P - 1) BY <2>4, <2>9, Constants
      <4> QED BY <2>1, <2>9, <3>7, <3>10, <4>1 DEF Link
    <3>12. PICK y \in Int : y = -3 - r BY Constants
    <3>13. y < 0 /\ y # -2 /\ Holds(ind, p, y, c0) BY <3>2, <3>6, <3>8, <3>12, Indirect, Constants
    <3> QED BY <2>6, <3>11, <3>13
  <2> QED BY <2>7, <2>8, <2>9
<1>7. CASE AllocateIndirect
  <2>1. PICK b \in 1 .. Blocks :
          /\ TakeBlock(b)
          /\ \/ NeedsPt1 /\ inode' = [inode EXCEPT ![owner].pt1 = b]
                /\ block' = [block EXCEPT ![b] = Cleared]
             \/ NeedsPt2 /\ inode' = [inode EXCEPT ![owner].pt2 = b]
                /\ block' = [block EXCEPT ![b] = Cleared]
             \/ NeedsPtr /\ UNCHANGED inode
                /\ block' = [block EXCEPT ![b] = Cleared, ![inode[owner].pt2].ptr[Idx1] = b]
    BY <1>7 DEF AllocateIndirect
  <2>2. PICK blk : Clears(blk, block, b) /\ blk = [block EXCEPT ![b] = Cleared] BY DEF Clears
  <2>3. /\ blk \in [Block -> Blk] /\ Ptr(blk) \in Ptrs /\ b \in Block \ {0} /\ b \notin dbits
        /\ Blank(Ptr(blk), b) /\ OnlyBlock(p, Ptr(blk), b)
        /\ \A k \in 1 .. Inodes : inode[k].pt2 # 0 => inode[k].pt2 \in dbits
        /\ \A c \in dbits : c < b
    BY <1>c, <2>1, <2>2
  <2>4. PICK p1 \in Ptrs : p1 = Ptr(blk) BY <2>3
  <2>5. pc = "append" /\ owner \in 1 .. Inodes /\ b \in dbits'
    BY <1>7, <1>o, <1>t, <2>1, Taken DEF AllocateIndirect
  <2>6. PICK ind \in Ind : ind = inode[owner] BY <1>i, <2>5
  <2>7. PICK new \in Ind : new = inode'[owner] BY <1>i, <2>5
  <2>8. ASSUME NEW k \in 1 .. Inodes PROVE SameBranches(inode[k], p, inode[k], p1)
    <3>1. inode[k].pt2 # 0 => p1[inode[k].pt2] = p[inode[k].pt2]
      BY <1>b, <2>3, <2>4 DEF OnlyBlock
    <3> QED BY <1>i, <3>1, BranchesStay
  <2>9. Trees(inode, p1, dbits)
    <3>1. \A c \in Block, m \in 0 .. P - 1 : p1[c][m] # 0 => p1[c][m] = p[c][m]
      BY <2>3, <2>4 DEF OnlyBlock, Blank
    <3> QED BY <1>b, <1>s, <2>8, <3>1, AfterSame
  <2>10. SUFFICES
           /\ \A x \in Int, c \in Block : x < 0 /\ Holds(new, p2, x, c) => Holds(ind, p1, x, c) \/ c = b
           /\ \A x \in Int, c \in Block : x < 0 /\ Holds(ind, p1, x, c) => Holds(new, p2, x, c)
           /\ \A k \in 1 .. Inodes \ {owner} : SameBranches(inode[k], p1, inode'[k], p2)
           /\ \A c \in Block, m \in 0 .. P - 1 : p2[c][m] # 0 =>
                \/ p2[c][m] = p1[c][m]
                \/ Branch(inode', p2, c) /\ p2[c][m] \in dbits' /\ p2[c][m] > c
    <3>1. \A k \in 1 .. Inodes, x \in Int, c \in Block : x < 0 /\ Holds(inode'[k], p2, x, c) =>
           Holds(inode[k], p1, x, c) \/ c \notin dbits
      BY <2>3, <2>6, <2>7, <2>10 DEF SameBranches
    <3>2. \A k \in 1 .. Inodes, x \in Int, c \in Block :
           x < 0 /\ Holds(inode[k], p1, x, c) => Holds(inode'[k], p2, x, c)
      BY <2>6, <2>7, <2>10 DEF SameBranches
    <3> QED BY <1>b, <1>u, <2>9, <2>10, <3>1, <3>2, AfterBranches
  <2>11. ASSUME p2 = p1, Only(inode', inode, owner)
         PROVE  /\ \A k \in 1 .. Inodes \ {owner} : SameBranches(inode[k], p1, inode'[k], p2)
                /\ \A c \in Block, m \in 0 .. P - 1 : p2[c][m] # 0 => p2[c][m] = p1[c][m]
    BY <1>i, <2>11, BranchesStay DEF Only
  <2>12. \A x \in Int : x < 0 => x \notin 0 .. ind.tot - 1 /\ x \notin 0 .. new.tot - 1 BY DEF Ind
  <2>13. CASE NeedsPt1 /\ inode' = [inode EXCEPT ![owner].pt1 = b] /\ block' = blk
    <3>1. /\ Only(inode', inode, owner)
          /\ inode'[owner].pt1 = b /\ inode'[owner].pt2 = inode[owner].pt2
      BY <1>i, <2>3, <2>5, <2>13, SetPt1
    <3>2. p2 = p1 /\ new.pt1 = b /\ new.pt2 = ind.pt2 /\ ind.pt1 = 0
      BY <1>p2, <2>4, <2>6, <2>7, <2>13, <3>1 DEF NeedsPt1
    <3>3. /\ \A x \in Int, c \in Block : x < 0 /\ Holds(new, p2, x, c) => Holds(ind, p1, x, c) \/ c = b
          /\ \A x \in Int, c \in Block : x < 0 /\ Holds(ind, p1, x, c) => Holds(new, p2, x, c)
      BY <2>12, <3>2 DEF Holds
    <3> QED BY <2>11, <3>1, <3>2, <3>3
  <2>14. CASE NeedsPt2 /\ inode' = [inode EXCEPT ![owner].pt2 = b] /\ block' = blk
    <3>1. /\ Only(inode', inode, owner)
          /\ inode'[owner].pt2 = b /\ inode'[owner].pt1 = inode[owner].pt1
      BY <1>i, <2>3, <2>5, <2>14, SetPt2
    <3>2. p2 = p1 /\ new.pt2 = b /\ new.pt1 = ind.pt1 /\ ind.pt2 = 0 /\ Blank(p1, b)
      BY <1>p2, <2>3, <2>4, <2>6, <2>7, <2>14, <3>1 DEF NeedsPt2
    <3>3. /\ \A x \in Int, c \in Block : x < 0 /\ Holds(new, p2, x, c) => Holds(ind, p1, x, c) \/ c = b
          /\ \A x \in Int, c \in Block : x < 0 /\ Holds(ind, p1, x, c) => Holds(new, p2, x, c)
      BY <2>12, <3>2 DEF Holds, Blank
    <3> QED BY <2>11, <3>1, <3>2, <3>3
  <2>15. CASE /\ NeedsPtr /\ inode' = inode
              /\ block' = [block EXCEPT ![b] = Cleared, ![inode[owner].pt2].ptr[Idx1] = b]
    <3>1. ind.tot \in D + P .. MaxTot - 1
      BY <2>5, <2>6, <2>15, Room, Places, Constants DEF NeedsPtr, Tot
    <3>2. PICK r \in 0 .. P - 1 : r = Row(ind.tot) BY <3>1, Places
    <3>3. r = Idx1 BY <2>6, <3>2 DEF Idx1, Row, Tot
    <3>4. PICK c0 \in Block : c0 = ind.pt2 /\ c0 # 0 BY <2>6, <2>15 DEF NeedsPtr, Ind
    <3>5. c0 \in dbits /\ c0 # b /\ c0 < b BY <2>3, <2>5, <2>6, <3>4
    <3>6. p1[c0][r] = 0
      <4>1. p[c0][r] = 0 BY <1>b, <1>p, <2>6, <2>15, <3>3, <3>4, Pointed DEF NeedsPtr
      <4> QED BY <2>3, <2>4, <3>5, <4>1 DEF OnlyBlock
    <3>7. block' = [blk EXCEPT ![c0].ptr[r] = b] BY <2>2, <2>6, <2>15, <3>3, <3>4
    <3>8. \A c \in Block : block'[c].ptr = IF c = c0 THEN [blk[c].ptr EXCEPT ![r] = b] ELSE blk[c].ptr
      BY <2>3, <3>7, StoresPtr
    <3>9. \A c \in Block : p2[c] = IF c = c0 THEN [p1[c] EXCEPT ![r] = b] ELSE p1[c]
      BY <1>b, <1>p2, <2>3, <2>4, <3>8, Pointed
    <3>10. \A m \in 0 .. P - 1 : p2[c0][m] = IF m = r THEN b ELSE p1[c0][m]
      <4>1. p1[c0] \in [0 .. P - 1 -> Block] BY DEF Ptrs
      <4> QED BY <3>9, <4>1
    <3>11. ASSUME NEW k \in 1 .. Inodes \ {owner} PROVE SameBranches(inode[k], p1, inode'[k], p2)
      <4>1. PICK other \in Ind : other = inode[k] BY <1>i
      <4>2. other.pt2 # 0 => other.pt2 # c0
        <5>1. other.pt2 # 0 => Holds(other, p, -2, other.pt2) BY Indirect
        <5>2. Holds(ind, p, -2, c0) /\ -2 \in Int BY <3>4, Indirect
        <5> QED BY <1>s, <2>5, <2>6, <4>1, <5>1, <5>2 DEF Apart
      <4>3. other.pt2 # 0 => p2[other.pt2] = p1[other.pt2] BY <3>9, <4>2 DEF Ind
      <4> QED BY <2>15, <4>1, <4>3, BranchesStay
    <3>12. new = ind BY <2>6, <2>7, <2>15
    <3>13. \A x \in Int, c \in Block : x < 0 /\ Holds(ind, p2, x, c) => Holds(ind, p1, x, c) \/ c = b
      BY <2>12, <3>4, <3>10 DEF Holds
    <3>14. \A x \in Int, c \in Block : x < 0 /\ Holds(ind, p1, x, c) => Holds(ind, p2, x, c)
      BY <2>12, <3>4, <3>6, <3>10 DEF Holds
    <3>15. Branch(inode', p2, c0)
      <4>1. Holds(ind, p2, -2, c0) /\ -2 \in Int /\ -2 < 0 BY <3>4, Indirect
      <4> QED BY <2>5, <2>6, <2>15, <4>1 DEF Branch
    <3>16. ASSUME NEW c \in Block, NEW m \in 0 .. P - 1, p2[c][m] # p1[c][m]
           PROVE  c = c0 /\ p2[c][m] = b
      BY <3>9, <3>10, <3>16
    <3> QED BY <2>5, <3>5, <3>11, <3>12, <3>13, <3>14, <3>15, <3>16
  <2> QED BY <2>1, <2>2, <2>13, <2>14, <2>15
<1> QED BY <1>1, <1>2, <1>3, <1>4, <1>5, <1>6, <1>7 DEF Next

LEMMA StepTreesInv == SInv /\ TreesInv /\ [Next]_vars => TreesInv'
<1>1. SInv => Types BY Shapes DEF SInv, TInv
<1> QED BY <1>1, StepTrees, StepPrefix, StepUnused DEF TreesInv

LEMMA FarStore ==
  ASSUME SInv, TreesInv, StoreData, inode[n].tot = len, i >= D + P
  PROVE  FileBlock(inode[n], i) = 0
<1>t. Types /\ Working BY Shapes DEF SInv, TInv
<1>o. n \in 1 .. Inodes /\ i \in Nat /\ i < inode[n].tot BY <1>t, OwnerType DEF StoreData, Types
<1>p. PICK p \in Ptrs : p = Ptr(block) BY <1>t, Pointed DEF Types
<1>b. \A b \in Block : block[b].ptr = p[b] BY <1>p, <1>t, Pointed DEF Types
<1>1. PICK k2 \in Block : k2 = i - D - P /\ k2 < P * P
  <2>1. Follows(inode[n], i) BY DEF StoreData
  <2>2. i - D - P \in Block BY <2>1, <1>o DEF Follows
  <2>3. inode[n].tot <= MaxTot BY <1>o, <1>p DEF SInv, Structure, Shaped
  <2>4. PICK m \in Nat : m = P * P BY Constants
  <2>5. inode[n].tot \in Nat BY <1>t, <1>o, OwnerType
  <2> QED BY <1>o, <2>2, <2>3, <2>4, <2>5, Constants DEF MaxTot
<1>2. PICK x \in 0 .. P - 1 : x = k2 \div P
  <2>1. k2 \in Nat /\ P \in Nat \ {0} BY Constants DEF Block
  <2>2. k2 \div P \in Nat /\ k2 \div P < P BY <1>1, <2>1, DivMod
  <2> QED BY <2>1, <2>2
<1>3. PICK idx1 \in Block : idx1 = p[k2][x] BY PtrType
<1>4. PICK y \in 0 .. P - 1 : y = k2 - idx1 * P
  <2>1. idx1 = block[i - D - P].ptr[(i - D - P) \div P] BY <1>1, <1>2, <1>3, <1>b
  <2>2. Follows(inode[n], i) BY DEF StoreData
  <2>3. i - D - P - idx1 * P \in 0 .. P - 1 BY <2>1, <2>2 DEF Follows
  <2> QED BY <1>1, <2>3
<1>5. FileBlock(inode[n], i) = p[idx1][y]
  <2>1. ~(i < D) /\ i \notin D .. D + P - 1 BY <1>o, Constants
  <2>2. FileBlock(inode[n], i) = block[idx1].ptr[y]
    BY <1>1, <1>2, <1>3, <1>4, <1>b, <2>1 DEF FileBlock
  <2> QED BY <1>b, <2>2
<1>6. SUFFICES ASSUME p[idx1][y] # 0 PROVE FALSE BY <1>5
<1>7. Trees(inode, p, dbits) BY <1>p DEF TreesInv
<1>8. Branch(inode, p, idx1) BY <1>6, <1>7 DEF Trees
<1>9. idx1 \in dbits BY <1>8, <1>p DEF Branch, SInv, Structure, Apart
<1>10. idx1 # 0 BY <1>9, <1>t DEF Types
<1>11. idx1 > k2 BY <1>3, <1>7, <1>8, <1>10 DEF Trees
<1>12. idx1 * P >= idx1
  <2>1. idx1 \in Nat BY Constants DEF Block
  <2>2. PICK e \in Nat : P = 1 + e BY Constants
  <2>3. idx1 * P = idx1 + idx1 * e /\ idx1 * e \in Nat BY <2>1, <2>2
  <2> QED BY <2>1, <2>3
<1>13. idx1 \in Nat /\ k2 \in Nat /\ P \in Nat /\ idx1 * P \in Nat BY Constants DEF Block
<1> QED BY <1>4, <1>11, <1>12, <1>13

\* Where the data of a file goes, if not there.
LEMMA NearStore ==
  ASSUME SInv, StoreData, i < D + P
  PROVE  FileBlock(inode[n], i) = Loaded(inode[n], Ptr(block), i)
<1>t. Types /\ Working BY Shapes DEF SInv, TInv
<1>o. n \in 1 .. Inodes /\ i \in Nat BY <1>t, OwnerType DEF StoreData, Types
<1>1. PICK ind \in Ind : ind = inode[n] BY <1>o, <1>t DEF Types
<1>2. Ptr(block)[ind.pt1] = block[ind.pt1].ptr BY <1>t, Pointed DEF Types, Ind
<1>3. CASE i < D
  <2>1. i \notin D .. D + P - 1 BY <1>3, Constants
  <2> QED BY <1>3, <2>1 DEF FileBlock, Loaded
<1>4. CASE ~(i < D)
  <2>1. i \in D .. D + P - 1 BY <1>o, <1>4, Constants
  <2> QED BY <1>1, <1>2, <1>4, <2>1 DEF FileBlock, Loaded
<1> QED BY <1>3, <1>4

\* Only file data changes what a marked block holds of it.
LEMMA DataStays ==
  ASSUME SInv, [Next]_vars, ~StoreData
  PROVE  \A b \in dbits : block'[b].data = block[b].data
<1>t. Types BY Shapes DEF SInv, TInv
<1>b. block \in [Block -> Blk] /\ dbits \subseteq Block BY <1>t DEF Types, Block
<1>1. CASE UNCHANGED block BY <1>1
<1>2. CASE AllocateDirBlock \/ AllocateFileBlock
  <2>1. PICK b \in 1 .. Blocks : TakeBlock(b) /\ block' = [block EXCEPT ![b] = Cleared]
    BY <1>2 DEF AllocateDirBlock, AllocateFileBlock
  <2>2. b \notin dbits BY <2>1 DEF TakeBlock, FirstClear
  <2> QED BY <1>b, <2>1, <2>2
<1>3. CASE StoreEntry
  <2>1. [name |-> name, inum |-> n] \in Ent BY <1>t DEF Types, Ent
  <2> QED BY <1>b, <1>3, <2>1, StoresEnt DEF StoreEntry
<1>4. CASE AllocateIndirect
  <2>1. PICK b \in 1 .. Blocks :
          /\ TakeBlock(b)
          /\ \/ block' = [block EXCEPT ![b] = Cleared]
             \/ block' = [block EXCEPT ![b] = Cleared, ![inode[owner].pt2].ptr[Idx1] = b]
    BY <1>4 DEF AllocateIndirect
  <2>2. b \notin dbits /\ b \in Block BY <2>1, <1>t, Taken DEF TakeBlock, FirstClear
  <2>3. PICK blk : blk = [block EXCEPT ![b] = Cleared] OBVIOUS
  <2>4. blk \in [Block -> Blk] BY <1>b, <2>3, Empty
  <2>5. \A d \in dbits : blk[d].data = block[d].data BY <1>b, <2>2, <2>3
  <2>6. PICK c, x : c = inode[owner].pt2 /\ x = Idx1 OBVIOUS
  <2>7. block' = blk \/ block' = [blk EXCEPT ![c].ptr[x] = b] BY <2>1, <2>3, <2>6
  <2>8. \A d \in Block : [blk EXCEPT ![c].ptr[x] = b][d].data = blk[d].data
    BY <2>2, <2>4, StoresPtr
  <2>9. \A d \in Block : block'[d].data = blk[d].data BY <2>7, <2>8
  <2> QED BY <1>b, <2>5, <2>9
<1>5. CASE StorePointer
  <2>1. Link /\ dnum \in Block BY <1>5, <1>t DEF StorePointer, Types
  <2>2. UNCHANGED block \/ \E c, x : block' = [block EXCEPT ![c].ptr[x] = dnum]
    BY <2>1 DEF Link
  <2>3. ASSUME NEW c, NEW x, block' = [block EXCEPT ![c].ptr[x] = dnum]
        PROVE  \A d \in Block : block'[d].data = block[d].data
    <3>1. \A d \in Block : [block EXCEPT ![c].ptr[x] = dnum][d].data = block[d].data
      BY <1>b, <2>1, StoresPtr
    <3> QED BY <2>3, <3>1
  <2>4. \A d \in Block : block'[d].data = block[d].data BY <2>2, <2>3
  <2> QED BY <1>b, <2>4
<1> QED
  BY <1>1, <1>2, <1>3, <1>4, <1>5 DEF Next, WriteFile, AllocateInode, InitInode, NameTaken,
     NameFree, CountEntry, BlocksDone, Return, CountBlock, Kill, vars, image

\* The sizes of a file.
LEMMA Lengths ==
  ASSUME Types, Working, [Next]_vars, NEW f \in 1 .. Inodes \ {Root}, ~(InitInode /\ f = n)
  PROVE  /\ inode'[f].bytes = inode[f].bytes
         /\ inode'[f].tot = IF CountBlock /\ f = owner THEN inode[f].tot + 1 ELSE inode[f].tot
<1>i. inode \in [1 .. Inodes -> Ind] BY DEF Types
<1>o. Root \in 1 .. Inodes /\ (pc \in {"append", "tot"} => owner \in 1 .. Inodes) BY OwnerType
<1>1. CASE CountBlock
  <2>1. owner \in 1 .. Inodes /\ inode' = [inode EXCEPT ![owner].tot = @ + 1]
    BY <1>1, <1>o DEF CountBlock
  <2>2. /\ Only(inode', inode, owner) /\ inode'[owner].tot = inode[owner].tot + 1
        /\ inode'[owner].bytes = inode[owner].bytes
    BY <1>i, <2>1, SetTot
  <2> QED BY <1>1, <2>2 DEF Only
<1>2. ASSUME inode'[f] = inode[f], ~CountBlock
      PROVE  /\ inode'[f].bytes = inode[f].bytes
             /\ inode'[f].tot = IF CountBlock /\ f = owner THEN inode[f].tot + 1 ELSE inode[f].tot
  BY <1>2
<1>3. CASE CountEntry
  <2>1. inode' = [inode EXCEPT ![Root].bytes = @ + 1] /\ ~CountBlock BY <1>3 DEF CountEntry, CountBlock
  <2>2. Only(inode', inode, Root) BY <1>i, <1>o, <2>1, SetBytes
  <2> QED BY <1>2, <2>1, <2>2 DEF Only
<1>4. CASE InitInode
  <2>1. inode'[f] = inode[f] /\ ~CountBlock BY <1>i, <1>4 DEF InitInode, CountBlock
  <2> QED BY <1>2, <2>1
<1>5. CASE AllocateIndirect
  <2>1. owner \in 1 .. Inodes /\ ~CountBlock BY <1>5, <1>o DEF AllocateIndirect, CountBlock
  <2>2. PICK b \in Block : \/ inode' = inode
                           \/ inode' = [inode EXCEPT ![owner].pt1 = b]
                           \/ inode' = [inode EXCEPT ![owner].pt2 = b]
    BY <1>5, Taken DEF AllocateIndirect
  <2>3. /\ inode'[owner].bytes = inode[owner].bytes /\ inode'[owner].tot = inode[owner].tot
        /\ \A l \in 1 .. Inodes \ {owner} : inode'[l] = inode[l]
    <3>1. CASE inode' = [inode EXCEPT ![owner].pt1 = b] BY <1>i, <2>1, <3>1, SetPt1 DEF Only
    <3>2. CASE inode' = [inode EXCEPT ![owner].pt2 = b] BY <1>i, <2>1, <3>2, SetPt2 DEF Only
    <3> QED BY <2>2, <3>1, <3>2
  <2> QED BY <2>1, <2>3
<1>6. CASE StorePointer
  <2>1. owner \in 1 .. Inodes /\ dnum \in Block /\ ~CountBlock
    BY <1>6, <1>o DEF Types, StorePointer, CountBlock
  <2>2. CASE Tot < D
    <3>0. Tot \in Nat BY <2>1, OwnerType DEF Tot
    <3>1. PICK x \in 0 .. D - 1 : x = Tot BY <2>2, <3>0, Constants
    <3>2. Direct(inode', inode, owner, x, dnum)
      <4>1. ~ (Tot \in D .. D + P - 1) /\ ~ (Tot >= D + P) BY <2>2, <3>1, Constants
      <4> QED BY <1>6, <3>1, <4>1 DEF StorePointer, Link, Direct
    <3>3. Only(inode', inode, owner) /\ Redirected(inode'[owner], inode[owner], x, dnum)
      BY <1>i, <2>1, <3>2, SetDirect
    <3> QED BY <2>1, <3>3 DEF Only, Redirected
  <2>3. CASE ~ (Tot < D)
    <3>1. inode' = inode BY <1>6, <2>3 DEF StorePointer, Link
    <3> QED BY <1>2, <2>1, <3>1
  <2> QED BY <2>2, <2>3
<1>7. CASE \/ WriteFile \/ AllocateInode \/ NameTaken \/ NameFree \/ AllocateDirBlock
           \/ AllocateFileBlock \/ StoreEntry \/ BlocksDone \/ StoreData \/ Return \/ Kill
           \/ UNCHANGED vars
  <2>1. inode' = inode
    BY <1>7 DEF WriteFile, AllocateInode, NameTaken, NameFree, AllocateDirBlock, AllocateFileBlock,
       StoreEntry, BlocksDone, StoreData, Return, Kill, vars, image
  <2>2. CASE CountBlock BY <1>1, <2>2
  <2> QED BY <1>2, <2>1, <2>2
<1> QED BY <1>1, <1>3, <1>4, <1>5, <1>6, <1>7 DEF Next

-----------------------------------------------------------------------------
(* The files whose write_file has returned *)

\* The first m blocks of file f hold its data.
Kept(f, m) == \A x \in 0 .. m - 1 : block[Loaded(inode[f], Ptr(block), x)].data = <<f, x>>

Whole ==
  \A f \in done :
    /\ f \in ibits \ {Root} /\ (pc \notin {"idle", "inode"} => f # n)
    /\ inode[f].tot = inode[f].bytes
    /\ inode[f].bytes <= D + P => Kept(f, inode[f].bytes)

Writing ==
  /\ pc \notin {"idle", "inode", "init"} => inode[n].bytes = len
  /\ pc = "data" => inode[n].tot = len /\ (len <= D + P => Kept(n, i))

FInv == SInv /\ TreesInv /\ Whole /\ Writing

\* What is counted of an inode is marked, and stays where it is.
LEMMA LoadedStays ==
  ASSUME SInv, [Next]_vars, NEW f \in 1 .. Inodes, NEW x \in 0 .. inode[f].tot - 1,
         x < inode'[f].tot
  PROVE  /\ Loaded(inode[f], Ptr(block), x) \in dbits
         /\ Loaded(inode'[f], Ptr(block'), x) = Loaded(inode[f], Ptr(block), x)
<1>t. Types BY Shapes DEF SInv, TInv
<1>t2. SInv' BY StepInv
<1>t3. Types' BY <1>t2, Shapes DEF SInv, TInv
<1>1. PICK ind \in Ind : ind = inode[f] BY <1>t DEF Types
<1>2. PICK new \in Ind : new = inode'[f] BY <1>t3 DEF Types
<1>3. PICK p \in Ptrs : p = Ptr(block) BY <1>t, Pointed DEF Types
<1>4. PICK p2 \in Ptrs : p2 = Ptr(block') BY <1>t3, Pointed DEF Types
<1>5. x \in Nat /\ x \in Int /\ x \in 0 .. new.tot - 1 BY <1>1, <1>2 DEF Ind
<1>6. x < MaxTot
  <2>1. Shaped(ind, p) BY <1>1, <1>3 DEF SInv, Structure
  <2>2. ind.tot <= MaxTot /\ ind.tot \in Nat /\ x < ind.tot BY <1>1, <2>1 DEF Shaped, Ind
  <2>3. MaxTot \in Nat BY Constants DEF MaxTot
  <2> QED BY <1>5, <2>2, <2>3
<1>7. PICK b \in Block : b = Loaded(ind, p, x) BY <1>5, <1>6, LoadedType
<1>8. PICK c \in Block : c = Loaded(new, p2, x) BY <1>5, <1>6, LoadedType
<1>9. Holds(inode[f], Ptr(block), x, b) BY <1>1, <1>3, <1>7 DEF Holds
<1>10. b \in dbits BY <1>5, <1>9 DEF SInv, Structure, Apart
<1>11. Holds(inode'[f], Ptr(block'), x, c) BY <1>2, <1>4, <1>5, <1>8 DEF Holds
<1>12. Lasts(inode, Ptr(block), inode', Ptr(block')) BY StepS
<1>13. Holds(inode[f], Ptr(block), x, c) BY <1>5, <1>11, <1>12 DEF Lasts
<1>14. c = Loaded(inode[f], Ptr(block), x)
  <2>1. x # -1 /\ x # -2 /\ -3 - x \notin 0 .. P - 1 BY <1>5, Constants
  <2> QED BY <1>13, <2>1 DEF Holds
<1> QED BY <1>1, <1>2, <1>3, <1>4, <1>7, <1>8, <1>10, <1>14

\* Data stays that nobody overwrites.
LEMMA KeptStays ==
  ASSUME SInv, [Next]_vars, ~StoreData, NEW f \in 1 .. Inodes, NEW m \in Nat, Kept(f, m),
         m <= inode[f].tot, m <= inode'[f].tot
  PROVE  Kept(f, m)'
<1>t. Types BY Shapes DEF SInv, TInv
<1>t2. SInv' BY StepInv
<1>t3. Types' BY <1>t2, Shapes DEF SInv, TInv
<1>1. inode[f].tot \in Nat /\ inode'[f].tot \in Nat BY <1>t, <1>t3 DEF Types, Ind
<1>2. ASSUME NEW x \in 0 .. m - 1
      PROVE  block'[Loaded(inode'[f], Ptr(block'), x)].data = <<f, x>>
  <2>1. x \in 0 .. inode[f].tot - 1 /\ x < inode'[f].tot BY <1>1
  <2>2. /\ Loaded(inode[f], Ptr(block), x) \in dbits
        /\ Loaded(inode'[f], Ptr(block'), x) = Loaded(inode[f], Ptr(block), x)
    BY <2>1, LoadedStays
  <2>3. block'[Loaded(inode[f], Ptr(block), x)].data = block[Loaded(inode[f], Ptr(block), x)].data
    BY <2>2, DataStays
  <2>4. block[Loaded(inode[f], Ptr(block), x)].data = <<f, x>> BY DEF Kept
  <2> QED BY <2>2, <2>3, <2>4
<1> QED BY <1>2 DEF Kept

LEMMA SetsData ==
  ASSUME NEW blk \in [Block -> Blk], NEW c \in Block, NEW v \in (0 .. Inodes) \X Nat
  PROVE  LET new == [blk EXCEPT ![c].data = v]
         IN  \A d \in Block : new[d].data = IF d = c THEN v ELSE blk[d].data
<1>1. \A d \in Block : blk[d] \in Blk OBVIOUS
<1> QED BY <1>1 DEF Blk

\* Where the data goes, and nowhere else.
LEMMA DataStored ==
  ASSUME SInv, TreesInv, StoreData, inode[n].tot = len
  PROVE  /\ UNCHANGED <<inode, dbits, ibits, pc, n, len, done>> /\ i' = i + 1
         /\ Ptr(block') = Ptr(block)
         /\ i < D + P => block'[Loaded(inode[n], Ptr(block), i)].data = <<n, i>>
         /\ \A f \in 1 .. Inodes : \A x \in 0 .. inode[f].tot - 1 : f # n \/ x # i =>
              block'[Loaded(inode[f], Ptr(block), x)].data = block[Loaded(inode[f], Ptr(block), x)].data
<1>t. Types /\ Working BY Shapes DEF SInv, TInv
<1>t2. SInv' BY StepInv DEF Next
<1>t3. Types' BY <1>t2, Shapes DEF SInv, TInv
<1>o. n \in 1 .. Inodes /\ n \in 0 .. Inodes /\ i \in Nat /\ i < len /\ len \in Nat
  BY <1>t, OwnerType, Constants DEF StoreData, Types
<1>b. block \in [Block -> Blk] BY <1>t DEF Types
<1>1. PICK v \in (0 .. Inodes) \X Nat : v = <<n, i>> BY <1>o
<1>2. PICK b : b = FileBlock(inode[n], i) OBVIOUS
<1>3. block' = [block EXCEPT ![b].data = v] BY <1>1, <1>2 DEF StoreData
<1>4. \A d \in Block : block'[d].ptr = block[d].ptr BY <1>b, <1>3, StoresData
<1>5. Ptr(block') = Ptr(block) BY <1>4 DEF Ptr
<1>6. UNCHANGED <<inode, dbits, ibits, pc, n, len, done>> /\ i' = i + 1 BY DEF StoreData
<1>7. ASSUME NEW f \in 1 .. Inodes, NEW x \in 0 .. inode[f].tot - 1
      PROVE  /\ Loaded(inode[f], Ptr(block), x) \in dbits \cap Block
             /\ Holds(inode[f], Ptr(block), x, Loaded(inode[f], Ptr(block), x))
  <2>1. inode'[f].tot = inode[f].tot /\ inode[f].tot \in Nat BY <1>t, <1>6, OwnerType
  <2>2. x < inode'[f].tot BY <2>1
  <2>3. Loaded(inode[f], Ptr(block), x) \in dbits BY <2>2, LoadedStays DEF Next
  <2>4. dbits \subseteq Block BY <1>t DEF Types, Block
  <2>5. Holds(inode[f], Ptr(block), x, Loaded(inode[f], Ptr(block), x)) BY DEF Holds
  <2> QED BY <2>3, <2>4, <2>5
<1> DEFINE Rest ==
      /\ i < D + P => block'[Loaded(inode[n], Ptr(block), i)].data = <<n, i>>
      /\ \A f \in 1 .. Inodes : \A x \in 0 .. inode[f].tot - 1 : f # n \/ x # i =>
           block'[Loaded(inode[f], Ptr(block), x)].data = block[Loaded(inode[f], Ptr(block), x)].data
<1>8. ASSUME i < D + P PROVE Rest
  <2>1. b = Loaded(inode[n], Ptr(block), i) BY <1>2, <1>8, NearStore
  <2>2. i \in 0 .. inode[n].tot - 1 BY <1>o
  <2>3. b \in Block /\ Holds(inode[n], Ptr(block), i, b) BY <1>7, <1>o, <2>1, <2>2
  <2>4. \A d \in Block : block'[d].data = IF d = b THEN v ELSE block[d].data
    BY <1>b, <1>3, <2>3, SetsData
  <2>5. ASSUME NEW f \in 1 .. Inodes, NEW x \in 0 .. inode[f].tot - 1, f # n \/ x # i
        PROVE  block'[Loaded(inode[f], Ptr(block), x)].data = block[Loaded(inode[f], Ptr(block), x)].data
    <3>1. PICK c \in Block : c = Loaded(inode[f], Ptr(block), x) BY <1>7
    <3>2. Holds(inode[f], Ptr(block), x, c) BY <1>7, <3>1
    <3>3. Apart(inode, Ptr(block), dbits) BY DEF SInv, Structure
    <3>4. c # b BY <1>o, <2>3, <2>5, <3>2, <3>3 DEF Apart
    <3> QED BY <2>4, <3>1, <3>4
  <2> QED BY <1>1, <2>1, <2>3, <2>4, <2>5
<1>9. ASSUME ~(i < D + P) PROVE Rest
  <2>1. b = 0
    <3>1. i >= D + P BY <1>9, <1>o, Constants
    <3> QED BY <1>2, <3>1, FarStore
  <2>2. b \in Block /\ b \notin dbits BY <1>t, <2>1, Constants DEF Types, Block
  <2>3. \A d \in Block : block'[d].data = IF d = b THEN v ELSE block[d].data
    BY <1>b, <1>3, <2>2, SetsData
  <2>4. \A f \in 1 .. Inodes : \A x \in 0 .. inode[f].tot - 1 :
          block'[Loaded(inode[f], Ptr(block), x)].data = block[Loaded(inode[f], Ptr(block), x)].data
    BY <1>7, <2>2, <2>3
  <2> QED BY <1>9, <2>4
<1>10. Rest BY <1>8, <1>9
<1> QED BY <1>5, <1>6, <1>10

LEMMA InitFiles == Init => Whole /\ Writing
BY DEF Init, Whole, Writing

\* How far the tool gets in a step.
LEMMA Phases ==
  ASSUME Types, [Next]_vars
  PROVE  /\ done' = done \/ (Return /\ done' = done \cup {n})
         /\ ibits \subseteq ibits'
         /\ pc' \notin {"idle", "inode"} =>
              (pc \notin {"idle", "inode"} /\ n' = n) \/ AllocateInode
         /\ pc' \notin {"idle", "inode", "init"} =>
              InitInode \/ (pc \notin {"idle", "inode", "init"} /\ n' = n /\ len' = len)
         /\ pc' = "data" => StoreData \/ BlocksDone \/ UNCHANGED vars
<1>1. ibits \subseteq ibits' /\ (done' = done \/ (Return /\ done' = done \cup {n}))
  BY Taken DEF Next, WriteFile, AllocateInode, InitInode, NameTaken, NameFree,
     AllocateDirBlock, AllocateFileBlock, StoreEntry, CountEntry, BlocksDone, StoreData, Return,
     AllocateIndirect, StorePointer, CountBlock, Kill, vars, image
<1>2. CASE UNCHANGED vars BY <1>1, <1>2 DEF vars, locals
<1>3. CASE WriteFile \/ NameTaken \/ Return \/ Kill
  <2>1. pc' \in {"idle", "inode"} BY <1>3 DEF WriteFile, NameTaken, Return, Kill, Leave
  <2> QED BY <1>1, <2>1
<1>4. CASE AllocateInode
  <2>1. pc' = "init" BY <1>4 DEF AllocateInode
  <2> QED BY <1>1, <1>4, <2>1
<1>5. CASE InitInode
  <2>1. pc = "init" /\ pc' = "names" /\ n' = n BY <1>5 DEF InitInode, locals
  <2> QED BY <1>1, <1>5, <2>1
<1>6. CASE StoreData
  <2>1. pc = "data" /\ n' = n /\ len' = len BY <1>6 DEF StoreData
  <2> QED BY <1>1, <1>6, <2>1
<1>7. CASE BlocksDone
  <2>1. pc = "blocks" /\ n' = n /\ len' = len BY <1>7 DEF BlocksDone
  <2> QED BY <1>1, <1>7, <2>1
<1>8. CASE \/ NameFree \/ AllocateDirBlock \/ AllocateFileBlock \/ StoreEntry \/ CountEntry
           \/ AllocateIndirect \/ StorePointer \/ CountBlock
  <2>1. /\ pc \notin {"idle", "inode", "init"} /\ pc' \notin {"idle", "inode", "init", "data"}
        /\ n' = n /\ len' = len
    BY <1>8 DEF NameFree, AllocateDirBlock, AllocateFileBlock, StoreEntry, CountEntry,
       AllocateIndirect, StorePointer, CountBlock, locals
  <2> QED BY <1>1, <2>1
<1> QED BY <1>2, <1>3, <1>4, <1>5, <1>6, <1>7, <1>8 DEF Next

LEMMA StepWhole == FInv /\ [Next]_vars => Whole'
<1> SUFFICES ASSUME FInv, [Next]_vars, NEW f \in done'
             PROVE  /\ f \in ibits' \ {Root} /\ (pc' \notin {"idle", "inode"} => f # n')
                    /\ inode'[f].tot = inode'[f].bytes
                    /\ inode'[f].bytes <= D + P => Kept(f, inode[f].bytes)'
  BY DEF Whole
<1>s. SInv /\ TreesInv /\ Whole /\ Writing BY DEF FInv
<1>t. Types /\ Working BY <1>s, Shapes DEF SInv, TInv
<1>i. /\ inode \in [1 .. Inodes -> Ind] /\ n \in 0 .. Inodes /\ ibits \subseteq 1 .. Inodes
      /\ done \subseteq 1 .. Inodes
  BY <1>t DEF Types
<1>1. CASE f \in done
  <2>1. /\ f \in 1 .. Inodes \ {Root} /\ f \in ibits /\ (pc \notin {"idle", "inode"} => f # n)
        /\ inode[f].tot = inode[f].bytes
        /\ inode[f].bytes <= D + P => Kept(f, inode[f].bytes)
    BY <1>s, <1>1, <1>i DEF Whole
  <2>2. f \in ibits' \ {Root} BY <1>t, <2>1, Phases
  <2>3. pc' \notin {"idle", "inode"} => f # n'
    <3>1. CASE AllocateInode
      <4>1. PICK k \in 1 .. Inodes : TakeInode(k) /\ n' = k BY <3>1 DEF AllocateInode
      <4>2. k \notin ibits BY <4>1 DEF TakeInode, FirstClear
      <4> QED BY <2>1, <4>1, <4>2
    <3> QED BY <1>t, <2>1, <3>1, Phases
  <2>4. ~(InitInode /\ f = n) BY <2>1 DEF InitInode
  <2>5. ~(CountBlock /\ f = owner)
    BY <1>t, <2>1 DEF CountBlock, Working
  <2>6. inode'[f].bytes = inode[f].bytes /\ inode'[f].tot = inode[f].tot
    BY <1>t, <2>1, <2>4, <2>5, Lengths
  <2>7. inode[f] \in Ind BY <1>i, <2>1
  <2>8. inode[f].bytes \in Nat BY <2>7 DEF Ind
  <2>9. ASSUME inode'[f].bytes <= D + P PROVE Kept(f, inode[f].bytes)'
    <3>1. PICK m \in Nat : m = inode[f].bytes BY <2>8
    <3>2. Kept(f, m) /\ m <= inode[f].tot /\ m <= inode'[f].tot
      BY <2>1, <2>6, <2>9, <3>1
    <3>3. Kept(f, m)'
      <4>1. CASE ~StoreData BY <1>s, <2>1, <3>2, <4>1, KeptStays
      <4>2. CASE StoreData
        <5>1. pc = "data" BY <4>2 DEF StoreData
        <5>2. inode[n].tot = len /\ f # n BY <1>s, <2>1, <5>1 DEF Writing
        <5>3. /\ Ptr(block') = Ptr(block) /\ inode' = inode
              /\ \A x \in 0 .. inode[f].tot - 1 :
                   block'[Loaded(inode[f], Ptr(block), x)].data = block[Loaded(inode[f], Ptr(block), x)].data
          BY <1>s, <2>1, <4>2, <5>2, DataStored
        <5>4. \A x \in 0 .. m - 1 : x \in 0 .. inode[f].tot - 1 BY <2>1, <3>1
        <5> QED BY <3>2, <5>3, <5>4 DEF Kept
      <4> QED BY <4>1, <4>2
    <3> QED BY <2>6, <3>1, <3>3 DEF Kept
  <2> QED BY <2>1, <2>2, <2>3, <2>6, <2>9
<1>2. CASE f \notin done
  <2>1. Return /\ f = n BY <1>t, <1>2, Phases
  <2>2. /\ pc = "data" /\ i = len /\ pc' = "idle"
        /\ ibits' = ibits /\ inode' = inode /\ block' = block
    BY <2>1 DEF Return, Leave, image
  <2>3. f \in ibits \ {Root} BY <1>t, <2>1, <2>2 DEF Working
  <2>4. /\ inode[f].tot = len /\ inode[f].bytes = len
        /\ len <= D + P => Kept(f, len)
    BY <1>s, <2>1, <2>2 DEF Writing
  <2> QED BY <2>2, <2>3, <2>4 DEF Kept
<1> QED BY <1>1, <1>2

LEMMA StepWriting == FInv /\ [Next]_vars => Writing'
<1> SUFFICES ASSUME FInv, [Next]_vars PROVE Writing' OBVIOUS
<1>s. SInv /\ TreesInv /\ Whole /\ Writing BY DEF FInv
<1>t. Types /\ Working BY <1>s, Shapes DEF SInv, TInv
<1>1. ASSUME pc' \notin {"idle", "inode", "init"} PROVE inode'[n'].bytes = len'
  <2>1. CASE InitInode
    <3>1. n \in 1 .. Inodes /\ inode \in [1 .. Inodes -> Ind]
      BY <1>t, <2>1, OwnerType DEF InitInode, Types
    <3>2. inode'[n] = [NewInode EXCEPT !.bytes = len] /\ n' = n /\ len' = len
      BY <2>1, <3>1 DEF InitInode, locals
    <3> QED BY <3>2 DEF NewInode
  <2>2. CASE ~InitInode
    <3>1. pc \notin {"idle", "inode", "init"} /\ n' = n /\ len' = len BY <1>t, <1>1, <2>2, Phases
    <3>2. n \in 1 .. Inodes \ {Root} /\ inode[n].bytes = len BY <1>s, <1>t, <3>1, OwnerType DEF Writing
    <3>3. inode'[n].bytes = inode[n].bytes BY <1>t, <2>2, <3>2, Lengths
    <3> QED BY <3>1, <3>2, <3>3
  <2> QED BY <2>1, <2>2
<1>2. ASSUME pc' = "data" PROVE inode'[n'].tot = len' /\ (len' <= D + P => Kept(n, i)')
  <2>1. CASE StoreData
    <3>1. pc = "data" /\ i < len /\ n \in 1 .. Inodes BY <1>t, <2>1, OwnerType DEF StoreData
    <3>2. inode[n].tot = len /\ (len <= D + P => Kept(n, i)) BY <1>s, <3>1 DEF Writing
    <3>3. /\ UNCHANGED <<inode, n, len>> /\ i' = i + 1 /\ Ptr(block') = Ptr(block)
          /\ i < D + P => block'[Loaded(inode[n], Ptr(block), i)].data = <<n, i>>
          /\ \A x \in 0 .. inode[n].tot - 1 : x # i =>
              block'[Loaded(inode[n], Ptr(block), x)].data = block[Loaded(inode[n], Ptr(block), x)].data
      BY <1>s, <2>1, <3>1, <3>2, DataStored
    <3>4. i \in Nat /\ len \in Nat BY <1>t, Constants DEF Types
    <3>5. ASSUME len <= D + P, NEW x \in 0 .. i
          PROVE  block'[Loaded(inode[n], Ptr(block), x)].data = <<n, x>>
      <4>1. i < D + P BY <3>1, <3>4, <3>5, Constants
      <4>2. x = i \/ (x \in 0 .. i - 1 /\ x \in 0 .. inode[n].tot - 1) BY <3>1, <3>2, <3>4
      <4> QED BY <3>2, <3>3, <3>5, <4>1, <4>2 DEF Kept
    <3>6. \A x \in 0 .. i' - 1 : x \in 0 .. i BY <3>3, <3>4
    <3> QED BY <3>2, <3>3, <3>5, <3>6 DEF Kept
  <2>2. CASE BlocksDone
    <3>1. pc = "blocks" /\ i = len /\ i' = 0 /\ UNCHANGED <<inode, n, len>>
      BY <2>2 DEF BlocksDone, image
    <3>2. inode[n].tot = len BY <1>s, <3>1 DEF SInv, Progress
    <3>3. 0 .. i' - 1 = {} BY <3>1
    <3> QED BY <3>1, <3>2, <3>3 DEF Kept
  <2>3. CASE UNCHANGED vars
    <3>1. UNCHANGED <<pc, inode, block, n, len, i>> BY <2>3 DEF vars, image, locals
    <3> QED BY <1>2, <1>s, <3>1 DEF Writing, Kept
  <2> QED BY <1>2, <1>t, <2>1, <2>2, <2>3, Phases
<1> QED BY <1>1, <1>2 DEF Writing, Kept

-----------------------------------------------------------------------------
(* What the loader has seen *)

\* What holds of the image.
Sound == DInv /\ FirstBlock /\ TreesInv /\ Whole /\ Writing

Data == (0 .. Inodes) \X Nat

\* The blocks read so far.
Read ==
  /\ found \in 1 .. Inodes /\ found = First[slot].inum
  /\ j \in 0 .. TotBlock
  /\ memory \in Seq(Data) /\ Len(memory) = j
  /\ \A k \in 1 .. j : memory[k] = block[Loaded(inode[found], Ptr(block), k - 1)].data

Scanned ==
  /\ stage \in {"off", "scan", "load", "elf", "missing", "entered", "halted"}
  /\ stage # "off" => pc = "idle"
  /\ stage = "off" => slot = 0
  /\ stage \in {"off", "scan"} => memory = <<>>
  /\ slot \in 0 .. E
  /\ \A r \in 0 .. slot - 1 : First[r].inum # 0 /\ ~Matches(First[r].name)
  /\ stage = "missing" => slot = E \/ First[slot].inum = 0
  /\ stage \in {"load", "elf"} => slot < E /\ Matches(First[slot].name) /\ Read
  /\ stage = "elf" => j = TotBlock

LEMMA InitSound == LoaderInit => Sound /\ Scanned
<1> SUFFICES ASSUME LoaderInit PROVE Sound /\ Scanned OBVIOUS
<1>1. Init BY DEF LoaderInit
<1>2. Sound BY <1>1, InitT, InitP, InitS, InitD, InitF, InitTrees, InitFiles DEF Sound, DInv, SInv
<1>3. slot = 0 /\ 0 \in 0 .. E /\ 0 .. slot - 1 = {} BY Constants DEF LoaderInit
<1> QED BY <1>2, <1>3 DEF Scanned, LoaderInit

LEMMA StepSound == Sound /\ [Next]_vars => Sound'
BY StepInv, StepSizes, StepLayout, StepFirst, StepTreesInv, StepWhole, StepWriting
   DEF Sound, DInv, FInv

LEMMA LoaderStep == [LoaderNext]_allvars => [Next]_vars
BY DEF LoaderNext, Write, PowerOn, Load, NextEntry, KernelFound, KernelMissing, ReadBlock,
   FileRead, load_elf_kernel, allvars

\* The root's first block.
LEMMA FirstType ==
  ASSUME Sound
  PROVE  /\ First = block[Dir(0)].ent
         /\ \A k \in 0 .. E - 1 : First[k].inum \in 0 .. Inodes
         /\ \A k, m \in 0 .. E - 1 : k < m /\ First[m].inum # 0 => First[k].inum # 0
<1>t. Types BY Shapes DEF Sound, DInv, SInv, TInv
<1>1. First = block[Dir(0)].ent BY FirstIs DEF First
<1>2. Dir(0) \in Block /\ Size \in Nat /\ Spread \in Nat \ {0} BY DirBlocks DEF Sound, DInv, Sizes
<1>3. block[Dir(0)] \in Blk BY <1>t, <1>2 DEF Types
<1>4. \A k \in 0 .. E - 1 : First[k] \in Ent BY <1>1, <1>3 DEF Blk
<1>5. ASSUME NEW k \in 0 .. E - 1, NEW m \in 0 .. E - 1, k < m, First[m].inum # 0
      PROVE  First[k].inum # 0
  <2>1. m <= Size
    <3>1. 0 \in 0 .. Spread - 1 /\ m \in 1 .. E - 1 /\ 0 * E + m = m BY <1>2, <1>5, Constants
    <3>2. m > Size => block[Dir(0)].ent[m].inum = 0 BY <3>1 DEF Sound, DInv, Layout
    <3> QED BY <1>1, <1>2, <1>5, <3>2
  <2>2. k < Size BY <1>2, <1>5, <2>1
  <2> QED BY <1>1, <2>2 DEF Sound, FirstBlock
<1> QED BY <1>1, <1>4, <1>5 DEF Ent

\* One more block is read.
LEMMA ReadOne ==
  ASSUME Sound, Read, ReadBlock
  PROVE  Read'
<1>t. Types /\ Working BY Shapes DEF Sound, DInv, SInv, TInv
<1>1. /\ j < TotBlock /\ j' = j + 1 /\ UNCHANGED <<inode, block, slot, found>>
      /\ memory' = Append(memory, block[LoadedBlock(inode[found], j)].data)
  BY DEF ReadBlock, vars, image
<1>2. PICK ind \in Ind : ind = inode[found] BY <1>t, OwnerType DEF Read
<1>3. PICK p \in Ptrs : p = Ptr(block) BY <1>t, Pointed DEF Types
<1>4. j \in Nat /\ TotBlock \in Nat /\ j < MaxTot
  <2>1. Shaped(ind, p) BY <1>2, <1>3 DEF Sound, DInv, SInv, Structure, Read
  <2>2. TotBlock \in Nat /\ TotBlock <= MaxTot BY <1>2, <2>1 DEF TotBlock, Ind, Shaped
  <2>3. MaxTot \in Nat BY Constants DEF MaxTot
  <2> QED BY <1>1, <2>2, <2>3 DEF Read
<1>5. LoadedBlock(ind, j) = Loaded(ind, p, j) /\ Loaded(ind, p, j) \in Block
  BY <1>t, <1>3, <1>4, LoaderReads, LoadedType
<1>6. PICK d \in Data : d = block[Loaded(ind, p, j)].data BY <1>t, <1>5 DEF Types, Blk, Data
<1>7. memory' = Append(memory, d) BY <1>1, <1>2, <1>5, <1>6
<1>8. /\ memory' \in Seq(Data) /\ Len(memory') = j + 1
      /\ \A k \in 1 .. j : memory'[k] = memory[k]
      /\ memory'[j + 1] = d
  BY <1>4, <1>7, AppendProperties DEF Read
<1>9. ASSUME NEW k \in 1 .. j + 1 PROVE memory'[k] = block[Loaded(inode[found], Ptr(block), k - 1)].data
  <2>1. k \in 1 .. j \/ (k = j + 1 /\ k - 1 = j) BY <1>4
  <2> QED BY <1>2, <1>3, <1>6, <1>8, <2>1 DEF Read
<1>10. First' = First /\ TotBlock' = TotBlock BY <1>1 DEF First, TotBlock
<1>11. j' \in 0 .. TotBlock' BY <1>1, <1>4, <1>10
<1> QED BY <1>1, <1>8, <1>9, <1>10, <1>11 DEF Read

LEMMA StepScan == Sound /\ Scanned /\ [LoaderNext]_allvars => Scanned'
<1> SUFFICES ASSUME Sound, Scanned, [LoaderNext]_allvars PROVE Scanned' OBVIOUS
<1>t. Types /\ Working BY Shapes DEF Sound, DInv, SInv, TInv
<1>e. E \in Nat \ {0} /\ slot \in 0 .. E BY Constants DEF Scanned
<1>v. UNCHANGED vars => First' = First /\ UNCHANGED <<pc, inode, block>>
  BY DEF vars, image, First
<1>f. UNCHANGED <<vars, slot>>
        => \A r \in 0 .. slot' - 1 : First'[r].inum # 0 /\ ~Matches(First'[r].name)
  BY <1>v DEF Scanned
<1>r. UNCHANGED <<vars, slot, found, j, memory>> => (Read <=> Read') /\ TotBlock' = TotBlock
  BY <1>v DEF Read, TotBlock
<1>1. CASE UNCHANGED allvars
  <2>1. UNCHANGED <<vars, slot, found, j, memory>> /\ stage' = stage BY <1>1 DEF allvars, loader
  <2> QED BY <1>f, <1>v, <1>r, <2>1 DEF Scanned
<1>2. CASE Write
  <2>1. stage = "off" /\ UNCHANGED loader BY <1>2 DEF Write
  <2>2. stage' = "off" /\ slot' = 0 /\ memory' = <<>> BY <2>1 DEF Scanned, loader
  <2>3. 0 .. slot' - 1 = {} /\ slot' \in 0 .. E BY <1>e, <2>2
  <2> QED BY <2>2, <2>3 DEF Scanned
<1>3. CASE PowerOn
  <2>1. stage' = "scan" /\ slot' = 0 /\ pc' = "idle" /\ memory' = <<>>
    BY <1>3, <1>v DEF PowerOn, Scanned
  <2>2. 0 .. slot' - 1 = {} /\ slot' \in 0 .. E BY <1>e, <2>1
  <2> QED BY <2>1, <2>2 DEF Scanned
<1>4. CASE NextEntry
  <2>1. /\ stage' = "scan" /\ stage = "scan" /\ slot < E /\ slot' = slot + 1 /\ memory' = memory
        /\ First' = First /\ pc' = pc
        /\ First[slot].inum # 0 /\ ~Matches(First[slot].name)
    BY <1>4, <1>v DEF NextEntry
  <2>2. slot' \in 0 .. E /\ \A r \in 0 .. slot' - 1 : r \in 0 .. slot - 1 \/ r = slot BY <1>e, <2>1
  <2>3. \A r \in 0 .. slot' - 1 : First'[r].inum # 0 /\ ~Matches(First'[r].name)
    BY <2>1, <2>2 DEF Scanned
  <2> QED BY <2>1, <2>2, <2>3 DEF Scanned
<1>5. CASE KernelFound
  <2>1. /\ stage = "scan" /\ slot < E /\ First[slot].inum # 0 /\ Matches(First[slot].name)
        /\ found' = First[slot].inum /\ stage' = "load" /\ j' = 0
        /\ UNCHANGED <<vars, slot, memory>>
    BY <1>5 DEF KernelFound
  <2>2. memory' = <<>> /\ First' = First /\ pc' = pc /\ inode' = inode BY <1>v, <2>1 DEF Scanned
  <2>3. found' \in 1 .. Inodes /\ found' = First'[slot'].inum
    <3>1. First[slot].inum \in 0 .. Inodes BY <1>e, <2>1, FirstType
    <3> QED BY <2>1, <2>2, <3>1, Constants
  <2>4. j' \in 0 .. TotBlock'
    <3>1. inode'[found'].tot \in Nat BY <1>t, <2>2, <2>3, OwnerType
    <3> QED BY <2>1, <3>1 DEF TotBlock
  <2>5. memory' \in Seq(Data) /\ Len(memory') = j' /\ 1 .. j' = {} BY <2>1, <2>2
  <2>6. Read' BY <2>3, <2>4, <2>5 DEF Read
  <2> QED BY <1>f, <2>1, <2>2, <2>6 DEF Scanned
<1>6. CASE KernelMissing
  <2>1. /\ stage = "scan" /\ stage' = "missing" /\ (slot = E \/ First[slot].inum = 0)
        /\ UNCHANGED <<vars, slot>>
    BY <1>6 DEF KernelMissing
  <2> QED BY <1>f, <1>v, <2>1 DEF Scanned
<1>7. CASE ReadBlock
  <2>1. stage = "load" /\ stage' = "load" /\ UNCHANGED <<vars, slot>> BY <1>7 DEF ReadBlock
  <2>2. Read' BY <1>7, <2>1, ReadOne DEF Scanned
  <2> QED BY <1>f, <1>v, <2>1, <2>2 DEF Scanned
<1>8. CASE FileRead
  <2>1. /\ stage = "load" /\ stage' = "elf" /\ j = TotBlock
        /\ UNCHANGED <<vars, slot, found, j, memory>>
    BY <1>8 DEF FileRead
  <2> QED BY <1>f, <1>v, <1>r, <2>1 DEF Scanned
<1>9. CASE load_elf_kernel
  <2>1. stage = "elf" /\ stage' \in {"entered", "halted"} /\ UNCHANGED <<vars, slot>>
    BY <1>9 DEF load_elf_kernel
  <2> QED BY <1>f, <1>v, <2>1 DEF Scanned
<1> QED BY <1>1, <1>2, <1>3, <1>4, <1>5, <1>6, <1>7, <1>8, <1>9 DEF LoaderNext, Load

LEMMA ScannedFinds == Sound /\ Scanned => FindsKernel
<1> SUFFICES ASSUME Sound, Scanned PROVE FindsKernel OBVIOUS
<1>t. Types /\ Working BY Shapes DEF Sound, DInv, SInv, TInv
<1>1. ASSUME stage = "elf", found \in done, inode[found].bytes <= D + P
      PROVE  memory = [k \in 1 .. inode[found].bytes |-> <<found, k - 1>>]
  <2>1. Read /\ j = TotBlock BY <1>1 DEF Scanned
  <2>2. inode[found].tot = inode[found].bytes /\ Kept(found, inode[found].bytes)
    BY <1>1 DEF Sound, Whole
  <2>3. PICK m \in Nat : m = inode[found].bytes BY <1>t, <2>1, <2>2, OwnerType DEF Read
  <2>4. j = m BY <2>1, <2>2, <2>3 DEF TotBlock
  <2>5. ASSUME NEW k \in 1 .. m PROVE memory[k] = <<found, k - 1>>
    <3>1. k - 1 \in 0 .. m - 1 OBVIOUS
    <3> QED BY <2>1, <2>2, <2>3, <2>4, <3>1 DEF Read, Kept
  <2>6. memory \in Seq(Data) /\ Len(memory) = m BY <2>1, <2>4 DEF Read
  <2>7. memory = [k \in 1 .. m |-> memory[k]] BY <2>6
  <2> QED BY <2>3, <2>5, <2>7
<1>2. ASSUME NEW s \in 0 .. E - 1, First[s].inum # 0, First[s].name = Kernel,
             \A r \in 0 .. s - 1 : First[r].name \notin Later
      PROVE  /\ stage # "missing"
             /\ stage \in {"load", "elf"} => found = First[s].inum
  <2>e. E \in Nat \ {0} /\ slot \in 0 .. E BY Constants DEF Scanned
  <2>1. slot <= s
    <3>1. s \in 0 .. slot - 1 => FALSE BY <1>2 DEF Scanned, Matches
    <3> QED BY <2>e, <3>1
  <2>2. slot \in 0 .. E - 1 /\ (slot < s \/ slot = s) BY <2>e, <2>1
  <2>3. First[slot].inum # 0 BY <1>2, <2>2, FirstType
  <2>4. stage # "missing" BY <2>e, <2>2, <2>3 DEF Scanned
  <2>5. ASSUME stage \in {"load", "elf"} PROVE found = First[s].inum
    <3>1. Matches(First[slot].name) /\ found = First[slot].inum BY <2>5 DEF Scanned, Read
    <3>2. slot < s => slot \in 0 .. s - 1 BY <2>2
    <3>3. First[slot].name = Kernel BY <1>2, <2>2, <3>1, <3>2 DEF Matches
    <3>4. slot = s
      BY <1>2, <2>2, <2>3, <3>3, FirstType DEF Sound, FirstBlock
    <3> QED BY <3>1, <3>4
  <2> QED BY <2>4, <2>5
<1> QED BY <1>1, <1>2 DEF FindsKernel

\* What the loader finds and reads: the whole file, in its order, and no file
\* but the kernel, whatever image the tool has left (FindsKernel).
THEOREM KernelWhole == LoaderSpec => []FindsKernel
<1>1. Sound /\ Scanned /\ [LoaderNext]_allvars => (Sound /\ Scanned)'
  BY LoaderStep, StepSound, StepScan
<1> QED BY <1>1, InitSound, ScannedFinds, PTL DEF LoaderSpec

-----------------------------------------------------------------------------
\* How many steps the loader has left, at most: an entry or a block each, and the two that end
\* its loops.
LoadLeft ==
  CASE stage = "scan" -> E - slot + Reach + 3
    [] stage = "load" -> Reach - j + 2
    [] stage = "elf"  -> 1
    [] OTHER          -> 0

\* The loop reads no block that its last arm would not.
Within == stage = "load" => j \in 0 .. Reach

LEMMA ReachType == Reach \in Nat
<1>1. PICK d \in Nat, p \in Nat : d = D /\ p = P BY Constants
<1>2. p * p \in Nat OBVIOUS
<1> QED BY <1>1, <1>2 DEF Reach

LEMMA StepWithin == Within /\ [LoaderNext]_allvars => Within'
<1> SUFFICES ASSUME Within, [LoaderNext]_allvars, stage' = "load" PROVE j' \in 0 .. Reach'
  BY DEF Within
<1>0. PICK m \in Nat : m = Reach BY ReachType
<1>1. Reach' = m BY <1>0 DEF Reach
<1>2. CASE UNCHANGED <<stage, j>> BY <1>0, <1>1, <1>2 DEF Within
<1>3. CASE KernelFound BY <1>1, <1>3 DEF KernelFound
<1>4. CASE ReadBlock
  <2>1. PICK k \in Nat : k = j /\ stage = "load" /\ j < Reach /\ j' = j + 1
    BY <1>0, <1>4 DEF ReadBlock, Within
  <2> QED BY <2>1, <1>0, <1>1
<1> QED BY <1>2, <1>3, <1>4 DEF LoaderNext, Write, PowerOn, Load, NextEntry, KernelMissing,
     FileRead, load_elf_kernel, allvars, loader

LEMMA LeftCounted ==
  ASSUME Scanned, Within
  PROVE  LoadLeft \in 0 .. E + Reach + 3
<1>1. PICK m \in Nat, e \in Nat, s \in Nat : m = Reach /\ e = E /\ s = slot /\ s <= e
  BY ReachType, Constants DEF Scanned
<1>2. CASE stage = "scan" BY <1>1, <1>2 DEF LoadLeft
<1>3. CASE stage = "load"
  <2>1. PICK k \in 0 .. m : k = j BY <1>1, <1>3 DEF Within
  <2> QED BY <2>1, <1>1, <1>3 DEF LoadLeft
<1>4. CASE stage = "elf" BY <1>1, <1>4 DEF LoadLeft
<1>5. CASE stage \notin {"scan", "load", "elf"} BY <1>1, <1>5 DEF LoadLeft
<1> QED BY <1>2, <1>3, <1>4, <1>5

\* Every step of the loader brings its end nearer.
LEMMA LeftShrinks ==
  ASSUME Scanned, Within, Load
  PROVE  LoadLeft' < LoadLeft
<1>1. PICK m \in Nat, e \in Nat, s \in Nat : m = Reach /\ e = E /\ s = slot /\ s <= e
  BY ReachType, Constants DEF Scanned
<1>2. Reach' = m /\ E' = e BY <1>1 DEF Reach
<1>3. CASE NextEntry
  <2>1. stage = "scan" /\ stage' = "scan" /\ slot' = s + 1 BY <1>1, <1>3 DEF NextEntry
  <2>2. LoadLeft = e - s + m + 3 /\ LoadLeft' = e - (s + 1) + m + 3
    BY <1>1, <1>2, <2>1 DEF LoadLeft
  <2> QED BY <2>2
<1>4. CASE KernelFound
  <2>1. stage = "scan" /\ stage' = "load" /\ j' = 0 BY <1>4 DEF KernelFound
  <2>2. LoadLeft = e - s + m + 3 /\ LoadLeft' = m - 0 + 2 BY <1>1, <1>2, <2>1 DEF LoadLeft
  <2> QED BY <2>2, <1>1
<1>5. CASE KernelMissing
  <2>1. stage = "scan" /\ stage' = "missing" BY <1>5 DEF KernelMissing
  <2>2. LoadLeft = e - s + m + 3 /\ LoadLeft' = 0 BY <1>1, <2>1 DEF LoadLeft
  <2> QED BY <2>2, <1>1
<1>6. CASE ReadBlock
  <2>1. PICK k \in Nat : k = j /\ stage = "load" /\ stage' = "load" /\ j' = k + 1
    BY <1>1, <1>6 DEF ReadBlock, Within
  <2>2. LoadLeft = m - k + 2 /\ LoadLeft' = m - (k + 1) + 2 BY <1>1, <1>2, <2>1 DEF LoadLeft
  <2> QED BY <2>2
<1>7. CASE FileRead
  <2>1. PICK k \in 0 .. m : k = j /\ stage = "load" /\ stage' = "elf"
    BY <1>1, <1>7 DEF FileRead, Within
  <2>2. LoadLeft = m - k + 2 /\ LoadLeft' = 1 BY <1>1, <2>1 DEF LoadLeft
  <2> QED BY <2>2
<1>8. CASE load_elf_kernel
  <2>1. stage = "elf" /\ stage' \in {"entered", "halted"} BY <1>8 DEF load_elf_kernel
  <2>2. LoadLeft = 1 /\ LoadLeft' = 0 BY <2>1 DEF LoadLeft
  <2> QED BY <2>2
<1> QED BY <1>3, <1>4, <1>5, <1>6, <1>7, <1>8 DEF Load

\* The guards of load_kernel_from_disk's loop leave no file out but those it cannot reach.
LEMMA LoadGoesOn ==
  ASSUME Sound, Scanned, Within
  PROVE  stage = "load" => (j < TotBlock /\ j < Reach) \/ j = TotBlock \/ TotBlock > Reach
<1> SUFFICES ASSUME stage = "load"
             PROVE  (j < TotBlock /\ j < Reach) \/ j = TotBlock \/ TotBlock > Reach
  OBVIOUS
<1>1. Types /\ Working BY Shapes DEF Sound, DInv, SInv, TInv
<1>2. found \in 1 .. Inodes /\ j \in 0 .. TotBlock BY DEF Scanned, Read
<1>3. PICK t \in Nat : t = TotBlock BY <1>1, <1>2, OwnerType DEF TotBlock
<1>4. PICK m \in Nat : m = Reach BY ReachType
<1>5. PICK k \in Nat : k = j /\ k <= t /\ k <= m BY <1>2, <1>3, <1>4 DEF Within
<1> QED BY <1>3, <1>4, <1>5

\* The loader never reads on and on, whatever the image: each of its steps uses up one of at
\* most E + Reach + 3, and between two blocks it can go on, or is through, or is at a file that
\* is larger than its loop can reach.
THEOREM LoadBounded ==
  LoaderSpec =>
    /\ [](stage = "load" => (j < TotBlock /\ j < Reach) \/ j = TotBlock \/ TotBlock > Reach)
    /\ [][/\ LoadLeft \in 0 .. E + Reach + 3
          /\ Load => LoadLeft' < LoadLeft]_allvars
<1>1. LoaderInit => Sound /\ Scanned /\ Within BY InitSound DEF LoaderInit, Within
<1>2. Sound /\ Scanned /\ Within /\ [LoaderNext]_allvars => (Sound /\ Scanned /\ Within)'
  BY LoaderStep, StepSound, StepScan, StepWithin
<1>3. Sound /\ Scanned /\ Within =>
        (stage = "load" => (j < TotBlock /\ j < Reach) \/ j = TotBlock \/ TotBlock > Reach)
  BY LoadGoesOn
<1>4. Sound /\ Scanned /\ Within =>
        /\ LoadLeft \in 0 .. E + Reach + 3
        /\ Load => LoadLeft' < LoadLeft
  BY LeftCounted, LeftShrinks
<1> QED BY <1>1, <1>2, <1>3, <1>4, PTL DEF LoaderSpec
===============================================================================
