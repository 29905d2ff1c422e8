-------------------------------- MODULE Myfs ---------------------------------
(***************************************************************************)
(* tools/mkmyfs/controller.cc and block_bitmap.cc: the tool that writes    *)
(* files into the root directory of a disk image, in one block group.      *)
(*                                                                         *)
(* The image is mapped shared, so each store is on the image at once and   *)
(* whatever a tool that is killed has stored stays there.  A step is a     *)
(* stretch of stores between which a kill makes no difference; Kill says   *)
(* what it may leave of an allocation.  Nothing repairs an image.          *)
(*                                                                         *)
(* A block is seen as pointers, as directory entries or as file data,      *)
(* according to what was stored in it; a cleared block is empty as each.   *)
(***************************************************************************)
EXTENDS Integers, FiniteSets, Sequences

CONSTANTS Name,      \* file names
          Lens,      \* the sizes of files, in blocks
          D,         \* direct pointers of an inode, 12
          P,         \* pointers per block, 512
          E,         \* directory entries per block, 8
          Blocks,    \* DATA_BLOCKS_PER_GROUP
          Inodes,    \* INODE_PER_GROUP
          Polled,    \* the bits of a bitmap that poll looks at, 4096
          MaxKills   \* bound on the number of tools killed

ASSUME MyfsAssumption ==
  /\ D \in Nat \ {0} /\ P \in Nat \ {0} /\ E \in Nat \ {0}
  /\ Blocks \in Nat \ {0, 1} /\ Inodes \in Nat \ {0}    \* format takes as many
  /\ Polled \in Nat \ {0, 1} /\ MaxKills \in Nat
  /\ Lens \subseteq Nat \ {0}    \* main cannot map an empty file
  /\ \/ Inodes < (P + 1) * E     \* each entry has an inode of its own, so that
     \/ Polled < (P + 1) * E     \* list_dic_entry never goes beyond pt1
  /\ Inodes <= D + P + P * P     \* and the root never needs more than pt2;
  /\ \/ Polled <= D + P + P * P  \* for a longer file there are no bits
     \/ \A l \in Lens : l <= D + P + P * P

Root == 1
NoName == "."   \* the root's own entry

\* get_data_block_ptr(0) is the memory in front of the first block.
Block == 0 .. Blocks

NoEntry == [name |-> NoName, inum |-> 0]
NoData  == <<0, 0>>
Cleared == [ptr |-> [i \in 0 .. P - 1 |-> 0], ent |-> [i \in 0 .. E - 1 |-> NoEntry],
            data |-> NoData]
NewInode == [bytes |-> 0, tot |-> 0, direct |-> [i \in 0 .. D - 1 |-> 0],
             pt1 |-> 0, pt2 |-> 0]

VARIABLES
  ifree, ibits,   \* free_inode_count; the inode bitmap, as the set of inodes
  dfree, dbits,   \* free_data_block_count; the data bitmap, as a set of blocks
  inode,          \* the inode table: `bytes` counts entries in the root, blocks
                  \* in a file; `tot` is tot_size in blocks
  block,          \* the data blocks
  pc,             \* where the tool is, or "idle" when none runs
  name, len,      \* write_file's parameters
  n, i,           \* its locals finode and i
  owner, dnum,    \* append_data_block's parameters
  kills,          \* auxiliary: the tools killed so far
  done            \* auxiliary: the files whose write_file has returned

image  == <<ifree, ibits, dfree, dbits, inode, block>>
locals == <<name, len, n, i, owner, dnum>>
vars   == <<image, pc, locals, kills, done>>

\* controller::format of a zeroed image: the root's inode, a data block that
\* mk_root_dir allocates and never uses, and one for the root's own entry.
Init ==
  /\ ifree = Inodes - 1 /\ ibits = {Root}
  /\ dfree = Blocks - 2 /\ dbits = {1, 2}
  /\ inode = [k \in 1 .. Inodes |->
                IF k = Root THEN [NewInode EXCEPT !.bytes = 1, !.tot = 1, !.direct[0] = 2]
                            ELSE NewInode]
  /\ block = [b \in Block |->
                IF b = 2 THEN [Cleared EXCEPT !.ent[0] = [name |-> NoName, inum |-> Root]]
                         ELSE Cleared]
  /\ pc = "idle"
  /\ name = NoName /\ len = 0 /\ n = 0 /\ i = 0 /\ owner = 0 /\ dnum = 0
  /\ kills = 0 /\ done = {}

-----------------------------------------------------------------------------
(* allocate_inode, allocate_data_block *)

\* block_bitmap::poll: the first clear bit among those it looks at.  Where there
\* is none the code goes on with block 0 or inode 0: the model ends there.
FirstClear(bits, k) ==
  k \in 1 .. Polled /\ k \notin bits /\ \A j \in 1 .. k - 1 : j \in bits

\* Faulty variant: the count is not lowered.
TakeBlock_NoCount(b) ==
  /\ dfree > 0 /\ b \in 1 .. Blocks /\ FirstClear(dbits, b)
  /\ dbits' = dbits \cup {b}
  /\ UNCHANGED <<dfree, ifree, ibits>>

TakeBlock(b) ==
  /\ dfree > 0 /\ b \in 1 .. Blocks /\ FirstClear(dbits, b)
  /\ dfree' = dfree - 1
  /\ dbits' = dbits \cup {b}
  /\ UNCHANGED <<ifree, ibits>>

\* Faulty variants: the count is not looked at; the bit is not set.
TakeInode_NoCheck(k) ==
  /\ k \in 1 .. Inodes /\ FirstClear(ibits, k)
  /\ ifree' = ifree - 1
  /\ ibits' = ibits \cup {k}
  /\ UNCHANGED <<dfree, dbits>>

TakeInode_NoBit(k) ==
  /\ ifree > 0 /\ k \in 1 .. Inodes /\ FirstClear(ibits, k)
  /\ ifree' = ifree - 1
  /\ UNCHANGED <<ibits, dfree, dbits>>

TakeInode(k) ==
  /\ ifree > 0 /\ k \in 1 .. Inodes /\ FirstClear(ibits, k)
  /\ ifree' = ifree - 1
  /\ ibits' = ibits \cup {k}
  /\ UNCHANGED <<dfree, dbits>>

-----------------------------------------------------------------------------
(* list_dic_entry, get_file_data_ptr *)

\* The entries of a block up to the first empty one.
EntriesOf(b) ==
  {block[b].ent[k] : k \in {j \in 0 .. E - 1 : \A m \in 0 .. j : block[b].ent[m].inum # 0}}

FullOf(b) == \A k \in 0 .. E - 1 : block[b].ent[k].inum # 0

\* The root's entries as list_dic_entry sees them: after the first block it goes
\* on with the blocks behind pt1, and ends at the first that is not full.  With
\* pt1 = 0 it reads block 0, which is empty.
Listed ==
  LET first == inode[Root].direct[0]
      p1 == block[inode[Root].pt1].ptr
      reached(k) == p1[k] # 0 /\ \A j \in 0 .. k - 1 : p1[j] # 0 /\ FullOf(p1[j])
  IN  IF first = 0 THEN {}
      ELSE IF ~FullOf(first) THEN EntriesOf(first)
      ELSE EntriesOf(first) \cup UNION {EntriesOf(p1[k]) : k \in {j \in 0 .. P - 1 : reached(j)}}

\* A block that holds file data yields no block number when it is read as
\* pointers.
Pointers(b) == block[b].data = NoData

\* The block that the code takes for block k of the file.
FileBlock(ind, k) ==
  LET k2 == k - D - P
  IN  CASE k < D                -> ind.direct[k]
        [] k \in D .. D + P - 1 -> block[ind.pt1].ptr[k - D]
        [] OTHER                -> LET idx1 == block[k2].ptr[k2 \div P]
                                   IN  block[idx1].ptr[k2 - idx1 * P]

\* Where FileBlock follows only block numbers.
Follows(ind, k) ==
  k >= D + P => /\ k - D - P \in Block /\ Pointers(k - D - P)
                /\ LET idx1 == block[k - D - P].ptr[(k - D - P) \div P]
                   IN  Pointers(idx1) /\ k - D - P - idx1 * P \in 0 .. P - 1

-----------------------------------------------------------------------------
(* write_file *)

\* write_file's locals end with it.
Leave == pc' = "idle" /\ name' = NoName /\ len' = 0 /\ n' = 0 /\ i' = 0 /\ owner' = 0 /\ dnum' = 0

WriteFile == \E f \in Name, l \in Lens :
  /\ pc = "idle"
  /\ name' = f /\ len' = l
  /\ pc' = "inode"
  /\ UNCHANGED <<image, n, i, owner, dnum, kills, done>>

AllocateInode == \E k \in 1 .. Inodes :
  /\ pc = "inode"
  /\ TakeInode(k)
  /\ n' = k
  /\ pc' = "init"
  /\ UNCHANGED <<inode, block, name, len, i, owner, dnum, kills, done>>

InitInode ==
  /\ pc = "init"
  /\ inode' = [inode EXCEPT ![n] = [NewInode EXCEPT !.bytes = len]]
  /\ pc' = "names"
  /\ UNCHANGED <<ifree, ibits, dfree, dbits, block, locals, kills, done>>

\* Faulty variant: the name is not looked for.
SameFile_Never == FALSE

SameFile == \E e \in Listed : e.name = name

\* Once file data lies in front of the first block (FileBlock can lead there),
\* list_dic_entry may take it for pointers: the model ends.

\* The name is taken: write_file returns, and the inode stays allocated.
NameTaken ==
  /\ pc = "names" /\ Pointers(0) /\ SameFile
  /\ Leave
  /\ UNCHANGED <<image, kills, done>>

NameFree ==
  /\ pc = "names" /\ Pointers(0) /\ ~SameFile
  /\ pc' = IF inode[Root].bytes % E = 0 THEN "dirblock" ELSE "entry"
  /\ UNCHANGED <<image, locals, kills, done>>

\* allocate_data_block for a full directory,
AllocateDirBlock == \E b \in 1 .. Blocks :
  /\ pc = "dirblock"
  /\ TakeBlock(b)
  /\ block' = [block EXCEPT ![b] = Cleared]
  /\ owner' = Root /\ dnum' = b
  /\ pc' = "append"
  /\ UNCHANGED <<inode, name, len, n, i, kills, done>>

\* and for the next block of the file.
AllocateFileBlock == \E b \in 1 .. Blocks :
  /\ pc = "blocks" /\ i < len
  /\ TakeBlock(b)
  /\ block' = [block EXCEPT ![b] = Cleared]
  /\ owner' = n /\ dnum' = b
  /\ pc' = "append"
  /\ UNCHANGED <<inode, name, len, n, i, kills, done>>

\* Where the entry goes: into the block just appended, or behind the others.
EntryBlock ==
  IF inode[Root].bytes % E = 0 THEN dnum
                               ELSE FileBlock(inode[Root], inode[Root].bytes \div E)

StoreEntry ==
  /\ pc = "entry"
  /\ block' = [block EXCEPT ![EntryBlock].ent[inode[Root].bytes % E] =
                 [name |-> name, inum |-> n]]
  /\ pc' = "bytes"
  /\ UNCHANGED <<ifree, ibits, dfree, dbits, inode, locals, kills, done>>

CountEntry ==
  /\ pc = "bytes"
  /\ inode' = [inode EXCEPT ![Root].bytes = @ + 1]
  /\ i' = 0
  /\ pc' = "blocks"
  /\ UNCHANGED <<ifree, ibits, dfree, dbits, block, name, len, n, owner, dnum, kills, done>>

BlocksDone ==
  /\ pc = "blocks" /\ i = len
  /\ i' = 0
  /\ pc' = "data"
  /\ UNCHANGED <<image, name, len, n, owner, dnum, kills, done>>

\* One block of data, to where get_file_data_ptr finds it.
StoreData ==
  /\ pc = "data" /\ i < len /\ Follows(inode[n], i)
  /\ block' = [block EXCEPT ![FileBlock(inode[n], i)].data = <<n, i>>]
  /\ i' = i + 1
  /\ UNCHANGED <<ifree, ibits, dfree, dbits, inode, pc, name, len, n, owner, dnum, kills, done>>

Return ==
  /\ pc = "data" /\ i = len
  /\ done' = done \cup {n}
  /\ Leave
  /\ UNCHANGED <<image, kills>>

-----------------------------------------------------------------------------
(* append_data_block *)

Tot   == inode[owner].tot
Idx1  == (Tot - D - P) \div P

\* The indirect block on the way to the new pointer that is still missing.
NeedsPt1 == Tot \in D .. D + P - 1 /\ inode[owner].pt1 = 0
NeedsPt2 == Tot >= D + P /\ inode[owner].pt2 = 0
NeedsPtr == Tot >= D + P /\ inode[owner].pt2 # 0 /\ block[inode[owner].pt2].ptr[Idx1] = 0

AllocateIndirect == \E b \in 1 .. Blocks :
  /\ pc = "append"
  /\ TakeBlock(b)
  /\ \/ /\ NeedsPt1 /\ inode' = [inode EXCEPT ![owner].pt1 = b]
        /\ block' = [block EXCEPT ![b] = Cleared]
     \/ /\ NeedsPt2 /\ inode' = [inode EXCEPT ![owner].pt2 = b]
        /\ block' = [block EXCEPT ![b] = Cleared]
     \/ /\ NeedsPtr /\ UNCHANGED inode
        /\ block' = [block EXCEPT ![b] = Cleared, ![inode[owner].pt2].ptr[Idx1] = b]
  /\ UNCHANGED <<pc, locals, kills, done>>

\* Faulty variant: the index in the indirect block is counted from the start.
Link_NoOffset ==
  \/ /\ Tot < D
     /\ inode' = [inode EXCEPT ![owner].direct[Tot] = dnum] /\ UNCHANGED block
  \/ /\ Tot \in D .. D + P - 1
     /\ block' = [block EXCEPT ![inode[owner].pt1].ptr[Tot % P] = dnum] /\ UNCHANGED inode
  \/ /\ Tot >= D + P
     /\ LET b == block[inode[owner].pt2].ptr[Idx1]
        IN  block' = [block EXCEPT ![b].ptr[Tot - D - P - Idx1 * P] = dnum]
     /\ UNCHANGED inode

\* The new block's number is stored,
Link ==
  \/ /\ Tot < D
     /\ inode' = [inode EXCEPT ![owner].direct[Tot] = dnum] /\ UNCHANGED block
  \/ /\ Tot \in D .. D + P - 1
     /\ block' = [block EXCEPT ![inode[owner].pt1].ptr[Tot - D] = dnum] /\ UNCHANGED inode
  \/ /\ Tot >= D + P
     /\ LET b == block[inode[owner].pt2].ptr[Idx1]
        IN  block' = [block EXCEPT ![b].ptr[Tot - D - P - Idx1 * P] = dnum]
     /\ UNCHANGED inode

StorePointer ==
  /\ pc = "append" /\ ~NeedsPt1 /\ ~NeedsPt2 /\ ~NeedsPtr
  /\ Link
  /\ pc' = "tot"
  /\ UNCHANGED <<ifree, ibits, dfree, dbits, locals, kills, done>>

\* and counted.
CountBlock ==
  /\ pc = "tot"
  /\ inode' = [inode EXCEPT ![owner].tot = @ + 1]
  /\ i' = IF owner = Root THEN i ELSE i + 1
  /\ pc' = IF owner = Root THEN "entry" ELSE "blocks"
  /\ UNCHANGED <<ifree, ibits, dfree, dbits, block, name, len, n, owner, dnum, kills, done>>

-----------------------------------------------------------------------------
\* The tool is killed.  In the middle of an allocation it may have counted the
\* block or inode down, and may have set its bit, without having stored where
\* it belongs.
Kill ==
  /\ pc # "idle" /\ kills < MaxKills
  /\ \/ UNCHANGED <<ifree, ibits, dfree, dbits>>
     \/ /\ pc = "inode" /\ ifree > 0 /\ ifree' = ifree - 1 /\ UNCHANGED <<ibits, dfree, dbits>>
     \/ /\ pc \in {"dirblock", "blocks", "append"}
        /\ pc = "blocks" => i < len
        /\ pc = "append" => NeedsPt1 \/ NeedsPt2 \/ NeedsPtr
        /\ \/ dfree > 0 /\ dfree' = dfree - 1 /\ UNCHANGED <<ifree, ibits, dbits>>
           \/ \E b \in 1 .. Blocks : TakeBlock(b)
  /\ kills' = kills + 1
  /\ Leave
  /\ UNCHANGED <<inode, block, done>>

Next == \/ WriteFile \/ AllocateInode \/ InitInode \/ NameTaken \/ NameFree
        \/ AllocateDirBlock \/ AllocateFileBlock \/ StoreEntry \/ CountEntry
        \/ BlocksDone \/ StoreData \/ Return
        \/ AllocateIndirect \/ StorePointer \/ CountBlock
        \/ Kill

Spec == Init /\ [][Next]_vars

-----------------------------------------------------------------------------
(* bootloader/kloader.c: load_kernel_from_disk *)

\* The block the loader reads as block j of a file.
LoadedBlock(ind, j) ==
  LET k2 == j - D - P
  IN  CASE j < D                -> ind.direct[j]
        [] j \in D .. D + P - 1 -> block[ind.pt1].ptr[j - D]
        [] OTHER                -> block[block[ind.pt2].ptr[k2 \div P]].ptr[k2 % P]

-----------------------------------------------------------------------------
(* Properties *)

\* Each variable has its type.
TypeOK ==
  /\ ifree \in 0 .. Inodes /\ ibits \subseteq 1 .. Inodes
  /\ dfree \in 0 .. Blocks /\ dbits \subseteq 1 .. Blocks
  /\ inode \in [1 .. Inodes -> [bytes : Nat, tot : Nat, direct : [0 .. D - 1 -> Block],
                               pt1 : Block, pt2 : Block]]
  /\ block \in [Block -> [ptr : [0 .. P - 1 -> Block],
                          ent : [0 .. E - 1 -> [name : Name \cup {NoName}, inum : 0 .. Inodes]],
                          data : (0 .. Inodes) \X Nat]]
  /\ pc \in {"idle", "inode", "init", "names", "dirblock", "append", "tot", "entry",
             "bytes", "blocks", "data"}
  /\ name \in Name \cup {NoName} /\ len \in Lens \cup {0}
  /\ n \in 0 .. Inodes /\ i \in Nat /\ owner \in 0 .. Inodes /\ dnum \in Block
  /\ kills \in 0 .. MaxKills /\ done \subseteq 1 .. Inodes

\* The blocks an inode holds, each with its place: the blocks counted in tot at
\* 0, 1, ..., and the indirect ones at -1, -2, ...
Held(k) ==
  LET ind == inode[k]
  IN  {<<k, j, LoadedBlock(ind, j)>> : j \in 0 .. ind.tot - 1}
      \cup (IF ind.pt1 = 0 THEN {} ELSE {<<k, -1, ind.pt1>>})
      \cup (IF ind.pt2 = 0 THEN {}
            ELSE {<<k, -2, ind.pt2>>}
                 \cup {<<k, -3 - m, block[ind.pt2].ptr[m]>> :
                        m \in {q \in 0 .. P - 1 : block[ind.pt2].ptr[q] # 0}})

AllHeld == UNION {Held(k) : k \in ibits}

\* Every block that an allocated inode holds, as data or as pointers, is a real
\* block, is marked in the bitmap, and is held in one place only, also after
\* tools were killed anywhere (allocate_data_block, append_data_block).
BlocksApart ==
  /\ \A h \in AllHeld : h[3] \in dbits
  /\ \A g, h \in AllHeld : g[3] = h[3] => g = h

\* The free counts of the group never promise more than the bitmaps have, and
\* each killed tool can make them lose one at most.
CountsSafe ==
  /\ Blocks - Cardinality(dbits) - dfree \in 0 .. kills
  /\ Inodes - Cardinality(ibits) - ifree \in 0 .. kills

\* The places of the root's blocks that hold an entry.
Entries ==
  {s \in {<<LoadedBlock(inode[Root], j), k>> : j \in 0 .. inode[Root].tot - 1, k \in 0 .. E - 1} :
     block[s[1]].ent[s[2]].inum # 0}

\* Every entry of the root names an inode that is allocated, no two the same,
\* and the root's size counts them: a tool killed between storing an entry and
\* counting it leaves one too many, never one too few (add_dir_entry).
EntriesSound ==
  /\ \A s \in Entries : block[s[1]].ent[s[2]].inum \in ibits
  /\ \A s, t \in Entries : block[s[1]].ent[s[2]].inum = block[t[1]].ent[t[2]].inum => s = t
  /\ Cardinality(Entries) - inode[Root].bytes \in 0 .. (IF pc = "bytes" THEN kills + 1 ELSE kills)

\* No name is twice in the root's first block, the one the boot loader searches
\* (find_kernel_file_and_read), whatever was killed: write_file's look for the
\* name sees that block whole.
FirstBlockNames ==
  LET ent == block[inode[Root].direct[0]].ent
  IN  \A k, m \in 0 .. E - 1 : ent[k].inum # 0 /\ ent[m].inum # 0 /\ ent[k].name = ent[m].name
                              => k = m
=============================================================================
