------------------------------- MODULE Loader --------------------------------
(***************************************************************************)
(* bootloader/kloader.c: what the boot loader makes of an image that       *)
(* mkmyfs has written.  It looks for the kernel in the first block of the  *)
(* root directory and reads the file block by block to KERNEL_FILE_BASE.   *)
(* A machine may boot whenever no tool runs, after any files were written  *)
(* and any tools killed; from then on the image does not change.           *)
(***************************************************************************)
EXTENDS Myfs

CONSTANTS Kernel,   \* KERNEL_NAME
          Later     \* the names that follow it in the order of strings

ASSUME LoaderAssumption == Kernel \in Name /\ Later \subseteq Name \ {Kernel}

VARIABLES
  stage,    \* where the loader is, or "off"
  slot,     \* find_kernel_file_and_read's i
  found,    \* ind_num, the inode it loads
  j,        \* load_kernel_from_disk's j
  memory    \* the blocks read, in order

loader  == <<stage, slot, found, j, memory>>
allvars == <<vars, loader>>

LoaderInit == Init /\ stage = "off" /\ slot = 0 /\ found = 0 /\ j = 0 /\ memory = <<>>

Write == stage = "off" /\ Next /\ UNCHANGED loader

\* The root's inode and its first block are read.  The test of the signature
\* before that always holds here, as every image is one that the tool has
\* formatted; Boot has the loader that stops at it.
PowerOn == /\ stage = "off" /\ pc = "idle"
           /\ stage' = "scan" /\ slot' = 0
           /\ UNCHANGED <<vars, found, j, memory>>

First == block[inode[Root].direct[0]].ent

\* Faulty variant: ld_strcmp's result is not inverted.
Matches_Other(f) == f \in Later

\* ld_strcmp returns 0 for every name that does not come before KERNEL_NAME.
Matches(f) == f \in Later \cup {Kernel}

\* One turn of find_kernel_file_and_read's loop.
NextEntry == /\ stage = "scan" /\ slot < E /\ First[slot].inum # 0
             /\ ~Matches(First[slot].name)
             /\ slot' = slot + 1
             /\ UNCHANGED <<vars, stage, found, j, memory>>

KernelFound == /\ stage = "scan" /\ slot < E /\ First[slot].inum # 0
               /\ Matches(First[slot].name)
               /\ found' = First[slot].inum
               /\ stage' = "load" /\ j' = 0
               /\ UNCHANGED <<vars, slot, memory>>

\* The caller goes on to jump to address 0.
KernelMissing == /\ stage = "scan"
                 /\ slot = E \/ First[slot].inum = 0
                 /\ stage' = "missing"
                 /\ UNCHANGED <<vars, slot, found, j, memory>>

\* tot_size / BLOCK_SIZE
TotBlock == inode[found].tot

\* The bound of the last arm of load_kernel_from_disk's loop, which lacks the P
\* blocks of the single indirect one.  Beyond it the loop goes round for ever.
Reach == D + P * P

\* Faulty variant: double indirect blocks are left out.
ReadBlock_Single == /\ stage = "load" /\ j < TotBlock /\ j < D + P
                    /\ memory' = Append(memory, block[LoadedBlock(inode[found], j)].data)
                    /\ j' = j + 1
                    /\ UNCHANGED <<vars, stage, slot, found>>

\* One block of the file, direct or behind pt1 or pt2: in the inner loops k and
\* l follow j.
ReadBlock == /\ stage = "load" /\ j < TotBlock /\ j < Reach
             /\ memory' = Append(memory, block[LoadedBlock(inode[found], j)].data)
             /\ j' = j + 1
             /\ UNCHANGED <<vars, stage, slot, found>>

FileRead == /\ stage = "load" /\ j = TotBlock
            /\ stage' = "elf"
            /\ UNCHANGED <<vars, slot, found, j, memory>>

\* load_elf_kernel: the kernel is entered, or what was read is no ELF file.
load_elf_kernel == /\ stage = "elf"
                   /\ stage' \in {"entered", "halted"}
                   /\ UNCHANGED <<vars, slot, found, j, memory>>

Load == NextEntry \/ KernelFound \/ KernelMissing \/ ReadBlock \/ FileRead \/ load_elf_kernel

LoaderNext == Write \/ PowerOn \/ Load

\* The loader goes on executing; nobody has to write files or to boot.
LoaderSpec == LoaderInit /\ [][LoaderNext]_allvars /\ WF_loader(Load)

-----------------------------------------------------------------------------
(* Properties *)

\* A file whose write_file has returned is what load_elf_kernel gets to see,
\* block for block, whatever was written or killed before and after it, if it
\* needs no double indirect block; and a kernel in the first block of the root,
\* behind no name that ld_strcmp takes for it, is the file that is loaded.
FindsKernel ==
  /\ stage = "elf" /\ found \in done /\ inode[found].bytes <= D + P
       => memory = [k \in 1 .. inode[found].bytes |-> <<found, k - 1>>]
  /\ \A s \in 0 .. E - 1 :
       /\ First[s].inum # 0 /\ First[s].name = Kernel
       /\ \A r \in 0 .. s - 1 : First[r].name \notin Later
       => /\ stage # "missing"
          /\ stage \in {"load", "elf"} => found = First[s].inum

\* The loader comes to an end, whatever the image: it enters a kernel, halts, or
\* finds none, unless the file is larger than its loop can reach.
LoadEnds == stage = "scan" ~> \/ stage \in {"entered", "halted", "missing"}
                              \/ stage = "load" /\ TotBlock > Reach
=============================================================================
