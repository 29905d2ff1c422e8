\* Three names, files of two sizes, at most one tool killed.
CONSTANTS
  Name = {a, k, z}
  Kernel = k
  Later = {z}
  Lens <- MCLens
  D = 1
  P = 2
  E = 3
  Blocks = 16
  Inodes = 5
  Polled = 15
  MaxKills = 1
SPECIFICATION LoaderSpec
\* The model ends where poll finds no clear bit, and with the loader.
CHECK_DEADLOCK FALSE
INVARIANT TypeOK
INVARIANT BlocksApart
INVARIANT CountsSafe
INVARIANT EntriesSound
INVARIANT FirstBlockNames
INVARIANT FindsKernel
PROPERTY LoadEnds
