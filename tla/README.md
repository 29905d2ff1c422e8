# TLA+ verification of ARCUS

ARCUS is a small x86-64 kernel with its own bootloader and a host tool, `mkmyfs`, that writes the disk
image it boots from. The repository has no tests. This directory holds TLA+ modules of its parts, TLC
configurations that check them on small instances, and TLAPS proofs for every value of the constants.
Paths below are relative to the repository; `kernel/` is `src/kernel/`.

## The system

| Part | Where | State | Operations | Hard about it |
|---|---|---|---|---|
| lists | `kernel/include/list.h` | `prev`/`next` pairs inside structs | `list_add(_after)`, `list_del` | four stores, no lock, cut off by the timer |
| page allocator | `kernel/memory/page_allocator.cc` | bitmap, a ring and a counter per order, `page->type` | `alloc_pages`, `free_pages` | bitmap, rings and orders have to agree after any history of splits and merges |
| slab allocator | `kernel/memory/slab.cc` | caches, slab fields of `struct page`, links inside free objects | `kmem_alloc/free`, `kmalloc`, `kfree` | which page serves a cache; objects over two pages |
| scheduler | `kernel/task`, `kernel/interrupt/timer.cc`, `isr_entry.asm` | task ring, `cur_task`, contexts, clock, deadlines | tick, `kthread_create`, `sleep` | a tick between any two statements of a thread |
| boot memory | `kernel/memory/mem_block.cc`, `mmap.cc` | e820 entries, page tables, `struct page` array | `init_memblock`, `mblock_allocate`, `alloc_all_over_memory`, `populate_vmemmap_range` | interval arithmetic; pages that back the page array |
| interrupts, init | `kernel/interrupt/idt.cc`, `kernel/init/init.cc` | vectors, handlers | `init_kernel`, dispatch | order of initialisation |
| other processors | `kernel/cpu`, `bootloader/boot.asm`, `kernel/entry.asm` | stacks by APIC id, `bsp_cpu_id`, `bsp` | INIT, SIPI, `ap_main`, `loader_main`, `kernel_entry` | every processor runs the same code, at once; ids at the limit |
| spinlock, printk | `kernel/cpu/spinlock.cc`, `kernel/io/printk.cc`, `bootloader/print.c` | ticket bytes, screen, two cursors | `spin_lock`, `printk`, `ld_print` | the ticket is not drawn atomically; three ways to move the cursor |
| bootloader | `bootloader/` | memory map, memory image | `memory_detect`, `loader_main` | the firmware's answers; reads what `mkmyfs` wrote |
| image tool | `src/tools/mkmyfs` (host) | superblock, bitmaps, inodes, blocks | format, write file, list | a block tree shared with the loader |

Interaction. `init_kernel` calls the parts in a fixed order: `init_memblock` reads the e820 map,
`init_buddy` empties the page allocator, `init_mem_page` builds page tables with pages from
`mblock_allocate` and hands every usable frame to `free_pages`, `init_kmem_cache` makes the slab caches
above `alloc_pages`, `init_task` takes its first task from `kmalloc`, and the timer starts to call
`schedule`. Slab calls the page allocator; the scheduler calls slab; the timer interrupt cuts into all of
them. Nothing takes a lock but `printk`.

## Modules

| Module | Models | Role |
|---|---|---|
| `ListHead` | `list.h` | operators on a function from elements to links; `IsRing` |
| `PageAlloc` | - | what the page allocator promises: frames, blocks handed out, when it may fail |
| `Buddy` | `page_allocator.cc`, the populate loop of `mmap.cc` | one action per loop turn; implements `PageAlloc` |
| `Induction` | - | the least element of a set of numbers, induction, and what follows for folds and for sequences put together |
| `Buddy_proofs`, `Slab_proofs`, `Sched_proofs`, `Boot_proofs`, `Loader_proofs`, `Printk_proofs`, `Vmemmap_proofs` | - | theorems of `Buddy`, `Slab`, `Sched`, `Boot`, `Loader` with `Myfs`, `Printk`, and `Vmemmap` with `Memblock` |
| `Slab` | `slab.cc` over `PageAlloc` | one action per call |
| `Sched` | `task.cc`, `sched.asm`, `timer.cc`, timer path of `isr_entry.asm` | one action per tick, one per statement of a thread that shares state |
| `Memblock` | `mem_block.cc`, `memory_detect` of `boot.asm` | operators on lists of regions, with reference definitions |
| `Vmemmap` | `mmap.cc` over `Memblock` | boot memory set-up, one action per range and per page |
| `Myfs` | `mkmyfs/controller.cc`, `block_bitmap.cc` | `write_file`, one action per stretch of stores that a kill can separate |
| `Loader` | `bootloader/kloader.c` on top of `Myfs` | the search for the kernel and the loop that reads it, from every image `Myfs` can leave |
| `Console` | - | what the text console promises: each call's text appears whole, formatted, scrolled |
| `Printk` | `printk.cc`, `spinlock.cc`, `bootloader/print.c` | one action per iteration, per character, per half of a ticket draw; implements `Console` |
| `Boot` | `boot.asm`, `loader_main`, `entry.asm`, `kernel_entry.cc`, `init.cc`, `boot_ap.asm`, ticks | all processors from reset to `hlt` |
| `MCBuddy`, `MCSlab`, `MCSched`, `MCVmemmap`, `MCLoader`, `MCPrintk`, `MCBoot` | - | instances for TLC |

### Buddy

A page frame number stands for its `struct page`. `bitmap` is the set of frames whose bit is set,
`nr_free`, `free_lst`, `lru`, `type` are the code's fields. `listed` is auxiliary: it records which pages
were put on the list of each order, so that `FreeListsAreRings` can say that following `lru` gives exactly
those. A call is `AllocStart` or `FreeStart`, then one step per turn of its loops (`SkipOrder`,
`TakeLarger`, `Split`, `SplitEnd`, `Merge`) and a return. `PopulatePage` is the boot loop, which hands over
the usable frames in ascending order before the first `alloc_pages`. The early return of `alloc_pages` for
an order beyond the limit changes nothing and is left out. The physical links of a page that was never
listed are uninitialised in the code and `Unlinked` here; no step reads them.

`remove_page_from_free_list` does not move `free_lst` when the page it removes is the one `free_lst` points to
and others stay. The next user of that list follows links of a page that is not on it; the code then
computes a `struct page` address from a null pointer. `HeadLost` names this state. The steps that follow the
head have `~HeadLost` as a guard: the model ends there (`AtLostHead`), and the run `buddy_head` shows that the
state is reached. All other properties and all proofs are about every history up to that point.

### Slab

Addresses are numbers and an object is the bytes it covers, so overlap is visible. `page` has the slab
fields of `struct page`, `link` the word inside a free object. `Slab` uses `PageAlloc` for `alloc_pages` and
`free_pages`, that is what `Buddy` is proved to implement. `kmalloc` is `kmem_alloc_first` (the cache has no
page) or `kmem_alloc_partial`; `kfree` is `kmem_free` (`Drain` when the last object comes back, else
`PutBack`), `kfree_page`, or `kfree_second` for an object that starts in the second page of a slab. The model ends with the
last one and stops serving a cache whose `partial` is not usable any more: the code then reads through null or
works on a page that is not its own. `lru` has `page->lru`: a ring of its own when the page comes from the page allocator, null once
`list_del` has taken the full page out, and, when an object comes back to it, whatever `list_add_after(&pg->lru, &cache->partial->lru)` makes of it (`Relink`).
As `cache->partial` still is that very page, `list_add_after` follows a null `next` and stores a `prev` at address 0, which the identity map has and no
`struct page` lies at; the page comes out as a ring of its own again. `CountsMatch` says that a slab page is linked, to itself, exactly while it has an object to give. Left out:
`kmem_create_slab`, and the stores through a null page when `alloc_pages` failed.

### Sched

One processor. A handler runs with interrupts off from `isr32` to `iretq`, so `Tick` is one action: clock,
end of interrupt, `schedule`, `switch_task`. The exception is a thread that has never run: `popfq` turns
interrupts on before the new stack pointer is loaded, so `Tick` ends there and `EnterThread` is the rest.
`kthread_create` is cut at each access to shared links (`Create`, `ReadNext`, four stores), `sleep` at the clock
read, the store of the deadline and each test. `cpu = "astray"` is a thread resumed with a stack that another
one has reused; nothing is modelled beyond it. `kmalloc` returns a fresh task; that it may fail is the null
hazard of `PROJECT.json` (`slab.cc:115`). `pid` is left out (nothing reads it), and a thread's function does not return. `Garbage` is what
uninitialised `sleep_time` may hold.

### Memblock and Vmemmap

`Memblock` translates `memory_detect` as the list of entries it stores for a report of the firmware (a sequence of answers, each with
a carry and a continuation), `sanitize_e820_entries` as its sort, exchange by exchange, and a `Sweep` over the sorted end points, `init_memblock` as a filter
and a clip, and the two allocators as operators on one region each, because both look for the first region that
serves. Addresses are bytes; `limit` is a length, as in the code, and the one subtraction that may wrap is taken
modulo `Word`. `TypeAt` is the reference that `sanitize` is compared with. A report of a single answer, or one that begins
with a carry, is taken for a failure; the `hlt` behind it ends with the firmware's next interrupt and the boot goes on
with an empty map, which is what `Reported` returns for it.

`Vmemmap` is the boot code that calls them; `report` is what the firmware answered. `MapLow` is the identity map; `NextRange` is a turn of the loop of
`init_sparse_vmemmap` up to the ranges it populates (the gap before the region, the region, each only if
`populate_vmemmap_range` does anything with it); `PopulatePage` is a turn of that function's loop: map the page, map the
next page of the struct array if the struct reaches into it, free the frame if it is RAM. `MapPage` allocates the tables that
are missing on the way. `taken` collects what `mblock_allocate` returned. A null from it ends the model (`Fed`).

`StructBacked` leaves out the lowest frame of the array: the code maps the page in which that frame's struct *ends*, so
the page it begins in stays unmapped when the struct straddles two pages (frame numbers 85 and 170 modulo 256 at 48 bytes
a struct) or ends exactly with one (255). 512 MB, where the array begins on nearly all machines, is none of these.

Two things the code expects and does not test are assumptions on the constants. `RegionAssumption`: regions above the identity map begin and end on
page boundaries (for others `populate_vmemmap_range` would give a frame to the allocator in part), and a region that begins
below the end of the identity map is, without the pages its tables took, at least as long as that map, or the subtraction in `alloc_all_over_memory` wraps around
(see the findings). `VmemmapAssumption`: the array of struct pages lies above all that is mapped one to one (`VMEME_MAP_BASE` in the
code), and a struct page is smaller than a page.

### Myfs

The image is mapped shared and changed in place, so the state is the image: free counts, the two bitmaps as sets, the
inode table, the blocks. A block is seen as pointers, as entries or as data, depending on what was stored. Lengths
are in blocks, except that the root's `bytes` counts entries. `write_file` runs through `AllocateInode`, `InitInode`, the
look for the name (`NameTaken`, `NameFree`), `AllocateDirBlock` when the directory is full, `StoreEntry`, `CountEntry`, then per
block `AllocateFileBlock`, `append_data_block` (`AllocateIndirect` as often as needed, `StorePointer`, `CountBlock`), and
`StoreData` per block. `Kill` may come before any of them and inside an allocation, after the count or after the bit; a step
holds only stores between which a kill changes nothing that is read again. Stores reach the file in any case (the process is killed, not the
machine).

`Listed` is what `list_dic_entry` returns: after a full first block it goes straight to `pt1`. So names in direct
blocks 2 to 12 are not seen and `FirstBlockNames` is about the first block only, the one the loader searches. That
an entry behind `pt1` is the last thing it can reach is an assumption on the constants, true for the real ones
(4096 inodes polled, 513 * 8 entries).

`FileBlock` is `get_file_data_ptr` as written, including its wrong double indirect case. The model ends where `poll` finds no clear bit (the code goes on with block 0), and
after data went to the memory in front of the first block, once the tool would read it as pointers.
One block group: the tool gets to a second one only when the first group's count is zero, and `poll` gives up long before.

### Loader

`Loader` extends `Myfs`: while `stage` is "off" tools write and are killed; `PowerOn` boots from what is on the disk between two
of them, and the image stays as it is from then on. `NextEntry`, `KernelFound` and `KernelMissing` are turns of
`find_kernel_file_and_read` over the first block of the root, `ReadBlock` a block of `load_kernel_from_disk`. `Matches` is
`ld_strcmp` by its effect: it returns 0 for the kernel's name and for every name that sorts behind it. `Reach` is the bound of the
loop's last arm, `D + P * P` where the file's layout allows `D + P + P * P`; beyond it no arm applies and the loop goes round for ever,
which is why `LoadEnds` leaves out larger files. `load_elf_kernel` ends in a jump to the kernel or in `hlt`.

### Printk and Console

`Console` is the promise: a stack of rows and a cursor, and every call of `ld_print` or `printk` puts its whole text behind the text
of the calls before it. A call is a sequence of pieces, a literal, a control character or a directive with its argument; `Shown` says what the
reader gets, `Digits` what a number looks like. It is written from the outside: it has neither a lock, nor a format string, nor a buffer.

`Printk` is the code: `Pattern` spells a call as a format string, `Loop` is one iteration of `printk` over it, `Put` one call of
`putc`, `Log` a call of the loader's `ld_print` (nothing runs beside the loader). `vmem` is the text buffer and `idx` the cursor, which
begins at 0 again in the kernel because the two programs have a variable each. The lock is modelled as compiled without optimisation: `LoadTail`
reads `tail`, `StoreTail` writes it back increased, and a ticket is what was read; `LoadHead` and `StoreHead` are the unlock. When two
draws overlap (`torn`) two callers have the same ticket, and the model stops: the run shows what holds until then, and `PROJECT.json` names
the hazard. `ImplementsConsole` maps the screen as it was when the lock was taken to that of `Console` while a caller is inside,
so that a call is a single step there. `%ud` is as in the code: its flag stays set until the next long directive (`printk.cc:139`).
The calls are those whose arguments fit their directives (`CallAssumption`): a literal is no `%` or control character, a string ends where it ends, and
no negative number for `%ld` comes behind a `%ud` in one call, which would be printed without its sign. An `int` for the loader is not negative: its division gives no digits for
one. `CallerAssumption` says that there are no more callers than tickets, as with eight processors and 256 tickets.

### Boot

`at` says where each processor is. The boot processor goes from `Start` through `loader_main` and `_start` to `KernelEntry`, the
steps of `init_kernel`, and `start_multi_core` (`SendInit`, `SendSipi`, `Welcome`); the others wait until a SIPI puts them into `ApMain`
and then run the same actions. All processors run at once. The tests of `bsp_cpu_id` (`loader_main`) and `bsp` (`KernelEntry`) and the stores that claim them
(`ClaimLoader`, `ClaimKernel`) are separate steps, as `get_apic_id` comes in between: any processor may run there, and `OneInitialises` says that none gets that far. `InitMemory` is one step, since `Vmemmap`, `Buddy` and `Slab` have its
inside; the rest of `init_kernel` is cut wherever a tick would find something else: no gate, a table of handlers that is
not cleared, no task, no handler. `find_kernel_file_and_read` succeeds, finds no kernel, or stops, by `disk`.

`Tick` after the last step lets the boot processor out of its `hlt` (which is not in a loop) to "astray", where the model says no more of it.
The second SIPI is not one: `sleep` leaves the clock in `eax`, so the command written names an illegal vector. Each other processor thus has
one chance to start; the model assumes that the INIT before has put it to waiting by then.

## Runs

| Run | Result | Question |
|---|---|---|
| `buddy_api` | pass | every history of calls on 8 frames, orders 0..2, a hole at frame 5 |
| `buddy_head` | violation of `AllocTakesFreePage` | can `free_lst` point outside its list when it is used? |
| `sched` | pass | three threads that create each other and sleep |
| `boot_sleep` | violation of `SleepsAsAsked` | does the boot thread's `sleep(10)` last 10 ms? |
| `slab` | pass | two caches and whole pages over four frames |
| `slab_full` | violation of `PartialUsable` | does a cache go on after its page is full or empty? |
| `slab_second` | violation of `ReleasedWhenEmpty` | is a slab page in use ever given back? |
| `vmemmap` | pass | boot on 299 reports of the firmware: maps with overlaps and gaps, and failures |
| `boot_straddle` | violation of `AllHandedOut` | is all memory of a region that straddles the identity map's end used? |
| `loader` | pass | any number of files written, a tool killed anywhere, a boot after any of them |
| `printk` | pass | two callers of `printk` with every directive on a screen that scrolls |
| `boot` | pass | five processors from reset to `hlt`, with ticks |

Bounds. Eight frames and three orders give merges over two levels, a block that can never be complete
because of the hole, two blocks of the largest order on one list (so that a head can be lost), and failure with
free memory left. Three tasks are the least for an insertion cut off by a tick in which a second thread inserts
at the same place while a third waits. Time stops at `MaxMs`, for the clock and for deadlines alike (`TimeLeft`), or a lone sleeper would be counted down by a clock that no
longer goes up; a sleep starts only if its deadline and one more tick lie below the bound, so the bound never keeps a sleeper from waking. `Word` is 2^20 there and in `boot`,
far above any clock: a deadline that wraps around is out of reach, as with 2^64. The arguments of `sleep` are less than a period, one period, and no multiple of it. Objects of 3 and 6 bytes in
pages of 8 leave a remainder at both ends of a block and one object over the page boundary, as 96-byte objects
do in pages of 4096; four frames let both caches have a block, and fail.
Pages of 7 bytes and structs of 2 make every fourth or so struct straddle two pages, as 48 in 4096 do; low memory is 22
pages, and two regions of 1 or 3 pages at three places, of two types, touch, overlap, nest and leave gaps. The region of main memory ends with
low memory or 18 pages above it, far enough that the wrong length does not wrap. In `loader` a block holds two pointers or three entries and an inode one direct pointer; a file of `D + P`
blocks needs the single indirect block, one of `D + P * P + 1` every kind and is one block longer than the loader reaches. Three entries per block and three names
(one before the kernel's, one behind) put the third file into the root's second block, and let a further one repeat its name there; five inodes and 15
polled blocks run out; one kill is one crash at every point, followed by further writes. Two kills
give nothing that the lost block or entry of one does not (`CountsSafe` and `EntriesSound` are stated for any number).
In `printk` two ticket values wrap around with the second call, a screen of two rows of three cells is filled, scrolled and left by a newline at
each column, a base of 256 instead of 2^64 shows how negative arguments are printed; one call is longer than `MaxLen` and dropped. In `boot` the ids are 0
(whose real-mode stack the boot processor begins on), 1 (the boot processor), 7, 8 (which `jle` lets pass) and 9 (which
it does not); the two sleeps ask for 10 and 20 ms, and time stops at 30 ms but for a sleep whose deadline has not passed.

No symmetry: frames, ids and names are ordered, and the boot task is special.

Fairness. `Buddy`: `WF(Step)`, a call that has begun is executed to its end; no caller has to call.
`Sched`: `SF(Tick)`, the timer is hardware and ticks whenever interrupts are on at last; `SF` of a thread's own
steps, because a period (5 ms) is so much longer than a handler that a thread which gets turn after turn
also executes; nobody has to create a thread or to sleep. `Prompt = TRUE` says that a handler ends before the
next tick; without it TLC finds `RingKept` violated, see Findings.
`Loader`: `WF` of the loader's steps; nobody has to write or to boot. `Printk`: `WF` of each caller's steps, that is, every thread
gets the processor again and again. `Boot`: `WF` of every processor and of the timer, both hardware.
`CHECK_DEADLOCK FALSE` where a model ends on purpose (lost head, unusable cache, stray page, an image without a clear bit, torn draws, all calls made, all processors halted).

## Proofs

`Buddy_proofs` proves for every number of orders and frames, every set of usable frames and every history:

* `Invariance`: `Spec => []IInv`; from it `TypeCorrect`, `RingsIntact`, `BitmapSound`, `NoFrameLost`, `AlwaysCoalesced`,
  `FailureSound`.
* `Refinement`: `Spec => ImplementsPageAlloc`; each step is a step of `PageAlloc` or a stutter.

The argument. The listed properties are not inductive: `free_pages` trusts two things that no one of them says, that
every block is aligned to its size, and that two free buddies are never both on a list (else a merge would find a set
bit and no listed page). `IInv` adds alignment, the ranges of the locals at each `pc`, that blocks tile the bitmap, and
`Complete`: every aligned run of free frames lies in one listed block, but for the block the current call holds.
The first part of the module shows that inserting and deleting turn rings of `ListHead` into rings; the second has the arithmetic once (an aligned block and its buddy are the halves of an aligned
block; aligned blocks nest or are apart) and how splitting, merging, taking and giving change a tiling. Then there is one lemma per action.
The assumptions are those of `Buddy` on its constants: `Size` doubles from 1, larger sizes are multiples of smaller ones,
`Null` is no frame.

`HeadsSurviveBoot`, that is `HeadKeptUntilFree`, follows from it. While memory is populated, in ascending order, the head of each list is its lowest page and
every listed page lies below the one in hand (`HeadsKept`); a merge then takes the highest page of a list, which is the head only when it is alone.
Afterwards `alloc_pages` takes the page behind the head. The first call of `free_pages` out of that order ends the argument, and the run `buddy_head` shows that it must.

`Boot_proofs` proves `OneInitialises`, `StacksApart` and `InterruptsServed` for every set of ids, every boot processor, every size
of the stack areas and every timing. Its `IInv` has three parts. `Order` is the order of the start: no other processor is awake before the
boot processor is behind its second command, and by then `bsp_cpu_id` and `bsp` are set, so the tests of the others fail. `Stacks` says which of
its three stacks a processor is on, and that the boot processor is on its kernel stack, not on the one of id 0, whenever another is awake. `SetUp` is
what ticks rely on at each stretch of `init_kernel`. That the stacks are apart is then arithmetic of slots cut from the top of two areas, under `StackAssumption`:
each id that may start has its slot above address 0, and the kernel's area lies above the other, the numbers in `boot.asm` and `entry.asm`.

`Sched_proofs` proves `TypeOK`, `RingKept`, `NoOvertaking` and `SleepsInCompany`, for every number of threads, every period
and clock bound, under `Prompt`: a handler ends before the next tick, as in the runs (the findings say what happens without). That no thread is resumed on a reused stack is part of
the invariant, and nothing more than that assumption: a tick at the only place that could make it so is what `Prompt` excludes.
`RingKept` alone is not inductive, since a tick can cut off any number of threads between two stores of `list_add`, and a thread
that was cut off goes on much later. `IInv` adds what makes that harmless: new threads are nobody else's (`Members`), the variables `head` and `nxt` of a creator still name
its neighbours whatever others inserted elsewhere (`Halfway`), and the links backwards have a gap only behind a thread that is in the middle of adding (`Backwards`). That the ring is one
cycle is `OneCycle`: no smaller set of linked threads is closed under `next`. `Contexts` says where each thread will be resumed. For the sleep,
`Deadlines` says that the clock is a whole number of periods and that `sleep_time` of a sleeper that was never alone is still what it set. Two readings of the clock that are k ticks apart
are certain to be k - 1 periods apart (`Certain`), and a clock of whole periods that has passed a deadline has passed the next whole period (`WholePeriods`): so `SleepLasts`, at least what was asked for if that is
whole periods, less than a period short otherwise.
`RoundRobin` proves `NoOvertaking` as well, for finitely many threads. A place in the ring is computed by a recursive walk, so this needs induction, see below: the walk from the
current thread meets every linked one (the set of those it meets is closed under `next`, so `OneCycle` makes it everything), and inserting a thread in front of its
creator, the current one, puts it behind everybody on the way round.

`Slab_proofs` proves `TypeOK`, `ObjectsApart` and `CountsMatch` for every number of caches and pages, every page size and all object sizes up to a page.
The objects of a block lie on a grid (`Grid`): `Capacity` shows by division that as many as `init_slab_page_freelist` counts end within the block, `GridApart` that two of them do not overlap.
`IInv` adds that blocks given by the page allocator are apart (`BlocksApart`), that a slab page begins one of them (`Slabs`), that objects lie on the grid
of a page of their cache (`Held`), that `freelist` leads through the free ones (`Chains`), and which links each slab page has (`Linkage`: inserting next to a page and unlinking it are followed store by store, from null links too). `Chains` is said with a sequence that exists, not
with one that is computed: taking, putting back and linking a new page each only shorten, extend or begin the sequence. `FreeListsWhole` then shows by induction that the recursive walk of `FreeObjectsLinked`
is that sequence. The counters follow by
the cardinality of the sets they count. Assumed of the constants: an object is at most a page, `Null` is no cache and no address.
All but types and `ObjectsApart` end where `strayed` is set, which is the finding of the run `slab_second`.

`Loader_proofs` begins with the tool: it proves every safety property of `Myfs` for images of any size, any files, and any number of tools killed anywhere. `MyfsAssumption` says what is needed of the constants, and the
numbers of the code satisfy it: an inode reaches `D + P + P * P` blocks (12 + 512 + 512 * 512), more than the 4096 bits that `poll` looks at, and the root reads `(P + 1) * E` names (513 * 8), also more. The argument comes in layers,
each inductive with the ones before it:

* `SInv`, for `NeverShared`. `BlocksApart` speaks of the blocks counted in `tot`; it holds only because the block being appended is stored first and counted after, is held by nobody meanwhile (`Unheld`, `Appended`), and because
  the indirect blocks on the way to every counted block are there (`Shaped`): through a missing one `append_data_block` would write into the memory in front of the first block. `Progress` ties `i`, the counts and the allocated inodes together, so that no table is overrun.
  Whether a pointer, a row of pointers or a count is stored, only one place of one inode changes what it holds; the lemmas before `StepS` say that once for each kind of store.
* `DInv`, for `NamesApart` and `EntriesKept`. The blocks of the root are not written by files: `StoreData` beyond `D + P`, which goes to wrong blocks (see Findings), does not change `ent`, and below that it goes to a block of its own file. The entry that is being stored has its
  place: behind all others, or over the one that a killed tool left uncounted. `FirstBlock` adds that the name which `write_file` carries was looked for in the whole first block; `Listing` that entries fill the blocks in order, each with an inode of its own, and that what the root's size lacks was lost by a killed tool.

Two corrections came out of these proofs: arms of `CASE` that overlapped, where TLA+ leaves the choice open, are disjoint now; and the model needed `format`'s own demands on the image (`Blocks` above 1, `Inodes` above 0) written down.

Its second part proves `KernelWhole`, that is `FindsKernel`, on every image that `Myfs` can leave. The search is simple once `NamesApart` and `Layout` are there: the entries seen have no gap, so the loop does not stop before the kernel, and
no second file has its name (`Scanned`). The file is harder, since it must come back as it was written although `get_file_data_ptr` sends the data of larger files to wrong blocks. Three parts, again about the tool:

* `TreesInv` says where such data goes. To reach it the code reads pointers in block `i - D - P`, whatever that is. Only indirect blocks have pointers (`Trees`), `poll` leaves out no bit (`Prefix`), so what an indirect block behind `pt2` leads to was allocated after
  it and has a larger number; multiplied by `P`, that number puts the last index out of range, unless it is 0. So the data goes to block 0, the memory in front of the first block (`FarStore`), where it hurts nobody's file, or the code leaves the image, where the model ends.
* `Whole` says of the files whose `write_file` has returned that their blocks hold their data, if they need no double indirect block, and `Writing` the same of the blocks written so far. Blocks that are counted stay where they are and nobody else stores data in them (`LoadedStays`, `DataStays`, `DataStored`).
* `Read`: the blocks in memory are those of the file, in order.

`Printk_proofs` proves the refinement: `Refines`, that is `ImplementsConsole`, and with it `TypeOK` and the mutual exclusion of the lock (`Exclusion`), for every screen
of at least two rows and columns, every set of calls that fit, any number of callers up to `Mod`. Two invariants.

* `IInv` is about tickets. Those drawn and not yet served are a run of consecutive numbers modulo `Mod` that starts at `head` and ends before `tail` (`Order`), each held by one caller, so the caller
  whose ticket is `head` is alone, and the load and the store of `head++` cannot be separated by anybody else's. A draw that overlaps another sets `torn`.
* `TInv` is about the caller inside (`Halfway`): the pieces of its call that are done are on the screen, except for the characters still in `out`, and the loop's position, its arguments and its flags are what the rest of the call needs (`Prints`).
  A piece of one character, of two and of four in the format string each have their lemma; what `%ud` leaves behind is part of it.

Below them are lemmas on operators, which hold for all data. `putc`, `putn` and the loader's `ld_putc` on the text buffer are `PutChar` and `NextRow` on rows and cursor (the screen `AsScreen` makes of the buffer); a fold over a text or a format string is a
fold over its pieces one after the other; and the digits that a conversion stores from the last to the first are `Digits` in reading order.

Induction over data. No operator can be instantiated in the library's induction theorems with the provers at hand, so `Induction` states it of sets: from the library's fact that the finite sets are well-founded under inclusion it proves that every
set of natural numbers that is not empty has a least element, and that a set with 0 and all successors is everything. That is enough for the recursive functions of `Slab`, `Sched` and `Printk`, and for folds over sequences: some function satisfies the
recursive equation, and two that do agree, or there were a least argument where they differ.

`Vmemmap_proofs` proves `MapWhole`, that is `MapSanitized`: for every report of the firmware, of any number of answers that the table has room for (a region's two ends may each begin an entry, so half the table,
`ReportAssumption`), the regions that `sanitize_e820_entries` makes of it are sorted and disjoint and give each address the worst type that was reported. Nothing is enumerated; the steps are those of the code.

* `SortSorts`: the exchanges of `sort_end_points` put the least of the points that are left to each place in turn, and only rearrange. At one address an end of a region comes before a beginning, because regions are not empty.
* `OpenCovers`: after each point of the sorted list, the regions in `overlap_list` are those that cover the addresses up to the next point.
* `Whole`, the invariant of the sweep: the entries completed, with the one that is open, give each address below the point in hand its worst type, in ascending order; behind the last point nothing is open.

From there the boot code is proved for any number of regions, any page size, fan-out and struct size (`RegionAssumption`, `VmemmapAssumption`). `TypeCorrect`, `NoPageTwice`,
`ArrayBacked`, `Seamless` and `NothingLost` follow from one inductive invariant, `VInv`, because none of them is inductive alone: that a page is not taken twice depends on where every entry begins, and so does what is left to be handed out.
It compares the entries with the regions they started as (`Regions`, which `RegionsTold` relates to the firmware's report).

* Memory (`MemoryInv`): an entry is what is left of its region (`Rests`); the pages taken lie in front of what is left of a region of RAM (`Fronts`), they are different (`Distinct`) and account for all that is gone from a high region (`Used`, `Spent`).
* A step that allocates only wears regions off from the front, by as many pages as there are calls (`Grows`); `map_virt_to_phy_early` takes one for each missing table (`MapPageGrows`), and the identity map as many as there are tables (`LowMaps`), which is why the first region handed out is long enough.
* `Untouched`: what is left of a region above the identity map lies behind the last range handed out, so ranges come in ascending order. `Queue`: those that wait follow each other up to its end, and a page is taken off the front (`QueueShrinks`).
* `Lays` and `Backed`: the frames populated are an interval that ends where the first waiting range begins, and the array is mapped up to the page in which the last one's struct ends. One more page is enough for one more frame, because a struct is smaller than a page (`BackedNext`).
* `Gives`: what went to `free_pages`, or is about to, is RAM that no entry has any more. `Fills`: nothing of a region that was handed out is in neither place.

That the page tables lie in memory that is mapped (`TablesReachable`), and that `mblock_allocate` has a page whenever it is called (`NeverStarved`), the code takes for granted: both need RAM below the end of the identity map for every page the
boot code ever takes. The theorems state how much that is, of the firmware's report alone. `Need(n)` counts, for frames below `n`, the pages of the struct array (`ArrayTo`) and the tables on the way to those and to the frames (`TablesFor`);
`LowSuffices(report)` says that no populated frame is above some `n` and that one region of RAM has room for `Need(n)` pages between the kernel and `Low`. The second invariant, `WInv`, adds `Reach` to `VInv`:

* `Tally`: no more pages have been taken than there are tables and array pages, because a table is paid for when it is missing (`MapTally`) and each array page is mapped once (`Straight`: it lies beyond `backed`).
* `Bounded`: the tables and array pages present are among those that `Need` counts, because a frame that is populated is above the identity map and below `n` (`FrameWithin`), and structs lie in the order of their frames (`BackingWithin`).
* `Calm`: as long as no more than `Need(n)` pages have been taken, none was missing and all lie below `Low`. First fit takes from the region with room or from one before it, which is lower (`DrawLow`), and a range that is handed out leaves what is below `Low` (`CutSits`).

For the kernel's constants, 32 GB of memory need about 113400 pages, 443 MB of the 512 MB that the identity map has: the condition is not idle, and it is near its limit. In the run, 297 of the 299 reports meet it; the other two report no memory at all.

Only model-checked: all liveness (`CallsReturn`, `Starts`, `SleepEnds`, `LoadEnds`, `AllStart`), because fairness and `ENABLED` are out of the prover's reach. Every safety property that a passing run checks is a theorem.

For three sequential parts, what such an argument needs besides fairness is proved, for every value of the constants:

* `CallsBounded`: each step of a call of the page allocator uses up one of at most `2 * MaxOrderCnt + 3` (`StepsLeft`), so its loops over the orders end whatever the lists look like.
* `LoadBounded`: each step of the boot loader uses up one of at most `E + Reach + 3` (`LoadLeft`), and the guards of `load_kernel_from_disk`'s loop leave it stuck at no file but one that is larger than its last arm reaches.
* `BootShrinks`: each turn of `init_sparse_vmemmap`'s loop but the last takes a region from those that wait, each turn of `populate_vmemmap_range`'s writes a struct page that was not there, of a frame below `MAX_SUPPORT_MEM`, and neither is undone: booting takes
  no more turns than there are regions and supported page frames, and one to find none left.

## Findings

Each violation run is one; `PROJECT.json` quotes the lines. In short: `free_pages` can lose the head of a list;
a lone thread sleeps about half the time it asked for; a cache is stuck once its page is full or released; `kfree` of an object
in the second page of a slab gives that page away; memory at the end of a region that straddles 512 MB is not used.

Three more that TLC shows when a bound or a premise of a passing run is taken away:

* `switch_task` turns interrupts on (`popfq`, `sched.asm:41`) before it has loaded the new stack pointer, and `idt.cc:119` has sent the
  end of interrupt already. With `Prompt = FALSE` in `MCSched.cfg`, that is with a tick pending by then, `RingKept` fails: the old stack is saved as the new thread's context.
* `get_file_data_ptr` (`controller.cc:241`) does not follow the double indirect layout that `append_data_block` builds. Without the
  bound `bytes <= D + P`, `FindsKernel` fails: the data of larger files goes to wrong blocks.
* A lone thread's `sleep` need not return. The deadline is lowered by a period while it is not zero (`task.cc:17-18`), so one between 0 and a period wraps around to 2^64 less a little.
  Without its premise, that the sleeper has company or asked for whole periods, `SleepEnds` fails: `sleep(3)` at 0 ms, and one tick.

Others were met while reading and are modelled as they are, or stand outside the models: `kloader.c:125` copies sections that are not
loaded at run time to address 0; `kloader.c:91` loops for ever on a large file; `loader_main` jumps to address 0 when there is no kernel;
`ld_strcmp` takes every name that sorts behind `KERNEL_NAME` for it, among them the `arcus_kernel` of the Makefile (the constant is spelled `arcus_kerenl`);
`controller.cc:65` takes a sector number for a byte offset; `slab.cc:35` does not test for null; `slab.cc:112` parses as a comparison of the sum;
`mem_block.cc:90` lets one entry past the array's end; `mmap.cc:28` uses a null from `mblock_allocate` as page 0; `%d` prints a negative number as 2^64 less
its value; 256 waiting callers would share a ticket; the `hlt` of `entry.asm` is not in a loop;
`boot.asm:195` says that eight processors are supported, as `__MAX_CPU` does, and lets nine ids pass: id 8 gets a kernel stack below the 65536 bytes that `entry.asm:34` reserves, over other data of
`.bss`. `AllStart` demands a start of ids below `MaxCpu` and nothing of id 8; `StacksApart` compares stacks with each other only. `sleep` gives less than it is asked for in company too, if the argument is no
whole number of periods: `sleep(12)` may end a little more than 10 ms after it was called (`SleepsInCompany` says by how much); `slab.cc:74` follows a null link and stores at address 0.

## Not modelled

Port programming, the entries of the descriptor tables, page flags, the mode switches of `boot.asm` and the polling of the disk: pure I/O or
hardware without state to interleave. `memset`, `strlen` and the constructor stubs. The copying of ELF sections, which `load_elf_kernel` does byte
by byte from headers the linker wrote. Two callers inside the allocators at once: no thread is created in the tree and
the allocators take no lock, so two callers break every invariant at once and nothing is promised of them.
The listing commands, several block groups and triple indirect blocks of `mkmyfs`, and a tool killed during `format`.

## Plan

1. Preempted callers of `Buddy`, should the kernel come to create threads; `Vmemmap` handing its frames to `Buddy` in one model.
