# A specification of GuavaOS

TLA+ modules that model the core of the kernel, TLC configurations that check
them on small instances, and proofs, checked by TLAPS, of what matters most for
every instance. `PROJECT.json` lists the runs, the lines of C and assembly each
definition stands for, the mistaken variant that each property catches, and the
hazards. Paths are relative to the repository; the kernel is in `src/src/`,
the user program in `src/programs/`, and below `heap.c:104` stands for line 104
of the file of that name.

## The system

GuavaOS is a 32-bit x86 kernel with one processor, one disk, and one program. It
is single-threaded: every gate of its interrupt table is an interrupt gate, so a
handler runs to its end, and the kernel itself runs only before the first
program starts. Its difficulties are therefore not races between threads. They
are: the heap running out in the middle of an operation; structures that outlive
a failed operation; which page directory is loaded when memory is touched; what
the processor does between the program and a handler; integers and indices at
their limits.

| Component | Source | State | Operations | What makes it correct |
|---|---|---|---|---|
| Kernel heap | `memory/heap/` | one byte of flags per 4K block | `kmalloc`, `kzalloc`, `kfree` | ranges in use are disjoint, lie inside the heap, and the flags say where each ends |
| Paging | `memory/paging/` | directories and tables, themselves heap blocks | `paging_new_4gb`, `paging_map_to`, `paging_get`, `paging_set`, `paging_free_4gb`, `paging_switch` | an address maps where the last mapping said |
| Processes and tasks | `task/process.c`, `task/task.c` | process array, task list, current process and task | `process_load_switch`, `task_new`, `task_free` | a published process has its own memory, tables and image, whatever failed before or after |
| Traps and commands | `idt/`, `isr80h/`, `task/task.c`, `task/task.asm` | loaded directory, ring, saved registers | `int 0x80` (sum, print), interrupts, exceptions | commands read the program's memory through its directory, leave it as it was, and return |
| Keyboard | `keyboard/` | a ring per process | interrupt handler, `keyboard_push`, `keyboard_pop`, `keyboard_backspace` | keys come out in order, each once |
| Open files, paths | `fs/file.c`, `fs/pparser.c` | registered file systems, descriptor table, path structures | `fs_init`, `fopen`, `fclose`, `fstat` | a number stands for one open file until it is closed; the parts of a path are its text |
| FAT16 | `fs/fat/fat16.c` | the root directory, items, directories, positions | mount, open, close, `fseek`, `fread` | the file found is the one named; the bytes read are the file's |
| Disk, streamer | `disk/` | the disk's file system, position in the disk | `disk_search_and_init`, `diskstreamer_read`, `disk_read_sector` | a disk with the signature is mounted; bytes come from the position asked for |
| Terminal and kernel start | `kernel.c` | video memory, cursor, how far the start has come | `print`, `panic`, `kernel_main` | the screen shows what was printed, and printing writes nowhere else; a good disk leads to the program |
| GDT, TSS | `gdt/`, `task/tss.asm` | constant descriptors | encoded and loaded once | the processor reads what the table says |
| Strings | `string/`, `memory/` | none | `tolower`, `istrncmp`, `strnlen_terminator` and others | names compare whatever their case |
| Boot loader | `boot/boot.asm` | none that survives | loads the kernel | |
| User program | `programs/blank/` | its stack and memory | commands | external |

How they interact: all structures of paging, tasks, processes, paths and files
are allocations of the kernel heap, so that one mistake there, or one freed
block still in use, would corrupt any other component. `process_load` calls the
file system, the heap and paging in a fixed order. A trap switches to the kernel's
directory, saves the registers in the current task, runs a command or a callback
and switches back; `copy_string_from_task` switches on its own, twice. The
keyboard's callback writes to the buffer of the current process. Nothing else is
shared, and there are no messages.

## The modules

| Module | What it is |
|---|---|
| `BlockAllocator` | abstract: what an allocator of whole blocks promises |
| `Heap` | `heap.c`, `kheap.c`; `MCHeap` instantiates it |
| `HeapProofs` | theorems about `Heap` |
| `Paging` | extends `Heap`: page directories and tables in heap blocks |
| `FileTable` | abstract: a table of open files |
| `Files` | extends `Heap`: `fopen` and `fclose` down to each allocation; `MCFiles` |
| `Process` | extends `Paging` and `Files`: the loading of processes; `MCProcess` |
| `Trap` | extends `Process`: the running program, traps, commands; `MCTrap` |
| `KeyQueue` | abstract: a bounded queue of keys |
| `Keyboard` | `ps2.c`, `keyboard.c`; `MCKeyboard` |
| `KeyboardProofs` | theorems about `Keyboard`, which implements `KeyQueue` |
| `Fat16` | `fseek` and `fread` down to each sector; `MCFat16` |
| `Names` | strings, paths and the names of directory items, as characters |
| `Mount` | extends `Names`: file systems, the disk, its root directory and the search in it |
| `Terminal` | the video memory and `print` |
| `Gdt` | segment descriptors as encoded and as the processor reads them |
| `Kernel` | extends `Terminal`, `Mount` and `Gdt`: `kernel_main`; `MCKernel` |
| `GdtProofs`, `KernelProofs` | theorems about `Gdt` and `Kernel` |
| `FilesProofs` | extends `HeapProofs`: theorems about `Files`, which implements `FileTable` |
| `Fat16Proofs` | theorems about `Fat16` |
| `ProcessProofs` | extends `FilesProofs`: theorems about `Process` |
| `TrapProofs` | extends `ProcessProofs`: theorems about `Trap` |

Three of them implement an abstract specification through a refinement mapping:
`Heap` implements `BlockAllocator` (`KeepsPromise`), `Keyboard` implements
`KeyQueue` (`KeepsOrder`), `Files` implements `FileTable` (`KeepsNumbers`).

A definition named `D_Variant` is `D` with a plausible mistake in it; no
specification uses it. It is there to show that the properties notice: in `D`'s
place it breaks the property that `PROJECT.json` names beside it.

### Heap

`entries` is the table, a set of flags per block. `past` collects the indices
beyond the table's end that marking has written, since the code has no bound
check. `live` is a ghost: who was given what; `asked` is another, the length of the last
request, which ties a refusal to what was refused in the promise of
`BlockAllocator`. `zeroed` is the memory that `kzalloc` cleared in the last step. A
request is an atomic action, since nothing can interrupt it.
`StartBlock` states what `heap_get_start_block` finds, and `Scan` is its loop;
`ScanIsFirstFit` says that they agree on every table reached and every length.
When there is no run long enough the loop still leaves the start of the free run
at the end of the table, and the code returns it; a request for 0 blocks, asked
for directly or by a size that wraps in 32 bits, always ends that way. The module
models both, and every property below holds in spite of them but `InsideHeap`.

An address has 32 bits, and memory goes round like them (`Memory`): blocks are
numbered from the heap's start, and the last `HeapPage` of the `AddressBlocks` blocks
are those below the heap, with the kernel, its stacks and the table. A size whose
rounding wraps to 0 is granted without a mark, and `memset` (`kheap.c:48`) then clears
almost the whole address space, other callers' memory included; it always
reaches the kernel, which is what the second half of `ZeroesOnlyItsOwn` says, and the
first half that whenever it does not, it clears nobody else's. Marks beyond the
table reach the kernel's image too, at `table->entries[i]` from i = `ImageEntry` on
(`heap.c:129`). What the machine does after either is anybody's guess: `KernelIntact`
guards `Next`, and the model stops there. Until then
ranges are told apart by the numbers of their blocks without going round: a range so
long that it went round would have marked the kernel first.

### Paging and Process

Memory is counted in pages of one heap block. A directory, a table or a chunk is
kept by the block it lives in, which may be the null pointer where the code does
not check an allocation. `MapTo` is `paging_map_to`.

`Process` takes `process_load_switch` one allocation at a time, in the order of
the code: process, file, program data, stack, task, directory, each table,
chunk, then the list and the two mappings. At each allocation the heap may be
exhausted, because the boot code has filled it to an arbitrary height
(`BootInit`) and because earlier loads have taken, or leaked, their share.
What happens next is what the code does then: an error, a write through a null
pointer, a wrong free, or a load that goes on with an error pointer for a task.
Page 0, where null pointers lead, is memory like
any other, and what `task_free` then reads there is what was written last.
`wild` records that the kernel has mapped through an error pointer, or freed what
it found at page 0 with no directory behind it; from then on the content of
memory is unknown, every property of the module but the types of the model's own
variables (`LoadTypeOK`) is silent, and when control is lost too (`pc = "lost"`) the
model stops.

The program file is opened and closed by the steps of `Files` (`OpenFile`,
`FopenRuns`, `CloseFile`), on the same heap: a load meets every way in which
`fopen` fails or loses memory, including a number whose slot is empty. The size
is the one `fstat` gives, and `fread`, whose subject is `Fat16`, refuses an empty
file and otherwise reads it or fails.

`UserImage` is the image a published process sees, page by page; `Isolation`
says that nobody else's data and nobody's tables are among what it may write;
`StructuresAlive` that nothing of it was freed; `TaskListSound` that the task
list is doubly linked. They are where a load that fails halfway could hurt
an earlier one that succeeded. `NoFileLeftOpen` says that every load, however it
ends, closes what it opened; `LoadKeepsOnlyItsOwn` that none gives back a block
that was in use before it began (`before` is the ghost that remembers them), and
that one that succeeds keeps the process it publishes, of the file its path
names, and one block for the root and two for each part of that path, which
nobody frees. The second half is about files: what `fat16_load_fat_directory`
allocates for a directory is never given back, but a directory's entry on the
disk has size 0, so that none is a program.

### Trap

One processor. `at` is where it is, `cr3` the loaded directory, `ring` its
privilege. The program does of all that a program can do what the commands look
at: it writes the words on top of its stack and the start of any page that it may
write but that one, and has its stack pointer at one of two words of it. It is not
modelled that it moves its stack pointer elsewhere, or names a string below its own
first page (`ProgramPage`) or in the middle of a page: a string is what begins a
page, and a word on the stack the distance of a page from its first. From that page
on a pointer may lead anywhere, to the kernel's stack and to the heap too. Each read of memory by the kernel goes
through `PhysOf`, the tables built by `Process` under the directory loaded at
that moment, so that a read under the wrong directory reads something else.
`copy_string_from_task` is five actions (allocate, map and switch, copy and
switch back, restore and copy, free). Its `kzalloc` clears the buffer before the
string is read, so that a pointer to the very block that becomes the buffer, which a
program can know from its last print, prints an empty string (`Empty`,
`PrintsUserString`). An interrupt frame is pushed through the
program's directory and read through the kernel's: a program large enough to
cover the page of the kernel stack makes these differ (`LoseFrame`). An
exception that pushes an error code loses the processor (`FaultWithCode`), since
the stub does not drop it. `DivideError` ends in ring 0, and is not followed any
further.

### Keyboard

The controller holds bytes and raises the interrupt while it has one. The
handler reads the port twice, and the second read may take a byte that is lost.
The ring tells an empty buffer from a full one only by the 0 in an empty slot.
`overrun` is a ghost: a key was pushed into a full ring. The promise of
`KeyQueue`, and the invariant, end there; the code does not prevent it.
`Backspace` has the guard that a key is waiting: the function tests nothing and
has no caller yet. There is one ring, because `current_process` and the current
task name the same process as long as only one program is loaded.

### Files

`fopen` is taken one allocation at a time: root of the path, string and struct of
each part, FAT descriptor, item, directory and its items, copy of the directory
entry, file descriptor. Unchecked allocations proceed as the code does: a path
that cannot be allocated ends early, a directory item or descriptor may stay
null, and what was allocated before an error is never given back. Structures are
kept by their block, so that a double use of a block would show.
The disk's root directory is a sequence of slots, deleted ones included;
the search looks at as many slots as there are names in use. The characters of a
path are abstracted to its parts, and a badly formatted path, refused before
any allocation, is `BadPath`; `Names` has the characters. `step` is where `fopen`
stands; `FopenStep` is its steps, for `FilesNext` here and for the loads of
`Process`.

### Fat16

The content of the disk does not matter: the caller's buffer is the sequence of
disk positions that its bytes were copied from, or `Stack` for a byte that came
from behind the streamer's sector buffer. `NextCluster` reads the FAT where the
code does, at the product of the position of the FAT and that of the entry, and
gets whatever is there.
`ReadsTheFile` claims the right bytes for what the code does read correctly, a
range within the first cluster in which no piece crosses a sector from
inside it (`Simple`); `FillsTheBuffer` and `ReadsEnd` are claimed for every read.

### Names, Mount, Terminal, Gdt and Kernel

These are the machine from `kernel_main` to the opening of the first program.

In `Names` a string is the sequence of its character codes. The fields of a
directory item follow each other in memory, and `ProperString` reads on as the
code does until a space or a 0: a name that fills its field takes the extension
with it, and an extension that fills its field takes the attribute, unless that
happens to be 32, the code of a space, or 0. The reserved byte behind the
attribute is taken as 0. `NamesReadAsWritten` states exactly for which items the
name read is the name written (`Plain`). `Parts` is `pathparser_parse`, whose
first empty part ends the path: `0:/z//a` is `0:/z`. `ParsesThePath` says that
nothing else is ever dropped.

`Mount` has the table of file systems, `disk_search_and_init` with
`fat16_resolve`, and the root directory as the code reads it: from the sector the
header says, as many slots as the header says, counted up to the first free one
wherever that is. A disk is a header and a directory somewhere on it; what lies
elsewhere is read as free. `FindItem` is the search, which looks at as many slots
as there are names in use and takes the last match. Where the count runs past the
copy that was read, it may find what is not there (`Unknown`).

`Terminal` has the video memory cell by cell, the screen and what follows it up to
0xC0000 (`VideoCells`). `terminal_row` leads behind the screen after `VgaHeight` rows,
behind the video memory after 205, where device memory and the BIOS lie and nothing
stays that is written, and after 1843 to the kernel at 0x100000 (`KernelCell`). Two
prints of newlines are enough for that, since a newline moves the cursor and writes nothing.
`overrun` is the ghost that a character has been written from there on; the program
then prints no more, in the model. Newlines alone can also take the row counter past
the kernel and round. `printed` is a ghost: the characters and colours of all the
text so far. `ShowsText` says, from that text alone and by counting rows, when the
kernel has been overwritten and, as long as it has not, what the video memory looks
like; it never mentions the cursor's steps. What lies at and behind `KernelCell` is
not told apart: the image, its data, the stacks.

`Gdt` has `encode_gdt_entry` and, apart from it, `Meaning`: base, limit and type
as the processor takes them from the eight bytes (external).

`Kernel` puts them in the order of `kernel_main`. `OpensByName` says which file a
path opens from the point of view of whoever wrote names and path, on the disks
where the code can tell (`Regular`): the file of that name, whatever its case,
unless deleted slots hide it, and no other. `GoodDiskOpens` is liveness: on such
a disk the start comes to open it. What happens then is `Process`; here the
program runs or its load fails, and a running one prints. The messages of `panic`
are cut short.

## The runs

Each module is checked in a configuration of its own. All the bounds are
constants of the modules or definitions of the `MC` modules.

| Run | Instance | What it shows |
|---|---|---|
| `heap` | 6 blocks in an address space of 16, the last one the kernel's, whose image the marks reach at entry 14; sizes of 0, 1, 2, 5 and 12 blocks, exact and rounded, and one that wraps | `TypeOK`, `LiveDisjoint`, `TableEncodesLive`, `ScanIsFirstFit`, `ZeroesOnlyItsOwn`, `KeepsPromise` |
| `process` | 32 blocks, 2 slots, 3 loads, 3 descriptors, tables of 20 entries, files of 0, 1 and 2 pages and a directory, any part of the heap in use at the start | `LoadTypeOK`, `UserImage`, `Isolation`, `StructuresAlive`, `TaskListSound`, `NoFileLeftOpen`, `LoadKeepsOnlyItsOwn` |
| `trap` | 1 program of 1 or 3 pages, or an empty one, 17 blocks, two words whose sum wraps and which as pointers lead to the program's second page and to the heap, two strings | `TrapTypeOK`, `ProgramSeesItself`, `PrintsUserString`, `SumIsRight`, `CommandsDoNotLeak`, `LostOnlyIf`, `TrapsReturn` |
| `keyboard` | 2 keys, a ring of 3, 8 pushes, 2 bytes in the controller | `TypeOK`, `KeysBetweenHeadAndTail`, `KeepsOrder` |
| `files` | 29 blocks, 3 slots, 4 opens and any closes, a directory with a file, a deleted slot, a subdirectory and an unreachable file | `FilesTypeOK`, `DescriptorsStandAlone`, `FopenAnswersTheFile`, `KeepsNumbers` |
| `fat16` | sectors of 4 bytes, clusters of 2; files of 1 and 3 clusters, in and out of order; sizes from 0 to more than a cluster, up to 2 items, positions up to 12 | `TypeOK`, `ReadsTheFile`, `FillsTheBuffer`, `ReadsEnd` |
| `kernel` | names of 3 and 2 characters, 12 directories of up to 5 slots on disks with 4 headers, 2 items in a sector, 14 paths of up to 13 characters, 3 tables of segments; 4 by 2 cells, video memory for 10, the kernel 14 cells behind its start, a row counter of 5, up to 8 characters by the program | `KernelTypeOK`, `ScreenShowsText`, `SegmentsMeanWhatTheySay`, `ParsesThePath`, `NamesReadAsWritten`, `MountsTheDirectory`, `OpensByName`, `GoodDiskOpens` |

Why these bounds are enough. In `heap` six blocks and these lengths suffice for a range
between two others, a trailing run shorter than a request, a full heap, a trailing
run whose marks
reach the kernel's image and one whose marks do not, memory cleared past the heap's end
with the kernel spared and with the kernel hit, and the size that clears all but
one byte of the address space. In
`process` a load keeps 14 or 15 blocks, and has four more while its file is
open, so that at the lowest starting heights two loads fit, and over all of them
every allocation of the first load and of the second is the one that fails; with
two slots, the third load meets a full array. The stack ends the first table, the program begins
the second, and the heap spans two, as in the code, where tables have 1024
entries. In `trap` the third page of the large program is the one of the kernel
stack, and a heap filled to any height makes the command's own allocation fail.
The pointer to the heap leads to the block that most heights leave for the
command's buffer, which the string it names was in before.
In `keyboard` eight pushes go round a ring of three more than twice. In `files`
four opens over three slots exhaust the table and reuse a number, and the
starting heights make each allocation of an `fopen` fail. In `fat16` the sizes
are below, at and above a sector and a cluster. In `kernel` the directories have
names and extensions that fill their fields and ones that do not, a deleted slot
in front of and between others, a gap in a name, a label, a slot that was never
used with names behind it, more slots than the header says, and no end at all;
the headers have no signature, a directory that does not fill its last sector, or
one that is not where they say. Limits of segments are at, below and above
65536. Eight characters, with double newlines, take the cursor over the end of
the screen, behind the video memory, to the kernel, and past it round the row
counter to the screen again.

Deadlock is not checked in `heap`, `process`, `trap`, `keyboard` and `kernel`: there
the system stops, when the kernel is overwritten, after the last load, in `panic` or
after a lost trap, or when the bound on pushes or on characters is reached.

### Where the code does not do what it says

Five runs each check one statement that the repository makes and TLC refutes.

| Run | Statement | What happens |
|---|---|---|
| `heap_end` | the heap has 25600 blocks (`kheap.c:11`) | with no run long enough, the trailing run is granted, and marks are written beyond the table (`heap.c:104`) |
| `process_task` | a process has a main task (`process.h:15`) | `ERROR_I(task) == 0` lets a negative error pass (`process.c:223`); the process is published with an error pointer for a task |
| `trap_ring` | the program executes in user land (`task.asm:48`) | after a division by zero it goes on in ring 0: the gate is a C function (`idt.c:72`) |
| `files_last` | descriptors start at 1, one per slot (`file.c:84`, `:102`) | the last number is refused by `file_get_descriptor` (`file.c:99`) |
| `fat16_cluster` | the correct cluster is found from the offset (`fat16.c:268`) | the FAT's position is multiplied by the entry's offset (`fat16.c:250`) |

### Fairness

Safety needs none. `TrapsReturn` assumes weak fairness of the handler's steps:
a handler is straight code that nothing interrupts, so the processor executes it.
It assumes nothing of the program. `ReadsEnd` assumes weak fairness of the
reading steps for the same reason, and that the disk controller, external, always
answers; `disk_read_sector` would wait for ever for one that does not.
`GoodDiskOpens` assumes weak fairness of the steps of `kernel_main`, straight code
too, and nothing of the program that then runs.

## The proofs

`HeapProofs`, for every number of blocks, block size, limit of sizes and set of
requests, from the assumptions in `Heap` (the block size divides the limit,
requests are below it, the null pointer is no integer; the heap ends before the
address space does, there is memory below it, and the kernel's image begins at
an entry behind the table and not behind the end of memory):

- `InvariantHolds`: `IInv`, the conjunction of `TypeOK`, `LiveDisjoint` and
  `TableEncodesLive`, is inductive. Neither of the last two is alone: the scan
  looks only at flags, so that the blocks it finds have no owner needs the encoding
  (`FreeUnowned`); that the marks of a new range, and the erasure of a released
  one, disturb no other range's encoding needs disjointness (`FreedIsOwned`).
  The trailing run, which may be shorter than the request, is covered as well:
  no range in use starts above it.
- `TypeCorrect`, `NoSharedBlock`, `TableIsFaithful` follow.
- `ZeroingIsLocal`, an action property: what `kzalloc` clears without reaching the
  kernel is not in any other caller's memory, and a size that wraps to 0 blocks
  always reaches it. It needs more of the state than `IInv`: that all that is in use
  beyond the table was marked there (`MInv`), so that as long as the kernel is intact
  every range ends in front of it; then going round cannot bring what is cleared into a range in front of it
  unless it passes the kernel on the way (`MemoryIsRun`, `MemoryReachesKernel`), and
  a size that wraps is longer than the way there (`WrappedLength`).
- `HeapKeepsPromise`: the refinement of `BlockAllocator`, initial states to
  initial states and steps to steps or stuttering.
- `ScanCorrect`: `ScanIsFirstFit`, the loop of `heap_get_start_block` finds what
  `StartBlock` says, on every table and for every length. `Scan` is a recursive
  function over the rest of the table. That it is one at all, and what it computes,
  are shown without the induction theorems: if a claim about `0 .. n` were wrong
  there would be a least number at which it is (`Least`), and the number before it
  gives the contradiction.

`FilesProofs`, for every directory, set of paths, number of descriptors and of
blocks:

- `FilesInvariant`: `FInv` is inductive. It has the heap's `IInv`; that each open
  slot's four structures (file descriptor, FAT descriptor, item, and the directory
  entry's copy or the subdirectory with its items) are live and apart from those of
  every other slot; and the same of what the `fopen` under way has allocated so
  far, step by step (`FopenSoFar`, `CloneSoFar`). The second part alone is not
  inductive: `fopen` publishes structures that it took many steps before.
- `FilesTypeCorrect`, `OpenFilesStandAlone` (`DescriptorsStandAlone`) follow, and
  `FopenAnswersRight` (`FopenAnswersTheFile`) from what the item under way is.
- `FilesKeepNumbers`: the refinement of `FileTable`. All steps of an `fopen` stutter
  but the one that fills the slot; that `fclose` stutters for every other slot is
  where the structures of two slots must be apart.

`Fat16Proofs`, for every file, size of sector and cluster, and read:

- `ReadInvariant`: `RInv`, the bytes copied so far are those of the items and of
  the pieces of the current item that are done (`Counted`), is inductive through
  the loops over items, clusters' pieces and sectors.
- `ReadTypeCorrect`, `ReadFillsTheBuffer` (`FillsTheBuffer`) follow.
- `SimpleReadsAreRight` (`ReadsTheFile`): in a simple read each byte copied so far is the
  file's byte at the position it was asked from, and the stream stands where the
  next one is (`Straight`, inductive together with `RInv`).

`ProcessProofs`, for every number of processes, loads, tables, descriptors, file
sizes and every part of the heap in use at boot:

- `LoadInvariant`: `LInv` is inductive. Every block a process is made of has one
  process and one role in it (process, data, stack, task, directory, chunk, tables):
  `Has` says which roles a process has, published, failed or under way, `Part` gives
  the block, and `PartsStandAlone` that parts are live, apart from each other and
  from all that files are made of. Three things make it inductive that no
  single property shows: the parts of a load under way at each `pc` (`Built`); that a
  directory or table is null only when the heap is full, so that the allocations
  behind it fail as well and the load does not link its task (`TablesSoFar`); and at
  which steps an error pointer has been followed already (`ErrorIsWild`).
- `NoFileStaysOpen`, `LoadTypeCorrect`, `PublishedStayAlive` (`StructuresAlive`) follow.
- `ImagesInvariant`: with `LInv`, that the tables of a process hold, at each `pc`
  since it has a task, the identity or its two mappings, page by page (`Images`). A
  step of another load writes only to tables that are parts of its own process, and
  these are apart. `UserSeesItsImage` and `ProcessesAreIsolated` (`UserImage`, `Isolation`)
  follow; the latter needs `LiveDisjoint` as well.
- `TaskListInvariant`: with `LInv`, that some sequence of different tasks, at most
  as many as there were loads, starts at `task_head`, ends at `task_tail` and is
  linked both ways (`TaskList`). `TaskListSound` speaks of what following `next`
  reaches, and `TasksStayLinked` shows by counting, again through `Least`, that
  these are the elements of the sequence.
- `CountInvariant`: with `LInv`, how many of the blocks in use were not there before
  the load and are neither the process's nor the open file's (`Left`), at each `pc`
  and, inside `fopen`, at each `step` (`Count`). After a root and n parts they are
  1 + 2n (`PathBlocks`), and from then on each block a load takes is either one of
  its process's or given back with its file. Where an allocation of the parser fails
  the count is too small, but then the heap is full: the FAT descriptor, whose
  allocation comes next, is refused as well and there is no file
  (`ParsingCount`, from `OneMore`). `LoadsKeepTheirOwn` (`LoadKeepsOnlyItsOwn`) follows;
  that what was there `before` stays is part of `LInv`.

`TrapProofs`, for every program, kernel stack page, stack word, string and part of
the heap in use at boot:

- `TrapInvariant`: `Sound` is inductive. It has two halves, for before and after the
  start of the program.
  - While the kernel boots (`BootSound`) the system is that of `Process`, and `LInv` and
    `Images` hold. `FirstLoad` adds what the start needs and no invariant of `Process`
    says: `task_run_first_ever_task` starts the task at the head of the list, and that
    this is the task of a process that was published, with its whole image, follows
    only from its being the first load, which has found the list empty and can
    follow an error pointer only where it publishes a process without a task.
  - From the start on nobody changes what the load has built (`Loaded`), and `Sound`
    says by the value of `at` what the rest is: the tables are those of the image, except
    that from the mapping to the restoring of the entry the page of the buffer is
    writable, and the entry kept in `call.old` is the one that was there (`Mapped`);
    the allocations are those at the start and, while the command holds it, the buffer
    (`HeapSound`); which directory is loaded and which stack pointer is saved (`CpuSound`);
    and how far the command has come (`CallSound`).

  The step that needs an argument is the mapping of the buffer: it goes into the
  program's own directory, through which the string is then read. The program lies
  below the heap, so that the buffer's page was mapped to itself before and is so
  now, and every address still leads where `process_load` had it lead (`HeapIsItself`,
  `AddressesLead`); only the right to write differs, and the entry restored takes it
  back (`MapOne`, `CopyRestoreSound`).
- `TrapTyping`, `ProgramKeepsItsImage` (`ProgramSeesItself`), `PrintShowsWhatWasAsked`
  (`PrintsUserString`), `SumAddsTheArguments` (`SumIsRight`), `CommandsGiveBack`
  (`CommandsDoNotLeak`) and `OnlyHugeProgramsAreLost` (`LostOnlyIf`) follow. For the last,
  the kernel's stack is either on a page of the program or, lying above the program's
  stack, mapped to itself.

The assumptions of these modules are about constants only. `FilesAssumption`: a
struct takes one block; a directory has no two names alike but deleted ones, and
no path asks for a deleted one. `Fat16Assumption`: a file has a cluster at least
and its size fits its chain; the mark of the stack is no position.
`ProcessAssumption`: there is a slot for a process and two for descriptors (12 and 512
in `config.h`); the stack is whole pages and ends where or before the
program begins (`GUAVAOS_USER_PROGRAM_STACK_SIZE`, `..._VIRTUAL_STACK_ADDRESS_START`); the sizes
of the files, rounded up, do not wrap in 32 bits, and a program ends below the
heap. The last is the one that the code does not test: a file longer than the 12
megabytes from 0x400000 to 0x1000000 would cover the heap's own pages.
`TrapAssumption`: the buffer of `isr80h_command1_print` takes one block (1024 bytes); the
string of a cleared page is none that a program writes; the
kernel's stack (0x600000, `kernel.c:151`) is not below the program (0x400000); a word of
the program's stack, taken as a pointer, is an address: 32 bits are.

`KernelAssumption`: paths and messages are C strings, sequences of characters that end
before their 0. `MountAssumption`: a sector holds an item at least, there is a slot
for a file system, and a disk is a header and a directory of any length.

`KeyboardProofs`, for every size of ring, set of keys and bound on pushes:

- `KeyboardTypes`: `TypeOK`, from the same invariant.
- `RingIsSound`: until the ring overruns the slots with a key are those from head
  to tail. The invariant is inductive with `TypeOK`; the work is in the
  arithmetic of indices modulo the size (`SlotsDiffer`, `SlotWraps`, from
  `Euclid` and `Multiples`).
- `KeyboardKeepsOrder`: the refinement of `KeyQueue`. The keys waiting are the
  slots from head to tail in this order, so that `Push`, `Pop` and `Backspace` are
  an append, a tail and a front of that sequence (`PushIsPut`, `PopIsRead`,
  `BackspaceIsRubOut`). That a pop answers no key only when none is waiting is
  where `RingIsSound` is needed: the code looks at one slot, and not at the
  indices.

`GdtProofs` and `KernelProofs`, for every segment and every table:

- `DescriptorKept`: a base of 32 bits, a limit of 32 and a type that
  `encode_gdt_entry` does not refuse mean to the processor what they say. Limits
  in pages are the difficult part: the code keeps the upper 20 bits, and they
  are all there is because the lower 12 are ones in what it does not refuse
  (`PageLimit`, `FlagBits`).
- `SegmentsSound`: `kernel_main` passes its first step only with such a table.

`KernelProofs` further, for every screen, length of names, layout of a disk, path
and message. `TextInv`, `MountInv` and `PathInv` speak of separate variables and each is
inductive, `TypeInv` is together with `MountInv`:

- `TextStaysShown` (`ScreenShowsText`), from `TextInv`: the cursor is where the text
  printed so far puts it, each cell of the video memory shows the last character put
  there, and the kernel is overwritten just if a character has its place there
  (`Shows`). The row wraps at a limit and the text goes on behind the screen, so that
  the place of a character is where its line starts, counted in rows and modulo the
  limit (`PlaceNext`, `WriteCharIs`, `PrintShows`). `TerminalAssumption`: the screen
  lies in the video memory and the kernel behind that.
- `DirectoryIsMounted` (`MountsTheDirectory`), from `MountInv`: what was mounted, and
  when. `GoodDirectory` is the count of the names up to the first free slot, and
  `SectorsRoundedDown` the division that puts the clusters too low.
- `NamesAreReadAsWritten` (`NamesReadAsWritten`): both sides of `Plain`, from what
  the two loops stop at (`ProperStringIs`, `EndsNotBefore`, `EndsNotBehind`).
- `PathsAreParsed` (`ParsesThePath`): the parts are a chain of pieces of the path,
  each of which begins behind the slash that ended the one before it (`PartsChain`,
  `ChainEnds`), and joined they are the path up to where the last one ended (`JoinedIs`).
- `FilesAreOpenedByName` (`OpensByName`), from `MountInv` and `PathInv`, that what is
  found is what `fopen` may answer: on a `Regular` disk the search looks at every
  slot it needs to (`SearchFinds`), its comparison is that of the names
  (`SameIsLower`), and a path has a single part just if it is one name (`OneNameIs`).
- `KernelTyped` (`KernelTypeOK`), from the parts above and `TypeInv`.

The loops here are recursive functions over positions, and their values are
found without the induction theorems as in `ScanCorrect`. That such a function
exists is shown by building it from runs that are too short: were there none of
some length there would be a least such length (`PrintRuns`, `PartsExist`). What
it has done after n turns is shown by the least turn at which it has not.

Every safety property that a passing run checks is thus a theorem. Only
model-checked are the liveness properties `TrapsReturn`, `ReadsEnd` and
`GoodDiskOpens`, which are out of the prover's reach together with anything that
needs `ENABLED`. The five statements that TLC refutes are refuted on the instances
of their runs.

## What is not modelled

- `kfree` of a pointer that was not allocated, except where loading a process
  does it (`UnwindTask`, `AllocTask`).
- `heap_create`'s validation, and the registration of commands, callbacks and
  keyboards: each happens once at boot, with constant numbers into empty tables,
  so that a property about it could only repeat the constants.
- The filling of the IDT, the TSS and the interrupt controller's registers, and
  `gdt_load`, `paging_switch` and the like as instructions: constants for the
  processor. The ring and stack that the TSS leads to are in `Trap`.
- Allocations that fail while the disk is mounted: the heap of 25600 blocks is
  empty then. `fat16_resolve` sets the disk's file system before it reads the
  disk (`fat16.c:136`), which nobody sees because sector reads do not fail.
- `task_list_remove` of a task that is on the list, `task_get_next`,
  `process_switch` alone, `keyboard_insert`: no caller reaches them with anything
  to decide. With one program ever loaded, `current_process` and the process of
  the current task (`keyboard.c:61`, `:79`) cannot differ.
- The polling of the disk controller and the ports, which are external, and the
  boot loader, straight real-mode code that runs before any state exists.
- Overflow of the ring's indices after 2^31 keys (`keyboard.c:70`), far beyond any
  bound of a run, and which the proof, over the naturals, says nothing of; the
  byte behind the scan code table (`ps2.c:52`), which is the linker's choice.
- The contents of files as characters: `Fat16` has where each byte comes from.

## Plan

Done: the heap, files, reading, loading and the keyboard with their proofs and
refinements; paging and traps; the start of the kernel with names, paths, the
disk, the screen and the segments; the proofs of all their safety properties.
What is left waits for the code: `task_switch` and a scheduler, once it has
callers, belong in `Trap` with more than one task, and the ring of
`keyboard.c` then becomes one per process; writing to files, once
`fopen` takes other modes, belongs in `Files` and `Fat16`.
