--------------------------- MODULE ProcessProofs ----------------------------
(***************************************************************************)
(* What holds of the processes for every heap, page size, root directory,  *)
(* number of slots and sequence of loads, whichever allocation fails.      *)
(*                                                                         *)
(* A process is a handful of blocks: the structure, its data, its stack,   *)
(* its task, the chunk, the directory and one block per table. They hang   *)
(* together by pointers kept in four memories, and while a load is under   *)
(* way some of the pointers are still locals of it. The invariant gives    *)
(* each of these blocks an owner and a role, says that no block has two of *)
(* them, that all are allocated and none belongs to an open file; and, for *)
(* a failed allocation in the middle of a load, that the heap is full, so  *)
(* that the unchecked ones behind it fail as well.                         *)
(*                                                                         *)
(* What a load leaves behind is counted: at each of its steps, how many of *)
(* the blocks it has allocated are neither the process's nor the file's.   *)
(***************************************************************************)
EXTENDS Process, FilesProofs

(* Where a load stands.                                                    *)
Reading == {"opening", "data", "read", "close"}
HasDirectory == {"table", "chunk", "unwind", "link"}
HasTask == {"directory", "table", "chunk", "unwind", "link"}
HasStack == {"task", "directory", "table", "chunk", "unwind", "link"}
HasData == {"stack", "task", "directory", "table", "chunk", "unwind", "link"}
Building == {"open", "opening", "data", "read", "close", "stack", "task", "directory", "table",
             "chunk", "unwind", "link"}
Mapping == {"map_program", "map_stack", "publish"}
Stages == {"idle", "process", "open", "opening", "data", "read", "close", "stack", "task",
           "directory", "table", "chunk", "unwind", "link", "map_program", "map_stack",
           "publish", "lost"}

(* The file of the load: at most one, in the first slot, only to be read.  *)
FileSoFar ==
    /\ FInv
    /\ pc # "opening" => step = "idle"
    /\ pc \notin Reading => Open = {}
    /\ pc = "opening" => Open = {} \/ (step = "idle" /\ Open = {0} /\ res = 1)
    /\ pc \in {"data", "read", "close"} => Open = {0} /\ ld.fd = 1

(* Types, stricter than LoadTypeOK for what is followed without a test.    *)
Maps == [0 .. (Tables - 1) -> Pointers]
Sizes == {0} \cup {Root[i].size : i \in DOMAIN Root}
LoadLocals == [slot : Slots, path : Calls \cup {NoOpen.path}, p : Pointers, fd : Int,
               size : Sizes, data : Pointers, task : Pointers, dir : Pointers,
               i : 0 .. Tables]

MemoryTyped ==
    /\ \A d \in DOMAIN dirs : d \in Pointers /\ dirs[d] \in Maps
    /\ \A t \in DOMAIN tabs : t \in Pointers /\ DOMAIN tabs[t] = 0 .. (PagesPerTable - 1)
    /\ \A p \in DOMAIN procs : p \in Blocks /\ procs[p] \in Record
    /\ \A t \in DOMAIN tasks : t \in Blocks /\ tasks[t] \in TaskRecord

LoadTyped ==
    /\ pc \in Stages /\ ld \in LoadLocals
    /\ MemoryTyped
    /\ {head, tail, current, current_process} \subseteq Pointers
    /\ processes \in [Slots -> Pointers]
    /\ before \subseteq Blocks

(* The parts of a process: its tables, 0 to Tables - 1, and six others.    *)
STRUCT == -6
DATA == -5
STACK == -4
TASK == -3
CHUNK == -2
DIRECTORY == -1
Parts == -6 .. (Tables - 1)

Own(p) == pc \in Building /\ p = ld.p

DataOf(p) == IF Own(p) /\ pc = "read" THEN ld.data ELSE procs[p].ptr
SizeOf(p) == IF Own(p) /\ pc = "read" THEN ld.size ELSE procs[p].size
TaskOf(p) == IF Own(p) THEN ld.task ELSE procs[p].task
DirectoryOf(p) == IF Own(p) THEN ld.dir ELSE chunks[tasks[procs[p].task].dir]

Part(p, r) ==
    IF r = STRUCT THEN p
    ELSE IF r = DATA THEN DataOf(p)
    ELSE IF r = STACK THEN procs[p].stack
    ELSE IF r = TASK THEN TaskOf(p)
    ELSE IF r = CHUNK THEN tasks[TaskOf(p)].dir
    ELSE IF r = DIRECTORY THEN DirectoryOf(p)
    ELSE dirs[DirectoryOf(p)][r]

(* The roles that are taken: all of them, but in a process under way.      *)
HasOwnData == \/ pc \in HasData
              \/ pc = "read" /\ ld.size > 0
              \/ pc = "close" /\ procs[ld.p].ptr # NULL

Built ==
    {r \in Parts : \/ r = STRUCT
                   \/ r = DATA /\ HasOwnData
                   \/ r = STACK /\ pc \in HasStack
                   \/ r = TASK /\ pc \in HasTask
                   \/ r = CHUNK /\ pc = "link"
                   \/ r = DIRECTORY /\ pc \in HasDirectory /\ ld.dir # NULL
                   \/ /\ r \in 0 .. (ld.i - 1) /\ pc \in HasDirectory
                      /\ dirs[ld.dir][r] # NULL}

Has(p) == IF Own(p) THEN Built
          ELSE IF procs[p].task = ERR THEN {STRUCT, DATA, STACK} ELSE Parts

Owners == Published \cup {p \in {ld.p} : pc \in Building \cup Mapping}
AllParts == UNION {{Part(p, r) : r \in Has(p)} : p \in Owners}

(* Every part is allocated, for this role of this process alone.           *)
PartsStandAlone ==
    /\ Others(AllParts)
    /\ \A p, q \in Owners : \A r \in Has(p), s \in Has(q) :
          Part(p, r) = Part(q, s) => p = q /\ r = s

InMemory(p, r) ==
    /\ r = STRUCT => Part(p, r) \in DOMAIN procs
    /\ r = DATA => live[Part(p, r)] = BlocksOf(SizeOf(p)) /\ SizeOf(p) \in Sizes
    /\ r = STACK => live[Part(p, r)] = BlocksOf(StackSize)
    /\ r = TASK => Part(p, r) \in DOMAIN tasks
    /\ r = CHUNK => Part(p, r) \in DOMAIN chunks
    /\ r = DIRECTORY => Part(p, r) \in DOMAIN dirs
    /\ r \in 0 .. (Tables - 1) => Part(p, r) \in DOMAIN tabs

PartsExist == \A p \in Owners : \A r \in Has(p) : InMemory(p, r)

(* What was allocated when the load began still is, and is none of its own.*)
BeforeKept ==
    /\ Others(before)
    /\ ld.p \in Owners => \A r \in Has(ld.p) : Part(ld.p, r) \notin before

(* What a load counts on at its next allocations.                          *)
LoadSoFar ==
    /\ pc = "idle" => ld = NoLoad
    /\ pc = "process" => ld.p = NULL
    /\ pc \in Building \cup Mapping => ld.p \notin Published
    /\ pc \notin {"idle", "lost"} => processes[ld.slot] = NULL /\ ld.path \in Calls
    /\ pc \in {"process", "open", "opening", "data", "read", "close", "stack", "task",
              "directory"} => ld.i = 0
    /\ pc \in {"open", "opening", "data", "read"} => procs[ld.p].ptr = NULL
    /\ pc = "data" => ld.size \in Requests
    /\ pc = "table" => ld.i < Tables
    /\ pc \in {"chunk", "unwind", "link"} => ld.i = Tables

TablesSoFar ==
    /\ pc \in HasDirectory =>
          /\ ld.dir \in DOMAIN dirs
          /\ ld.dir = NULL \/ (\E i \in 0 .. (ld.i - 1) : dirs[ld.dir][i] = NULL) => Full
    /\ pc = "unwind" => NULL \in DOMAIN chunks /\ chunks[NULL] = ld.dir
    /\ pc = "link" => /\ ld.dir # NULL /\ \A i \in 0 .. (Tables - 1) : dirs[ld.dir][i] # NULL
                      /\ tasks[ld.task].dir \in DOMAIN chunks
                      /\ chunks[tasks[ld.task].dir] = ld.dir

(* An error pointer for a task, and the stage at which it is followed.     *)
ErrorIsWild ==
    /\ \A p \in Published : procs[p].task = ERR => wild
    /\ pc \in {"map_stack", "publish"} /\ procs[ld.p].task = ERR => wild

LInv ==
    /\ FileSoFar /\ LoadTyped /\ PartsStandAlone /\ PartsExist /\ BeforeKept
    /\ LoadSoFar /\ TablesSoFar /\ ErrorIsWild

-----------------------------------------------------------------------------
(* The sizes asked for.                                                    *)

(* A size that does not wrap takes at least one block.                     *)
LEMMA SomeBlock ==
    ASSUME NEW size \in Nat, size > 0, size + BlockSize <= SizeMod
    PROVE  BlocksOf(size) \in Nat /\ BlocksOf(size) > 0
<1>1. BlockSize \in Nat /\ BlockSize > 0 /\ SizeMod \in Nat /\ SizeMod % BlockSize = 0
  BY BlockSizeAssumption, SizeModAssumption
<1>2. PICK a : a = size % BlockSize /\ a \in 0 .. (BlockSize - 1)
  BY <1>1
<1>3. CASE a = 0
  <2>1. size \div BlockSize > 0 /\ size \div BlockSize \in Nat
    BY <1>1, <1>2, <1>3, SMT
  <2>. QED
    BY <1>2, <1>3, <2>1 DEF BlocksOf, AlignUp
<1>4. CASE a # 0
  <2>1. PICK w : w = (size - a) + BlockSize
    OBVIOUS
  <2>2. w \in Nat /\ w >= BlockSize /\ w <= SizeMod
    BY <1>1, <1>2, <1>4, <2>1, SMT
  <2>3. w # SizeMod
    BY <1>1, <1>2, <1>4, <2>1, SMT
  <2>4. w % SizeMod = w
    BY <1>1, <2>2, <2>3, SMT
  <2>5. w \div BlockSize > 0 /\ w \div BlockSize \in Nat
    BY <1>1, <2>2, SMT
  <2>. QED
    BY <1>2, <1>4, <2>1, <2>4, <2>5 DEF BlocksOf, AlignUp
<1>. QED
  BY <1>3, <1>4

(* A request is for a number of bytes.                                     *)
LEMMA SizesAreNat ==
    ASSUME NEW size \in Requests
    PROVE  size \in Nat
  BY RequestsAssumption, SizeModAssumption, SMT

(* What the kernel allocates for itself is allocated in whole blocks.      *)
LEMMA KernelSizes ==
    /\ BlockSize \in Requests /\ BlocksOf(BlockSize) = 1
    /\ ProcessSize \in Requests /\ BlocksOf(ProcessSize) > 0
    /\ StackSize \in Requests /\ BlocksOf(StackSize) \in Nat /\ BlocksOf(StackSize) > 0
    /\ BlocksOf(StackSize) = StackSize \div BlockSize
<1>1. BlockSize \in Nat /\ BlockSize > 0
  BY BlockSizeAssumption
<1>2. BlockSize % BlockSize = 0 /\ BlockSize \div BlockSize = 1
  BY <1>1, SMT
<1>3. StackSize \in Requests /\ StackSize > 0 /\ StackSize % BlockSize = 0
  BY ProcessAssumption
<1>4. StackSize \in Nat
  BY <1>3, SizesAreNat
<1>5. StackSize \div BlockSize \in Nat /\ StackSize \div BlockSize > 0
  BY <1>1, <1>3, <1>4, SMT
<1>. QED
  BY <1>2, <1>3, <1>5, ProcessAssumption DEF BlocksOf, AlignUp

(* The size of a file can be asked for, and its pages stop below the heap. *)
LEMMA FileSizes ==
    ASSUME NEW size \in Sizes
    PROVE  /\ size \in Nat /\ BlocksOf(size) \in Nat
           /\ size > 0 => BlocksOf(size) > 0 /\ size \in Requests
           /\ ProgramPage + BlocksOf(size) <= HeapPage \/ size = 0
<1>1. CASE size = 0
  <2>1. BlocksOf(0) = 0
    BY BlockSizeAssumption, SMT DEF BlocksOf, AlignUp
  <2>. QED
    BY <1>1, <2>1
<1>2. ASSUME size # 0, NEW i \in DOMAIN Root, size = Root[i].size
      PROVE  /\ size \in Requests /\ size \in Nat /\ size + BlockSize <= SizeMod
             /\ ProgramPage + BlocksOf(size) <= HeapPage
  BY <1>2, ProcessAssumption, SizesAreNat
<1>. QED
  BY <1>1, <1>2, SomeBlock DEF Sizes

-----------------------------------------------------------------------------
(* The heap and the files under a step of a load.                          *)

(* An allocation of the kernel's own, between two calls of the file layer. *)
LEMMA KernelAllocates ==
    ASSUME FInv, step = "idle", NEW size \in Requests, KZalloc(size), UNCHANGED fileVars
    PROVE  /\ FInv' /\ Open' = Open /\ ret' \in Pointers
           /\ ret' = NULL => (BlocksOf(size) = 1 => Full') /\ live' = live
           /\ Full /\ BlocksOf(size) = 1 => ret' = NULL /\ Full'
           /\ ret' # NULL => live'[ret'] = BlocksOf(size)
           /\ BlocksOf(size) > 0 => \A b : b = ret' /\ b # NULL => Others({b})'
           /\ \A b : Held(b) => b # ret'
<1>1. /\ UNCHANGED <<file_descriptors, descs, fats, items, clones, step, fo, res>>
      /\ fo = NoOpen
  BY DEF fileVars, memoryVars, FInv, FopenSoFar, Apart
<1>2. StructuresKept
  BY <1>1 DEF StructuresKept, Kept
<1>3. IInv' /\ OpenWhole' /\ InUse' = InUse /\ ret' \in Pointers
  BY <1>1, <1>2, AllocationKeepsOpenFiles
<1>4. (file_descriptors \in [Indices -> Pointers])' /\ res' \in -1 .. MaxDescriptors
  BY <1>1 DEF FInv, FilesTyped, Indices, Pointers, Blocks
<1>5. FInv'
  BY <1>1, <1>3, <1>4, ReturnEndsFopen DEF Return, FInv
<1>6. Open' = Open
  BY <1>1 DEF Open, Indices
<1>7. /\ ret' = NULL => entries' = entries /\ live' = live
      /\ ret' = NULL /\ BlocksOf(size) = 1 => Full
      /\ Full /\ BlocksOf(size) = 1 => ret' = NULL
      /\ ret' # NULL => ret' \in Blocks /\ live'[ret'] = BlocksOf(size)
  BY Granted DEF FInv
<1>8. entries' = entries => Full' = Full
  BY DEF Full, Free, Blocks
<1>9. ret' \notin InUse /\ \A b : Held(b) => b # ret'
  BY GrantedApart
<1>10. FopensOwn' = {NULL}
  BY <1>1, <1>5 DEF FopensOwn, Pending, NoOpen, FInv, FopenSoFar, Apart
<1>11. ASSUME NEW b, b = ret', b # NULL, BlocksOf(size) > 0 PROVE Others({b})'
  BY <1>11, <1>3, <1>7, <1>9, <1>10 DEF Others, Held, Blocks
<1>. QED
  BY <1>3, <1>5, <1>6, <1>7, <1>8, <1>9, <1>11

(* An allocation of the kernel touches nothing of the set S of others.     *)
LEMMA KernelLeavesOthers ==
    ASSUME FInv, step = "idle", NEW size \in Requests, KZalloc(size), UNCHANGED fileVars,
           NEW S, Others(S)
    PROVE  StillOthers(S)
<1>1. UNCHANGED <<file_descriptors, descs, fats, items, clones, step, fo>>
  BY DEF fileVars, memoryVars
<1>2. StructuresKept
  BY <1>1 DEF StructuresKept, Kept
<1>3. FopensOwn' = FopensOwn
  BY <1>1 DEF FopensOwn, Pending
<1>. QED
  BY <1>1, <1>2, <1>3, AllocationLeavesOthers

(* A step that leaves the heap and the file layer alone.                   *)
LEMMA KernelWaits ==
    ASSUME FInv, UNCHANGED <<vars, fileVars>>
    PROVE  FInv' /\ Open' = Open /\ Full' = Full /\ \A S : Others(S) => StillOthers(S)
<1>1. FInv'
  BY NextFInv DEF filesVars
<1>2. UNCHANGED <<live, entries, file_descriptors, descs, fats, items, clones, step, fo>>
  BY DEF fileVars, memoryVars, vars
<1>3. Open' = Open /\ Full' = Full
  BY <1>2 DEF Open, Indices, Full, Free, Blocks
<1>4. FopensOwn' = FopensOwn
  BY <1>2 DEF FopensOwn, Pending
<1>5. InUse' = InUse
  BY QuietKeepsOpenFiles DEF fileVars
<1>6. ASSUME NEW S, Others(S) PROVE StillOthers(S)
  BY <1>2, <1>4, <1>5, <1>6 DEF StillOthers, Others, Held, Blocks
<1>. QED
  BY <1>1, <1>3, <1>6

-----------------------------------------------------------------------------
(* Parts that stay, and parts that come.                                   *)

Grows == /\ DOMAIN procs \subseteq DOMAIN procs' /\ DOMAIN tasks \subseteq DOMAIN tasks'
         /\ DOMAIN chunks \subseteq DOMAIN chunks' /\ DOMAIN dirs \subseteq DOMAIN dirs'
         /\ DOMAIN tabs \subseteq DOMAIN tabs'

Stays(p, r) ==
    /\ p \in Owners /\ r \in Has(p) /\ Part(p, r)' = Part(p, r)
    /\ r = DATA => SizeOf(p)' = SizeOf(p)

Comes(p, r) ==
    Others({Part(p, r)})' /\ Part(p, r)' \notin AllParts \cup before /\ InMemory(p, r)'

PartsChange(K, x, y) ==
    /\ \A p \in Owners' : \A r \in Has(p)' : \/ Stays(p, r) /\ Part(p, r) \in K
                                             \/ p = x /\ r = y /\ Comes(p, r)
    /\ ld.p' = ld.p \/ ld.p' \notin Owners

(* A step that adds at most one part, and lets the memories only grow,     *)
(* keeps all that is said of them.                                         *)
LEMMA PartsKeep ==
    ASSUME PartsStandAlone, PartsExist, Grows, NEW K, StillOthers(K),
           NEW x, NEW y, PartsChange(K, x, y)
    PROVE  PartsStandAlone' /\ PartsExist'
<1>1. ASSUME NEW p \in Owners, NEW r \in Has(p) PROVE Part(p, r) \in AllParts
  BY DEF AllParts
<1>2. ASSUME NEW p \in Owners', NEW r \in Has(p)'
      PROVE  \/ Stays(p, r) /\ Part(p, r) \in K
             \/ p = x /\ r = y /\ Comes(p, r)
  BY DEF PartsChange
<1>3. Others(AllParts)'
  <2>1. ASSUME NEW p \in Owners', NEW r \in Has(p)', NEW b, b = Part(p, r)'
        PROVE  Held(b)' /\ b \notin (InUse \cup FopensOwn)'
    <3>1. CASE Stays(p, r) /\ Part(p, r) \in K
      <4>1. b \in K
        BY <2>1, <3>1 DEF Stays
      <4>. QED
        BY <4>1 DEF StillOthers
    <3>2. CASE Comes(p, r)
      BY <2>1, <3>2 DEF Comes, Others
    <3>. QED
      BY <1>2, <3>1, <3>2
  <2>. QED
    BY <2>1 DEF Others, AllParts
<1>4. ASSUME NEW p \in Owners', NEW q \in Owners', NEW r \in Has(p)', NEW s \in Has(q)',
             Part(p, r)' = Part(q, s)'
      PROVE  p = q /\ r = s
  <2>1. CASE Stays(p, r) /\ Stays(q, s)
    BY <1>4, <2>1 DEF Stays, PartsStandAlone
  <2>2. CASE Stays(p, r) /\ Comes(q, s)
    <3>1. Part(q, s)' \in AllParts
      BY <1>1, <1>4, <2>2 DEF Stays
    <3>. QED
      BY <2>2, <3>1 DEF Comes
  <2>3. CASE Comes(p, r) /\ Stays(q, s)
    <3>1. Part(p, r)' \in AllParts
      BY <1>1, <1>4, <2>3 DEF Stays
    <3>. QED
      BY <2>3, <3>1 DEF Comes
  <2>. QED
    BY <1>2, <2>1, <2>2, <2>3
<1>5. ASSUME NEW p \in Owners', NEW r \in Has(p)' PROVE InMemory(p, r)'
  <2>1. CASE Stays(p, r) /\ Part(p, r) \in K
    <3>1. InMemory(p, r)
      BY <2>1 DEF Stays, PartsExist
    <3>2. live'[Part(p, r)] = live[Part(p, r)]
      BY <2>1 DEF StillOthers
    <3>. QED
      BY <2>1, <3>1, <3>2 DEF Stays, InMemory, Grows, BlocksOf, AlignUp, Sizes
  <2>. QED
    BY <1>2, <2>1 DEF Comes
<1>. QED
  BY <1>3, <1>4, <1>5 DEF PartsStandAlone, PartsExist

(* What was allocated before the load began stays allocated.               *)
LEMMA BeforeKeeps ==
    ASSUME BeforeKept, StillOthers(before), before' = before,
           NEW K, NEW x, NEW y, PartsChange(K, x, y)
    PROVE  BeforeKept'
<1>1. Others(before)'
  BY DEF StillOthers, Others
<1>2. ASSUME NEW p, p = ld.p', p \in Owners', NEW r \in Has(p)'
      PROVE  Part(p, r)' \notin before
  BY <1>2 DEF PartsChange, Stays, Comes, BeforeKept
<1>. QED
  BY <1>1, <1>2 DEF BeforeKept

(* A process that is not being built is found by following its pointers:   *)
(* what the step writes elsewhere does not change it.                      *)
OtherParts == UNION {{Part(p, r) : r \in Has(p)} : p \in Owners \ {ld.p}}

WritesElsewhere ==
    /\ Kept(procs, procs', OtherParts) /\ Kept(chunks, chunks', OtherParts)
    /\ Kept(dirs, dirs', OtherParts)
    /\ \A t \in OtherParts \cap DOMAIN tasks : tasks'[t].dir = tasks[t].dir

(* A process other than the one being loaded keeps its parts.              *)
LEMMA OthersStay ==
    ASSUME PartsExist, WritesElsewhere, NEW p \in Owners \ {ld.p}, p # ld.p',
           NEW r \in Has(p)'
    PROVE  Stays(p, r)
<1>1. ~Own(p) /\ ~Own(p)'
  BY DEF Own
<1>2. \A s \in Has(p) : Part(p, s) \in OtherParts /\ InMemory(p, s)
  BY DEF OtherParts, PartsExist
<1>3. STRUCT \in Has(p) /\ Part(p, STRUCT) = p
  BY <1>1, PagingAssumption, SMT DEF Has, Part, Parts, STRUCT
<1>4. procs'[p] = procs[p]
  BY <1>2, <1>3 DEF InMemory, WritesElsewhere, Kept
<1>5. Has(p)' = Has(p)
  BY <1>1, <1>4 DEF Has
<1>6. CASE procs[p].task = ERR
  <2>1. Has(p) = {STRUCT, DATA, STACK}
    BY <1>1, <1>6 DEF Has
  <2>2. Part(p, r)' = Part(p, r) /\ SizeOf(p)' = SizeOf(p)
    BY <1>1, <1>4, <1>5, <2>1 DEF Part, DataOf, SizeOf, STRUCT, DATA, STACK
  <2>. QED
    BY <1>5, <2>2 DEF Stays
<1>7. CASE procs[p].task # ERR
  <2>1. Has(p) = Parts /\ {TASK, CHUNK, DIRECTORY} \subseteq Parts
    BY <1>1, <1>7, PagingAssumption, SMT DEF Has, Parts, TASK, CHUNK, DIRECTORY
  <2>2. PICK t, c, d : t = procs[p].task /\ c = tasks[t].dir /\ d = chunks[c]
    OBVIOUS
  <2>3. Part(p, TASK) = t /\ Part(p, CHUNK) = c /\ Part(p, DIRECTORY) = d
    BY <1>1, <2>2
    DEF Part, TaskOf, DirectoryOf, STRUCT, DATA, STACK, TASK, CHUNK, DIRECTORY
  <2>4. t \in DOMAIN tasks /\ c \in DOMAIN chunks /\ d \in DOMAIN dirs
        /\ {t, c, d} \subseteq OtherParts
    BY <1>2, <2>1, <2>3 DEF InMemory
  <2>5. tasks'[t].dir = c /\ chunks'[c] = d /\ dirs'[d] = dirs[d]
    BY <2>2, <2>4 DEF WritesElsewhere, Kept
  <2>6. Part(p, r)' = Part(p, r) /\ SizeOf(p)' = SizeOf(p)
    BY <1>1, <1>4, <2>2, <2>5 DEF Part, DataOf, SizeOf, TaskOf, DirectoryOf
  <2>. QED
    BY <1>5, <2>6 DEF Stays
<1>. QED
  BY <1>6, <1>7

(* What the load makes, and the null pointer, are elsewhere.               *)
LEMMA Elsewhere ==
    ASSUME PartsStandAlone
    PROVE  /\ NULL \notin AllParts /\ NULL \notin Owners
           /\ \A b : b \notin AllParts => b \notin OtherParts
           /\ ld.p \in Owners => \A r \in Has(ld.p) : Part(ld.p, r) \notin OtherParts
<1>1. ASSUME NEW p \in Owners, NEW r \in Has(p) PROVE Part(p, r) \in AllParts
  BY DEF AllParts
<1>2. NULL \notin AllParts
  BY NULLAssumption, SMT DEF PartsStandAlone, Others, Held, Blocks
<1>3. ASSUME NEW p \in Owners PROVE STRUCT \in Has(p) /\ Part(p, STRUCT) = p
  BY PagingAssumption, SMT DEF Has, Part, Parts, STRUCT, Built
<1>4. NULL \notin Owners
  BY <1>1, <1>2, <1>3
<1>. QED
  BY <1>2, <1>4 DEF PartsStandAlone, OtherParts, AllParts

-----------------------------------------------------------------------------
(* What every step owes, apart from the load's own parts.                  *)

Stated == PartsStandAlone /\ PartsExist /\ BeforeKept

(* A step that writes elsewhere keeps what is said of every process, when  *)
(* each part of the load's own stays or comes new.                         *)
LEMMA StepKeepsSome ==
    ASSUME LInv, pc # "lost", WritesElsewhere, Grows, UNCHANGED <<processes, before>>,
           NEW K, OtherParts \subseteq K, StillOthers(K), StillOthers(before),
           NEW p, p = ld.p', p = ld.p \/ p \notin Owners, NEW y,
           pc' \in Building \cup Mapping =>
              \A r \in Has(p)' : \/ Stays(p, r) /\ Part(p, r) \in K
                                 \/ r = y /\ Comes(p, r)
    PROVE  Stated' /\ \A q \in Published : procs'[q] = procs[q]
<1>1. Published' = Published
  BY DEF Published, Slots
<1>2. ld.p \notin Published
  <2>1. CASE pc \in Building \cup Mapping
    BY <2>1 DEF LInv, LoadSoFar
  <2>2. CASE pc \in {"idle", "process"}
    BY <2>2 DEF LInv, LoadSoFar, NoLoad, Published
  <2>. QED
    BY <2>1, <2>2 DEF LInv, LoadTyped, Stages, Building, Mapping
<1>3. \A q \in Owners' : q # p => q \in Owners \ {ld.p}
  BY <1>1, <1>2 DEF Owners
<1>4. PartsChange(K, p, y)
  <2>1. ASSUME NEW q \in Owners', NEW r \in Has(q)', q # p
        PROVE  Stays(q, r) /\ Part(q, r) \in K
    <3>1. Stays(q, r)
      BY <1>3, <2>1, OthersStay DEF LInv
    <3>2. Part(q, r) \in OtherParts
      BY <1>3, <2>1, <3>1 DEF Stays, OtherParts
    <3>. QED
      BY <3>1, <3>2
  <2>2. ASSUME p \in Owners' PROVE pc' \in Building \cup Mapping
    <3>1. p \notin Published
      BY <1>2 DEF Owners
    <3>. QED
      BY <1>1, <2>2, <3>1 DEF Owners
  <2>. QED
    BY <2>1, <2>2 DEF PartsChange
<1>5. PartsStandAlone' /\ PartsExist' /\ BeforeKept'
  BY <1>4, PartsKeep, BeforeKeeps DEF LInv
<1>6. ASSUME NEW q \in Published PROVE procs'[q] = procs[q]
  <2>1. q \in Owners \ {ld.p} /\ ~Own(q)
    BY <1>2 DEF Owners, Own
  <2>2. STRUCT \in Has(q) /\ Part(q, STRUCT) = q
    BY <2>1, PagingAssumption, SMT DEF Has, Part, Parts, STRUCT
  <2>3. q \in OtherParts /\ q \in DOMAIN procs
    BY <2>1, <2>2 DEF OtherParts, LInv, PartsExist, InMemory
  <2>. QED
    BY <2>3 DEF WritesElsewhere, Kept
<1>. QED
  BY <1>5, <1>6 DEF Stated

(* Most steps release nothing.                                             *)
LEMMA StepKeepsParts ==
    ASSUME LInv, pc # "lost", WritesElsewhere, Grows, UNCHANGED <<processes, before>>,
           StillOthers(AllParts), StillOthers(before),
           NEW p, p = ld.p', p = ld.p \/ p \notin Owners, NEW y,
           pc' \in Building \cup Mapping =>
              \A r \in Has(p)' : Stays(p, r) \/ (r = y /\ Comes(p, r))
    PROVE  Stated' /\ \A q \in Published : procs'[q] = procs[q]
<1>1. OtherParts \subseteq AllParts
  BY DEF OtherParts, AllParts
<1>2. \A r : Stays(p, r) => Part(p, r) \in AllParts
  BY DEF Stays, AllParts
<1>. QED
  BY <1>1, <1>2, StepKeepsSome

(* An allocation of the load's own.                                        *)
LEMMA LoadAllocates ==
    ASSUME LInv, pc # "opening", NEW size \in Requests, KZalloc(size), UNCHANGED fileVars
    PROVE  /\ FInv' /\ Open' = Open /\ ret' \in Pointers
           /\ StillOthers(AllParts) /\ StillOthers(before)
           /\ ret' \notin AllParts \cup before
           /\ ret' = NULL => (BlocksOf(size) = 1 => Full') /\ live' = live
           /\ Full /\ BlocksOf(size) = 1 => ret' = NULL /\ Full'
           /\ ret' # NULL => live'[ret'] = BlocksOf(size)
           /\ BlocksOf(size) > 0 => \A b : b = ret' /\ b # NULL => Others({b})'
<1>1. FInv /\ step = "idle" /\ Others(AllParts) /\ Others(before)
  BY DEF LInv, FileSoFar, PartsStandAlone, BeforeKept
<1>2. \A b \in AllParts \cup before : b # ret'
  BY <1>1, KernelAllocates DEF Others
<1>. QED
  BY <1>1, <1>2, KernelAllocates, KernelLeavesOthers

(* The file stays as it is under what does not touch it.                   *)
LEMMA FileStays ==
    ASSUME FileSoFar, FInv', Open' = Open, UNCHANGED <<step, res>>,
           pc # "opening", pc' # "opening",
           pc' \in {"data", "read", "close"} => ld.fd' = ld.fd,
           (pc \in {"data", "read", "close"}) = (pc' \in {"data", "read", "close"})
    PROVE  FileSoFar'
  BY DEF FileSoFar, Reading

-----------------------------------------------------------------------------
(* The steps of a load, up to its stack.                                   *)

(* Nothing is written.                                                     *)
LEMMA NothingWritten ==
    ASSUME UNCHANGED <<procs, tasks, dirs, tabs, chunks>>
    PROVE  WritesElsewhere /\ Grows
  BY DEF WritesElsewhere, Grows, Kept

(* goto out: the load has no process any more.                             *)
LEMMA FailEndsLoad ==
    ASSUME LInv, Fail, pc # "lost", pc # "idle", FileSoFar', MemoryTyped', WritesElsewhere, Grows,
           UNCHANGED <<processes, current_process, head, tail, current, before, wild>>,
           StillOthers(AllParts), StillOthers(before)
    PROVE  LInv'
<1>1. pc' = "idle" /\ ld' = NoLoad /\ NULL = ld.p'
  BY DEF Fail, NoLoad
<1>2. NULL \notin Owners
  BY Elsewhere DEF LInv
<1>3. Stated' /\ \A q \in Published : procs'[q] = procs[q]
  BY <1>1, <1>2, StepKeepsParts DEF Building, Mapping
<1>4. ErrorIsWild'
  BY <1>1, <1>3 DEF LInv, ErrorIsWild, Published, Slots
<1>5. LoadTyped'
  <2>1. NoLoad \in LoadLocals
    BY ProcessAssumption, PagingAssumption, SMT
    DEF NoLoad, LoadLocals, NoOpen, Slots, Pointers, Sizes
  <2>. QED
    BY <1>1, <2>1 DEF LInv, LoadTyped, Stages, LoadLocals, Slots, Pointers, Blocks
<1>6. LoadSoFar' /\ TablesSoFar'
  BY <1>1
  DEF LoadSoFar, TablesSoFar, Building, Mapping, HasDirectory, NoLoad
<1>. QED
  BY <1>3, <1>4, <1>5, <1>6 DEF LInv, Stated

(* The steps of a load, one lemma each: process_load finds a free slot.    *)
LEMMA BeginLoadKeeps ==
    ASSUME LInv, NEW path \in Calls, BeginLoad(path)
    PROVE  LInv'
<1>1. /\ pc = "idle" /\ before' = LiveStarts /\ ld = NoLoad
      /\ UNCHANGED <<vars, fileVars, procs, tasks, dirs, tabs, chunks, wild>>
      /\ UNCHANGED <<processes, current_process, head, tail, current, step, res>>
  BY DEF BeginLoad, LInv, LoadSoFar, pagingVars, listVars, procVars, fileVars
<1>2. \/ \E s \in Slots : /\ ld' = [NoLoad EXCEPT !.slot = s, !.path = path]
                          /\ processes[s] = NULL /\ pc' = "process"
      \/ pc' = "idle" /\ ld' = ld
  BY DEF BeginLoad, FreeSlot
<1>3. NoLoad \in LoadLocals
  BY ProcessAssumption, PagingAssumption, SMT
  DEF NoLoad, LoadLocals, NoOpen, Slots, Pointers, Sizes
<1>4. /\ ld' \in LoadLocals /\ ld.p' = NULL /\ ld.i' = 0 /\ pc' \in {"idle", "process"}
      /\ pc' = "idle" => ld' = NoLoad
      /\ pc' = "process" => processes[ld.slot'] = NULL /\ ld.path' \in Calls
  <2>1. CASE pc' = "idle" /\ ld' = ld
    BY <1>1, <1>3, <2>1 DEF NoLoad
  <2>2. ASSUME NEW s \in Slots, ld' = [NoLoad EXCEPT !.slot = s, !.path = path],
               processes[s] = NULL, pc' = "process"
        PROVE  /\ ld' \in LoadLocals /\ ld.p' = NULL /\ ld.i' = 0 /\ processes[ld.slot'] = NULL
               /\ ld.path' \in Calls
    <3>1. ld' \in LoadLocals
      BY <1>3, <2>2 DEF LoadLocals
    <3>. QED
      BY <2>2, <3>1 DEF NoLoad
  <2>. QED
    BY <1>2, <2>1, <2>2
<1>5. FInv' /\ Open' = Open /\ StillOthers(AllParts) /\ WritesElsewhere /\ Grows
  BY <1>1, KernelWaits, NothingWritten DEF LInv, FileSoFar, PartsStandAlone
<1>6. FileSoFar'
  BY <1>1, <1>4, <1>5, FileStays DEF LInv
<1>7. Owners = Published /\ Owners' = Published /\ NULL \notin Owners /\ ld.p = NULL
  <2>1. Published' = Published
    BY <1>1 DEF Published, Slots
  <2>. QED
    BY <1>1, <1>4, <2>1 DEF Owners, Published, Building, Mapping, NoLoad
<1>8. PartsStandAlone' /\ PartsExist'
  <2>1. \A p \in Owners' : \A r \in Has(p)' : Stays(p, r) /\ Part(p, r) \in AllParts
    BY <1>4, <1>5, <1>7, OthersStay DEF Stays, AllParts, LInv
  <2>2. PartsChange(AllParts, NULL, NULL)
    BY <1>4, <1>7, <2>1 DEF PartsChange
  <2>. QED
    BY <1>5, <2>2, PartsKeep DEF LInv
<1>9. BeforeKept'
  <2>1. InUse' = {}
    BY <1>1, <1>5 DEF InUse, LInv, FileSoFar, Reading
  <2>2. step' = "idle" /\ fo' = NoOpen
    BY <1>1 DEF LInv, FileSoFar, FInv, FopenSoFar, Apart, fileVars
  <2>3. FopensOwn' = {NULL}
    BY <2>2 DEF FopensOwn, Pending, NoOpen
  <2>4. NULL \notin before' /\ \A b \in before' : Held(b)'
    BY <1>1, NULLAssumption, SMT DEF LiveStarts, Held, Blocks, vars
  <2>. QED
    BY <1>4, <1>7, <2>1, <2>3, <2>4 DEF BeforeKept, Others
<1>10. LoadTyped'
  BY <1>1, <1>4
  DEF LInv, LoadTyped, MemoryTyped, Stages, Slots, Pointers, Blocks, LiveStarts, Maps
<1>11. LoadSoFar' /\ TablesSoFar' /\ ErrorIsWild'
  BY <1>1, <1>4
  DEF LInv, LoadSoFar, TablesSoFar, ErrorIsWild, Published, Slots, Building, Mapping, HasDirectory
<1>. QED
  BY <1>6, <1>8, <1>9, <1>10, <1>11 DEF LInv

(* kzalloc of the process structure.                                       *)
LEMMA AllocProcessKeeps ==
    ASSUME LInv, AllocProcess
    PROVE  LInv'
<1>1. /\ pc = "process" /\ KZalloc(ProcessSize)
      /\ ProcessSize \in Requests /\ BlocksOf(ProcessSize) > 0
      /\ UNCHANGED <<fileVars, tasks, dirs, tabs, chunks, head, tail, current>>
      /\ UNCHANGED <<before, wild, processes, current_process, step, res>>
  BY KernelSizes DEF AllocProcess, pagingVars, listVars, countVars, fileVars
<1>2. /\ FInv' /\ Open' = Open /\ StillOthers(AllParts) /\ StillOthers(before)
      /\ ret' \in Pointers /\ ret' \notin AllParts \cup before
  BY <1>1, LoadAllocates
<1>3. CASE ret' = NULL
  <2>1. Fail /\ UNCHANGED procs
    BY <1>3 DEF AllocProcess
  <2>2. FileSoFar'
    BY <1>1, <1>2, <2>1, FileStays DEF LInv, Fail
  <2>3. MemoryTyped' /\ WritesElsewhere /\ Grows
    BY <1>1, <2>1, NothingWritten DEF LInv, LoadTyped, MemoryTyped, Maps, Pointers, Blocks
  <2>. QED
    BY <1>1, <1>2, <2>1, <2>2, <2>3, FailEndsLoad
<1>4. CASE ret' # NULL
  <2>1. PICK p, rec : /\ p = ret' /\ rec = [ptr |-> NULL, size |-> 0, stack |-> NULL, task |-> NULL]
                      /\ procs' = Put(procs, p, rec)
                      /\ ld' = [ld EXCEPT !.p = p] /\ pc' = "open" /\ UNCHANGED result
    BY <1>4 DEF AllocProcess
  <2>2. /\ ld.p = NULL /\ ld \in LoadLocals /\ ld.i = 0 /\ processes[ld.slot] = NULL
        /\ p \in Blocks /\ p # NULL /\ Others({p})' /\ p \notin AllParts \cup before
    BY <1>1, <1>2, <1>4, <2>1, LoadAllocates DEF LInv, LoadSoFar, LoadTyped, Pointers
  <2>3. /\ ld' \in LoadLocals /\ ld.p' = p /\ ld.i' = 0 /\ ld.slot' = ld.slot
        /\ UNCHANGED ld.path
    BY <2>1, <2>2 DEF LoadLocals, Pointers
  <2>4. FileSoFar'
    BY <1>1, <1>2, <2>1, FileStays DEF LInv
  <2>5. p \notin OtherParts /\ p \notin Owners /\ p \notin Published
    <3>1. ASSUME NEW q \in Owners PROVE q \in AllParts
      <4>1. STRUCT \in Has(q) /\ Part(q, STRUCT) = q
        BY PagingAssumption, SMT DEF Has, Part, Parts, STRUCT, Built
      <4>. QED
        BY <4>1 DEF AllParts
    <3>. QED
      BY <2>2, <3>1, Elsewhere DEF LInv, Owners
  <2>6. WritesElsewhere /\ Grows
    BY <1>1, <2>1, <2>5, WritesKeep DEF WritesElsewhere, Grows, Kept, Put
  <2>7. Has(p)' = {STRUCT} /\ Part(p, STRUCT)' = p /\ p \in DOMAIN procs' /\ procs'[p] = rec
    <3>1. Own(p)' /\ Built' = {STRUCT}
      BY <2>1, <2>3, PagingAssumption, SMT
      DEF Own, Built, Parts, STRUCT, Building, HasOwnData, HasData, HasStack, HasTask, HasDirectory
    <3>. QED
      BY <2>1, <3>1 DEF Has, Part, Put
  <2>8. Comes(p, STRUCT)
    BY <2>2, <2>7 DEF Comes, InMemory, STRUCT, DATA, STACK, TASK, CHUNK, DIRECTORY
  <2>9. Stated' /\ \A q \in Published : procs'[q] = procs[q]
    BY <1>1, <1>2, <2>3, <2>5, <2>6, <2>7, <2>8, StepKeepsParts
  <2>10. LoadTyped'
    <3>1. rec \in Record
      BY <2>1 DEF Record, Places
    <3>2. \A q \in DOMAIN procs' : q \in Blocks /\ procs'[q] \in Record
      BY <2>1, <2>2, <3>1 DEF LInv, LoadTyped, MemoryTyped, Put
    <3>. QED
      BY <1>1, <2>1, <2>3, <3>2
      DEF LInv, LoadTyped, MemoryTyped, Stages, Slots, Pointers, Blocks, Maps, Record, Places
  <2>11. LoadSoFar' /\ TablesSoFar' /\ ErrorIsWild'
    <3>1. Published' = Published
      BY <1>1 DEF Published, Slots
    <3>. QED
      BY <1>1, <2>1, <2>2, <2>3, <2>5, <2>7, <2>9, <3>1
      DEF LInv, LoadSoFar, TablesSoFar, ErrorIsWild, Building, Mapping, HasDirectory
  <2>. QED
    BY <2>4, <2>9, <2>10, <2>11 DEF LInv, Stated
<1>. QED
  BY <1>3, <1>4

(* The steps of fopen: the first slot is free, and so is what fopen gets.  *)
LEMMA FopenOpens ==
    ASSUME FInv, Open = {}, FopenStep
    PROVE  FInv' /\ (Open' = {} \/ (step' = "idle" /\ Open' = {0} /\ res' = 1))
<1>1. FInv'
  BY NextFInv DEF FilesNext
<1>2. 0 \in Indices /\ \A j \in Indices : file_descriptors[j] = NULL
  BY FilesAssumption, SMT DEF Open, Indices
<1>3. CASE UNCHANGED file_descriptors
  BY <1>1, <1>3 DEF Open, Indices
<1>4. CASE ~UNCHANGED file_descriptors
  <2>1. NewDescriptor
    BY <1>4
    DEF FopenStep, PathRoot, PartString, PathEnded, PartStruct, CheckPath, FatDescriptor, Find,
        FatItem, LoadDirectory, LoadItems, FreeDirectory, CloneItem
  <2>2. PICK i \in FreeIndex : /\ file_descriptors' = [file_descriptors EXCEPT ![i] = ret']
                               /\ Return(i + 1)
    BY <1>4, <2>1 DEF NewDescriptor
  <2>3. i \in Indices /\ \A j \in 0 .. (i - 1) : file_descriptors[j] # NULL
    BY <2>2 DEF FreeIndex
  <2>4. i = 0
    BY <1>2, <2>3, FilesAssumption, SMT DEF Indices
  <2>5. \A j \in Indices : j # 0 => file_descriptors'[j] = NULL
    BY <1>2, <2>2, <2>4 DEF FInv, FilesTyped
  <2>6. Open' \subseteq {0} /\ step' = "idle" /\ res' = 1
    BY <2>2, <2>4, <2>5 DEF Open, Indices, Return
  <2>. QED
    BY <1>1, <2>6
<1>. QED
  BY <1>3, <1>4

(* fopen is called and runs.                                               *)
LEMMA OpeningKeeps ==
    ASSUME LInv, OpenFile \/ FopenRuns
    PROVE  LInv'
<1>1. /\ pc \in {"open", "opening"} /\ pc' = "opening"
      /\ UNCHANGED <<procs, tasks, dirs, tabs, chunks, head, tail, current>>
      /\ UNCHANGED <<before, wild, ld, processes, current_process>>
  BY DEF OpenFile, FopenRuns, pagingVars, listVars, countVars, procVars, loadVars
<1>2. FInv /\ Others(AllParts) /\ Others(before)
  BY DEF LInv, FileSoFar, PartsStandAlone, BeforeKept
<1>3. FileSoFar' /\ StillOthers(AllParts) /\ StillOthers(before)
  <2>1. CASE OpenFile
    <3>1. pc = "open" /\ BeginOpen(ld.path) /\ UNCHANGED <<file_descriptors, res>>
      BY <2>1 DEF OpenFile, BeginOpen, Goto
    <3>2. ld.path \in Calls
      BY <3>1 DEF LInv, LoadSoFar
    <3>3. FInv'
      BY <1>2, <3>1, <3>2, NextFInv DEF FilesNext
    <3>4. Open' = {}
      BY <3>1 DEF LInv, FileSoFar, Open, Indices, Reading
    <3>5. FileSoFar'
      BY <1>1, <3>3, <3>4 DEF FileSoFar, Reading
    <3>. QED
      BY <1>2, <3>1, <3>5, BeginOpenLeavesOthers
  <2>2. CASE FopenRuns
    <3>1. FopenStep /\ pc = "opening"
      BY <2>2 DEF FopenRuns
    <3>2. step # "idle"
      BY <3>1
      DEF FopenStep, PathRoot, PartString, PathEnded, PartStruct, CheckPath, FatDescriptor, Find,
          FatItem, LoadDirectory, LoadItems, FreeDirectory, CloneItem, NewDescriptor
    <3>3. Open = {}
      BY <3>1, <3>2 DEF LInv, FileSoFar
    <3>4. FileSoFar'
      BY <1>1, <1>2, <3>1, <3>3, FopenOpens DEF FileSoFar, Reading
    <3>. QED
      BY <1>2, <3>1, <3>4, FopenLeavesOthers
  <2>. QED
    BY <2>1, <2>2
<1>4. PICK p : p = ld.p
  OBVIOUS
<1>5. \A r \in Has(p)' : Stays(p, r)
  <2>1. p \in Owners
    BY <1>1, <1>4 DEF Owners, Building
  <2>2. Has(p) = {STRUCT} /\ Has(p)' = {STRUCT}
    BY <1>1, <1>4, PagingAssumption, SMT
    DEF Has, Own, Built, Parts, STRUCT, Building, HasOwnData, HasData, HasStack, HasTask,
        HasDirectory
  <2>. QED
    BY <2>1, <2>2 DEF Stays, Part, STRUCT, DATA
<1>6. Stated' /\ \A q \in Published : procs'[q] = procs[q]
  BY <1>1, <1>3, <1>4, <1>5, NothingWritten, StepKeepsParts
<1>7. LoadTyped'
  BY <1>1
  DEF LInv, LoadTyped, MemoryTyped, Stages, Slots, Pointers, Blocks, Maps, LoadLocals
<1>8. LoadSoFar' /\ TablesSoFar' /\ ErrorIsWild'
  BY <1>1
  DEF LInv, LoadSoFar, TablesSoFar, ErrorIsWild, Published, Slots, Building, Mapping, HasDirectory
<1>. QED
  BY <1>3, <1>6, <1>7, <1>8 DEF LInv, Stated

(* fstat: the number leads to the file, and the file has a size.           *)
LEMMA StatFileKeeps ==
    ASSUME LInv, StatFile
    PROVE  LInv'
<1>1. /\ pc = "opening" /\ step = "idle"
      /\ UNCHANGED <<vars, fileVars, procs, tasks, dirs, tabs, chunks, head, tail, current>>
      /\ UNCHANGED <<before, wild, processes, current_process, step, res>>
  BY DEF StatFile, pagingVars, listVars, countVars, procVars, fileVars
<1>2. /\ FInv' /\ Open' = Open /\ StillOthers(AllParts) /\ StillOthers(before)
      /\ WritesElsewhere /\ Grows
  BY <1>1, KernelWaits, NothingWritten DEF LInv, FileSoFar, PartsStandAlone, BeforeKept
<1>3. Open = {} \/ (Open = {0} /\ res = 1)
  BY <1>1 DEF LInv, FileSoFar
<1>4. res = 1 => Get(res) = file_descriptors[0]
  BY ProcessAssumption, FilesAssumption, SMT DEF Get
<1>5. Get(res) # NULL => res - 1 \in Open
  BY FilesAssumption, SMT DEF Get, Open, Indices, LInv, FileSoFar, FInv, FilesTyped
<1>6. CASE Get(res) = NULL
  <2>1. Fail
    BY <1>6 DEF StatFile
  <2>2. Open = {}
    BY <1>3, <1>4, <1>6 DEF Open
  <2>3. FileSoFar'
    BY <1>1, <1>2, <2>1, <2>2 DEF FileSoFar, Fail, LInv, Reading
  <2>4. MemoryTyped'
    BY <1>1 DEF LInv, LoadTyped, MemoryTyped, Maps, Pointers, Blocks
  <2>. QED
    BY <1>1, <1>2, <2>1, <2>3, <2>4, FailEndsLoad
<1>7. CASE Get(res) # NULL
  <2>1. Open = {0} /\ res = 1
    BY <1>3, <1>5, <1>7
  <2>2. PICK i, size : i = FileOf(Get(res)) /\ size = Root[i].size
    OBVIOUS
  <2>3. ld' = [ld EXCEPT !.fd = 1, !.size = size] /\ pc' = "data"
    BY <1>7, <2>1, <2>2 DEF StatFile
  <2>4. i \in DOMAIN Root
    <3>1. Whole(file_descriptors[0])
      BY <2>1 DEF LInv, FileSoFar, FInv, OpenWhole
    <3>. QED
      BY <1>4, <2>1, <2>2, <3>1 DEF Whole, FileOf, Clone, Item, Fat, Used
  <2>5. size \in Sizes /\ size \in Requests
    BY <2>2, <2>4, ProcessAssumption DEF Sizes
  <2>6. /\ ld' \in LoadLocals /\ ld.p' = ld.p /\ ld.i' = ld.i /\ ld.slot' = ld.slot
        /\ ld.fd' = 1 /\ ld.size' = size /\ ld.path' = ld.path
    <3>1. ld \in LoadLocals
      BY DEF LInv, LoadTyped
    <3>2. PICK l : l = [ld EXCEPT !.fd = 1]
      OBVIOUS
    <3>3. l \in LoadLocals /\ ld' = [l EXCEPT !.size = size] /\ l.fd = 1
      BY <2>3, <3>1, <3>2 DEF LoadLocals
    <3>4. ld' \in LoadLocals
      BY <2>5, <3>3 DEF LoadLocals
    <3>. QED
      BY <3>1, <3>2, <3>3, <3>4 DEF LoadLocals
  <2>7. FileSoFar'
    BY <1>1, <1>2, <2>1, <2>3, <2>6 DEF FileSoFar, LInv, Reading
  <2>8. PICK p : p = ld.p
    OBVIOUS
  <2>9. \A r \in Has(p)' : Stays(p, r)
    <3>1. p \in Owners
      BY <1>1, <2>8 DEF Owners, Building
    <3>2. Has(p) = {STRUCT} /\ Has(p)' = {STRUCT}
      BY <1>1, <2>3, <2>6, <2>8, PagingAssumption, SMT
      DEF Has, Own, Built, Parts, STRUCT, Building, HasOwnData, HasData, HasStack, HasTask,
          HasDirectory
    <3>. QED
      BY <3>1, <3>2 DEF Stays, Part, STRUCT, DATA
  <2>10. Stated' /\ \A q \in Published : procs'[q] = procs[q]
    BY <1>1, <1>2, <2>6, <2>8, <2>9, StepKeepsParts
  <2>11. LoadTyped'
    BY <1>1, <2>3, <2>6
    DEF LInv, LoadTyped, MemoryTyped, Stages, Slots, Pointers, Blocks, Maps
  <2>12. LoadSoFar' /\ TablesSoFar' /\ ErrorIsWild'
    BY <1>1, <2>3, <2>5, <2>6
    DEF LInv, LoadSoFar, TablesSoFar, ErrorIsWild, Published, Slots, Building, Mapping,
        HasDirectory
  <2>. QED
    BY <2>7, <2>10, <2>11, <2>12 DEF LInv, Stated
<1>. QED
  BY <1>6, <1>7

(* The process under way is an owner, and its parts are not the others'.   *)
LEMMA OwnProcess ==
    ASSUME LInv, pc \in Building \cup Mapping
    PROVE  /\ ld.p \in Owners /\ ld.p \in Blocks /\ ld.p \in DOMAIN procs
           /\ ld.p \notin OtherParts /\ ld.p \notin Published
           /\ \A r \in Has(ld.p) : Part(ld.p, r) \notin OtherParts /\ Held(Part(ld.p, r))
<1>1. ld.p \in Owners
  BY DEF Owners
<1>2. STRUCT \in Has(ld.p) /\ Part(ld.p, STRUCT) = ld.p
  BY PagingAssumption, SMT DEF Has, Part, Parts, STRUCT, Built
<1>3. \A r \in Has(ld.p) : Part(ld.p, r) \notin OtherParts /\ Held(Part(ld.p, r))
  BY <1>1, Elsewhere DEF LInv, PartsStandAlone, Others, AllParts
<1>4. ld.p \in DOMAIN procs
  BY <1>1, <1>2 DEF LInv, PartsExist, InMemory
<1>. QED
  BY <1>1, <1>2, <1>3, <1>4 DEF LInv, LoadSoFar, Held

(* kzalloc of the data, and the file closed where it fails.                *)
LEMMA AllocDataKeeps ==
    ASSUME LInv, AllocData
    PROVE  LInv'
<1>1. /\ pc = "data" /\ KZalloc(ld.size) /\ ld.size \in Requests
      /\ ld' = [ld EXCEPT !.data = ret'] /\ pc' = IF ret' = NULL THEN "close" ELSE "read"
      /\ UNCHANGED <<fileVars, procs, tasks, dirs, tabs, chunks, head, tail, current>>
      /\ UNCHANGED <<before, wild, processes, current_process, step, res>>
  BY DEF AllocData, LInv, LoadSoFar, pagingVars, listVars, countVars, procVars, fileVars
<1>2. PICK b, size : b = ret' /\ size = ld.size
  OBVIOUS
<1>3. size \in Sizes /\ (size > 0 => BlocksOf(size) > 0)
  BY <1>2, FileSizes DEF LInv, LoadTyped, LoadLocals
<1>4. /\ FInv' /\ Open' = Open /\ StillOthers(AllParts) /\ StillOthers(before)
      /\ b \in Pointers /\ b \notin AllParts \cup before
      /\ b # NULL => live'[b] = BlocksOf(size)
      /\ b # NULL /\ BlocksOf(size) > 0 => Others({b})'
  BY <1>1, <1>2, LoadAllocates
<1>5. /\ ld' \in LoadLocals /\ ld.p' = ld.p /\ ld.i' = ld.i /\ ld.slot' = ld.slot
      /\ ld.fd' = ld.fd /\ ld.size' = size /\ ld.path' = ld.path /\ ld.data' = b
  BY <1>1, <1>2, <1>4 DEF LInv, LoadTyped, LoadLocals
<1>6. FileSoFar'
  BY <1>1, <1>4, <1>5, FileStays DEF LInv
<1>7. PICK p : p = ld.p /\ p = ld.p'
  BY <1>5
<1>8. procs[p].ptr = NULL
  BY <1>1, <1>7 DEF LInv, LoadSoFar
<1>9. \A r \in Has(p)' : Stays(p, r) \/ (r = DATA /\ Comes(p, r))
  <2>1. p \in Owners
    BY <1>1, <1>7 DEF Owners, Building
  <2>2. Has(p) = {STRUCT}
    BY <1>1, <1>7, PagingAssumption, SMT
    DEF Has, Own, Built, Parts, STRUCT, Building, HasOwnData, HasData, HasStack, HasTask,
        HasDirectory
  <2>3. Has(p)' \subseteq {STRUCT, DATA} /\ (DATA \in Has(p)' => b # NULL /\ size > 0)
    BY <1>1, <1>2, <1>5, <1>7, <1>8, SMT
    DEF Has, Own, Built, STRUCT, DATA, Building, HasOwnData, HasData, HasStack, HasTask,
        HasDirectory
  <2>4. Stays(p, STRUCT)
    BY <2>1, <2>2 DEF Stays, Part, STRUCT, DATA
  <2>5. ASSUME DATA \in Has(p)' PROVE Comes(p, DATA)
    <3>1. b # NULL /\ size > 0 /\ pc' = "read"
      BY <1>1, <1>2, <2>3, <2>5
    <3>2. Part(p, DATA)' = b /\ SizeOf(p)' = size
      BY <1>5, <1>7, <3>1 DEF Part, DataOf, SizeOf, Own, Building, STRUCT, DATA
    <3>3. Others({b})' /\ live'[b] = BlocksOf(size)
      BY <1>3, <1>4, <3>1
    <3>4. InMemory(p, DATA)'
      BY <1>3, <3>2, <3>3, PagingAssumption, SMT
      DEF InMemory, STRUCT, DATA, STACK, TASK, CHUNK, DIRECTORY, BlocksOf, AlignUp, Sizes
    <3>5. Others({Part(p, DATA)})'
      BY <3>2, <3>3 DEF Others
    <3>. QED
      BY <1>4, <3>2, <3>4, <3>5 DEF Comes
  <2>. QED
    BY <2>3, <2>4, <2>5
<1>10. Stated' /\ \A q \in Published : procs'[q] = procs[q]
  BY <1>1, <1>4, <1>7, <1>9, NothingWritten, StepKeepsParts
<1>11. LoadTyped'
  BY <1>1, <1>5
  DEF LInv, LoadTyped, MemoryTyped, Stages, Slots, Pointers, Blocks, Maps
<1>12. LoadSoFar' /\ TablesSoFar' /\ ErrorIsWild'
  BY <1>1, <1>5
  DEF LInv, LoadSoFar, TablesSoFar, ErrorIsWild, Published, Slots, Building, Mapping,
      HasDirectory
<1>. QED
  BY <1>6, <1>10, <1>11, <1>12 DEF LInv, Stated

(* fread: the process takes the data over, or gets none.                   *)
LEMMA ReadFileKeeps ==
    ASSUME LInv, ReadFile
    PROVE  LInv'
<1>1. /\ pc = "read" /\ pc' = "close"
      /\ UNCHANGED <<vars, fileVars, tasks, dirs, tabs, chunks, head, tail, current>>
      /\ UNCHANGED <<before, wild, ld, processes, current_process, step, res>>
      /\ \/ procs' = procs
         \/ ld.size > 0 /\ procs' = [procs EXCEPT ![ld.p].ptr = ld.data, ![ld.p].size = ld.size]
  BY DEF ReadFile, pagingVars, listVars, countVars, procVars, fileVars
<1>2. PICK p, data, size : p = ld.p /\ data = ld.data /\ size = ld.size
  OBVIOUS
<1>3. size \in Sizes /\ size \in Nat /\ data \in Pointers /\ procs[p] \in Record
      /\ procs[p].ptr = NULL
  <2>1. ld \in LoadLocals
    BY DEF LInv, LoadTyped
  <2>2. size \in Sizes /\ data \in Pointers
    BY <1>2, <2>1 DEF LoadLocals
  <2>3. p \in DOMAIN procs
    BY <1>1, <1>2, OwnProcess DEF Building
  <2>. QED
    BY <1>1, <1>2, <2>2, <2>3, FileSizes DEF LInv, LoadTyped, MemoryTyped, LoadSoFar
<1>4. /\ p \in Owners /\ p \in Blocks /\ p \in DOMAIN procs /\ p \notin OtherParts
      /\ p \notin Published
  BY <1>1, <1>2, OwnProcess DEF Building
<1>5. /\ FInv' /\ Open' = Open /\ StillOthers(AllParts) /\ StillOthers(before)
  BY <1>1, KernelWaits DEF LInv, FileSoFar, PartsStandAlone, BeforeKept
<1>6. FileSoFar'
  BY <1>1, <1>5, FileStays DEF LInv
<1>7. PICK rec : rec = [procs[p] EXCEPT !.ptr = data, !.size = size]
  OBVIOUS
<1>8. rec \in Record /\ rec.ptr = data /\ rec.size = size
  BY <1>3, <1>7 DEF Record, Pointers, Places
<1>9. procs' = procs \/ (size > 0 /\ procs' = [procs EXCEPT ![p] = rec])
  BY <1>1, <1>2, <1>7
<1>10. WritesElsewhere /\ Grows
  BY <1>1, <1>4, <1>9, WritesKeep DEF WritesElsewhere, Grows, Kept
<1>11. \A r \in Has(p)' : Stays(p, r)
  <2>1. STRUCT \in Has(p) /\ (size > 0 => DATA \in Has(p))
    BY <1>1, <1>2, PagingAssumption, SMT
    DEF Has, Own, Built, Parts, STRUCT, DATA, Building, HasOwnData
  <2>2. Has(p)' \subseteq {STRUCT, DATA} /\ (DATA \in Has(p)' => procs'[p].ptr # NULL)
    BY <1>1, <1>2, SMT
    DEF Has, Own, Built, STRUCT, DATA, Building, HasOwnData, HasData, HasStack, HasTask,
        HasDirectory
  <2>3. Stays(p, STRUCT)
    BY <1>4, <2>1 DEF Stays, Part, STRUCT, DATA
  <2>4. ASSUME DATA \in Has(p)' PROVE Stays(p, DATA)
    <3>1. size > 0 /\ procs'[p] = rec
      BY <1>3, <1>4, <1>9, <2>2, <2>4
    <3>2. Part(p, DATA)' = data /\ SizeOf(p)' = size
      BY <1>1, <1>8, <3>1 DEF Part, DataOf, SizeOf, STRUCT, DATA
    <3>3. Part(p, DATA) = data /\ SizeOf(p) = size
      BY <1>1, <1>2 DEF Part, DataOf, SizeOf, Own, Building, STRUCT, DATA
    <3>. QED
      BY <1>4, <2>1, <3>1, <3>2, <3>3 DEF Stays
  <2>. QED
    BY <2>2, <2>3, <2>4
<1>12. Stated' /\ \A q \in Published : procs'[q] = procs[q]
  BY <1>1, <1>2, <1>5, <1>10, <1>11, StepKeepsParts
<1>13. LoadTyped'
  <2>1. \A q \in DOMAIN procs' : q \in Blocks /\ procs'[q] \in Record
    BY <1>8, <1>9 DEF LInv, LoadTyped, MemoryTyped
  <2>. QED
    BY <1>1, <2>1
    DEF LInv, LoadTyped, MemoryTyped, Stages, Slots, Pointers, Blocks, Maps, LoadLocals,
        Record, Places
<1>14. LoadSoFar' /\ TablesSoFar' /\ ErrorIsWild'
  BY <1>1, <1>12
  DEF LInv, LoadSoFar, TablesSoFar, ErrorIsWild, Published, Slots, Building, Mapping,
      HasDirectory
<1>. QED
  BY <1>6, <1>12, <1>13, <1>14 DEF LInv, Stated

(* fclose: the number leads to the file, and the slot is empty again.      *)
LEMMA CloseFileKeeps ==
    ASSUME LInv, CloseFile
    PROVE  LInv'
<1>1. /\ pc = "close" /\ Close(1) /\ Open = {0} /\ FInv
      /\ UNCHANGED <<procs, tasks, dirs, tabs, chunks, head, tail, current>>
      /\ UNCHANGED <<before, wild, processes, current_process, step>>
  BY DEF CloseFile, LInv, FileSoFar, pagingVars, listVars, countVars, procVars, Close
<1>2. \/ Fail
      \/ procs[ld.p].ptr # NULL /\ pc' = "stack" /\ ld' = ld
  BY DEF CloseFile
<1>3. 1 \in 0 .. (MaxDescriptors + 1) /\ Get(1) = file_descriptors[0] /\ file_descriptors[0] # NULL
  BY <1>1, ProcessAssumption, FilesAssumption, SMT DEF Get, Open
<1>4. FInv'
  BY <1>1, <1>3, NextFInv DEF FilesNext
<1>5. file_descriptors' = [file_descriptors EXCEPT ![0] = NULL]
  <2>1. file_descriptors' = [file_descriptors EXCEPT ![1 - 1] = NULL]
    BY <1>1, <1>3, CloseOpenFile
  <2>. QED
    BY <2>1
<1>6. Open' = {}
  BY <1>1, <1>5 DEF Open, Indices, FInv, FilesTyped
<1>7. FileSoFar' /\ StillOthers(AllParts) /\ StillOthers(before)
  <2>1. pc' \in {"idle", "stack"}
    BY <1>2 DEF Fail
  <2>2. FileSoFar'
    BY <1>1, <1>4, <1>6, <2>1 DEF FileSoFar, LInv, Reading
  <2>. QED
    BY <1>1, <1>3, <2>2, CloseLeavesOthers DEF LInv, PartsStandAlone, BeforeKept
<1>8. CASE Fail
  <2>1. MemoryTyped' /\ WritesElsewhere /\ Grows
    BY <1>1, NothingWritten DEF LInv, LoadTyped, MemoryTyped, Maps, Pointers, Blocks
  <2>. QED
    BY <1>1, <1>7, <1>8, <2>1, FailEndsLoad
<1>9. CASE procs[ld.p].ptr # NULL /\ pc' = "stack" /\ ld' = ld
  <2>1. PICK p : p = ld.p /\ p = ld.p'
    BY <1>9
  <2>2. \A r \in Has(p)' : Stays(p, r)
    <3>1. p \in Owners
      BY <1>1, <2>1 DEF Owners, Building
    <3>2. Has(p) = {STRUCT, DATA} /\ Has(p)' = {STRUCT, DATA}
      BY <1>1, <1>9, <2>1, PagingAssumption, SMT
      DEF Has, Own, Built, Parts, STRUCT, DATA, Building, HasOwnData, HasData, HasStack,
          HasTask, HasDirectory
    <3>. QED
      BY <1>1, <1>9, <3>1, <3>2 DEF Stays, Part, DataOf, SizeOf, STRUCT, DATA
  <2>3. Stated' /\ \A q \in Published : procs'[q] = procs[q]
    BY <1>1, <1>7, <2>1, <2>2, NothingWritten, StepKeepsParts
  <2>4. LoadTyped'
    BY <1>1, <1>9
    DEF LInv, LoadTyped, MemoryTyped, Stages, Slots, Pointers, Blocks, Maps, LoadLocals
  <2>5. LoadSoFar' /\ TablesSoFar' /\ ErrorIsWild'
    BY <1>1, <1>9
    DEF LInv, LoadSoFar, TablesSoFar, ErrorIsWild, Published, Slots, Building, Mapping,
        HasDirectory
  <2>. QED
    BY <1>7, <2>3, <2>4, <2>5 DEF LInv, Stated
<1>. QED
  BY <1>2, <1>8, <1>9

(* kzalloc of the stack.                                                   *)
LEMMA AllocStackKeeps ==
    ASSUME LInv, AllocStack
    PROVE  LInv'
<1>1. /\ pc = "stack" /\ KZalloc(StackSize)
      /\ StackSize \in Requests /\ BlocksOf(StackSize) > 0
      /\ UNCHANGED <<fileVars, tasks, dirs, tabs, chunks, head, tail, current>>
      /\ UNCHANGED <<before, wild, processes, current_process, step, res>>
  BY KernelSizes DEF AllocStack, pagingVars, listVars, countVars, fileVars
<1>2. PICK b, p : b = ret' /\ p = ld.p
  OBVIOUS
<1>3. /\ FInv' /\ Open' = Open /\ StillOthers(AllParts) /\ StillOthers(before)
      /\ b \in Pointers /\ b \notin AllParts \cup before
      /\ b # NULL => Others({b})' /\ live'[b] = BlocksOf(StackSize)
  BY <1>1, <1>2, LoadAllocates
<1>4. /\ p \in Owners /\ p \in Blocks /\ p \in DOMAIN procs /\ p \notin OtherParts
      /\ p \notin Published
  BY <1>1, <1>2, OwnProcess DEF Building
<1>5. CASE b = NULL
  <2>1. Fail /\ UNCHANGED procs
    BY <1>2, <1>5 DEF AllocStack
  <2>2. FileSoFar'
    BY <1>1, <1>3, <2>1, FileStays DEF LInv, Fail
  <2>3. MemoryTyped' /\ WritesElsewhere /\ Grows
    BY <1>1, <2>1, NothingWritten DEF LInv, LoadTyped, MemoryTyped, Maps, Pointers, Blocks
  <2>. QED
    BY <1>1, <1>3, <2>1, <2>2, <2>3, FailEndsLoad
<1>6. CASE b # NULL
  <2>1. procs' = [procs EXCEPT ![p].stack = b] /\ pc' = "task" /\ ld' = ld
    BY <1>2, <1>6 DEF AllocStack
  <2>2. FileSoFar'
    BY <1>1, <1>3, <2>1, FileStays DEF LInv
  <2>3. PICK rec : rec = [procs[p] EXCEPT !.stack = b]
    OBVIOUS
  <2>4. procs[p] \in Record
    BY <1>4 DEF LInv, LoadTyped, MemoryTyped
  <2>5. /\ rec \in Record /\ rec.ptr = procs[p].ptr /\ rec.size = procs[p].size
        /\ rec.stack = b /\ procs' = [procs EXCEPT ![p] = rec] /\ procs'[p] = rec
    BY <1>3, <1>4, <2>1, <2>3, <2>4 DEF Record, Pointers, Places
  <2>6. WritesElsewhere /\ Grows
    BY <1>1, <1>4, <2>5, WritesKeep DEF WritesElsewhere, Grows, Kept
  <2>7. \A r \in Has(p)' : Stays(p, r) \/ (r = STACK /\ Comes(p, r))
    <3>1. Has(p) = {STRUCT, DATA} /\ Has(p)' = {STRUCT, DATA, STACK}
      BY <1>1, <1>2, <2>1, PagingAssumption, SMT
      DEF Has, Own, Built, Parts, STRUCT, DATA, STACK, Building, HasOwnData, HasData, HasStack,
          HasTask, HasDirectory
    <3>2. Stays(p, STRUCT) /\ Stays(p, DATA)
      BY <1>1, <1>4, <2>1, <2>5, <3>1 DEF Stays, Part, DataOf, SizeOf, STRUCT, DATA
    <3>3. Part(p, STACK)' = b
      BY <2>5 DEF Part, STRUCT, DATA, STACK
    <3>4. InMemory(p, STACK)'
      BY <1>3, <1>6, <3>3, PagingAssumption, SMT
      DEF InMemory, STRUCT, DATA, STACK, TASK, CHUNK, DIRECTORY, BlocksOf, AlignUp
    <3>5. Others({Part(p, STACK)})'
      BY <1>3, <1>6, <3>3 DEF Others
    <3>. QED
      BY <1>3, <3>1, <3>2, <3>3, <3>4, <3>5 DEF Comes
  <2>8. Stated' /\ \A q \in Published : procs'[q] = procs[q]
    BY <1>1, <1>2, <1>3, <2>1, <2>6, <2>7, StepKeepsParts
  <2>9. LoadTyped'
    <3>1. \A q \in DOMAIN procs' : q \in Blocks /\ procs'[q] \in Record
      BY <2>5 DEF LInv, LoadTyped, MemoryTyped
    <3>. QED
      BY <1>1, <2>1, <3>1
      DEF LInv, LoadTyped, MemoryTyped, Stages, Slots, Pointers, Blocks, Maps, LoadLocals,
          Record, Places
  <2>10. LoadSoFar' /\ TablesSoFar' /\ ErrorIsWild'
    BY <1>1, <2>1, <2>8
    DEF LInv, LoadSoFar, TablesSoFar, ErrorIsWild, Published, Slots, Building, Mapping,
        HasDirectory
  <2>. QED
    BY <2>2, <2>8, <2>9, <2>10 DEF LInv, Stated
<1>. QED
  BY <1>5, <1>6

-----------------------------------------------------------------------------
(* task_new.                                                               *)

(* The task itself; without it the machine is lost.                        *)
LEMMA AllocTaskKeeps ==
    ASSUME LInv, AllocTask
    PROVE  LInv'
<1>1. /\ pc = "task" /\ KZalloc(BlockSize)
      /\ BlockSize \in Requests /\ BlocksOf(BlockSize) = 1
      /\ UNCHANGED <<fileVars, procs, dirs, tabs, chunks, head, tail, current>>
      /\ UNCHANGED <<before, processes, current_process, step, res>>
  BY KernelSizes DEF AllocTask, pagingVars, procVars, countVars, fileVars
<1>2. PICK b, p : b = ret' /\ p = ld.p
  OBVIOUS
<1>3. /\ FInv' /\ Open' = Open /\ StillOthers(AllParts) /\ StillOthers(before)
      /\ b \in Pointers /\ b \notin AllParts \cup before
      /\ b # NULL => Others({b})'
  BY <1>1, <1>2, LoadAllocates
<1>4. p \in Owners /\ p \in Blocks /\ p \in DOMAIN procs /\ b \notin OtherParts
  BY <1>1, <1>2, <1>3, OwnProcess, Elsewhere DEF Building, LInv
<1>5. CASE b = NULL
  <2>1. pc' = "lost" /\ wild' = TRUE /\ UNCHANGED <<ld, tasks>>
    BY <1>2, <1>5 DEF AllocTask
  <2>2. FileSoFar'
    BY <1>1, <1>3, <2>1, FileStays DEF LInv
  <2>3. Stated' /\ \A q \in Published : procs'[q] = procs[q]
    BY <1>1, <1>2, <1>3, <2>1, NothingWritten, StepKeepsParts DEF Building, Mapping
  <2>4. LoadTyped'
    BY <1>1, <2>1
    DEF LInv, LoadTyped, MemoryTyped, Stages, Slots, Pointers, Blocks, Maps, LoadLocals
  <2>5. LoadSoFar' /\ TablesSoFar' /\ ErrorIsWild'
    BY <1>1, <2>1
    DEF LInv, LoadSoFar, TablesSoFar, ErrorIsWild, Building, Mapping, HasDirectory
  <2>. QED
    BY <2>2, <2>3, <2>4, <2>5 DEF LInv, Stated
<1>6. CASE b # NULL
  <2>1. PICK rec : /\ rec = [dir |-> NULL, next |-> NULL, prev |-> NULL, process |-> p]
                   /\ tasks' = Put(tasks, b, rec)
                   /\ ld' = [ld EXCEPT !.task = b] /\ pc' = "directory" /\ UNCHANGED wild
    BY <1>2, <1>6 DEF AllocTask
  <2>2. /\ ld' \in LoadLocals /\ ld.p' = p /\ ld.i' = ld.i /\ ld.slot' = ld.slot
        /\ ld.path' = ld.path /\ ld.task' = b
    BY <1>2, <1>3, <2>1 DEF LInv, LoadTyped, LoadLocals
  <2>3. FileSoFar'
    BY <1>1, <1>3, <2>1, FileStays DEF LInv
  <2>4. WritesElsewhere /\ Grows
    BY <1>1, <1>4, <2>1 DEF WritesElsewhere, Grows, Kept, Put
  <2>5. \A r \in Has(p)' : Stays(p, r) \/ (r = TASK /\ Comes(p, r))
    <3>1. Has(p) = {STRUCT, DATA, STACK} /\ Has(p)' = {STRUCT, DATA, STACK, TASK}
      BY <1>1, <1>2, <2>1, <2>2, PagingAssumption, SMT
      DEF Has, Own, Built, Parts, STRUCT, DATA, STACK, TASK, Building, HasOwnData, HasData,
          HasStack, HasTask, HasDirectory
    <3>2. Stays(p, STRUCT) /\ Stays(p, DATA) /\ Stays(p, STACK)
      BY <1>1, <1>4, <2>1, <3>1 DEF Stays, Part, DataOf, SizeOf, STRUCT, DATA, STACK
    <3>3. Part(p, TASK)' = b
      BY <2>1, <2>2 DEF Part, TaskOf, Own, Building, STRUCT, DATA, STACK, TASK
    <3>4. InMemory(p, TASK)'
      BY <2>1, <3>3, PagingAssumption, SMT
      DEF InMemory, STRUCT, DATA, STACK, TASK, CHUNK, DIRECTORY, Put
    <3>5. Others({Part(p, TASK)})'
      BY <1>3, <1>6, <3>3 DEF Others
    <3>. QED
      BY <1>3, <3>1, <3>2, <3>3, <3>4, <3>5 DEF Comes
  <2>6. Stated' /\ \A q \in Published : procs'[q] = procs[q]
    BY <1>1, <1>2, <1>3, <2>2, <2>4, <2>5, StepKeepsParts
  <2>7. LoadTyped'
    <3>1. \A t \in DOMAIN tasks' : t \in Blocks /\ tasks'[t] \in TaskRecord
      BY <1>3, <1>4, <1>6, <2>1 DEF LInv, LoadTyped, MemoryTyped, Put, TaskRecord, Places, Pointers
    <3>. QED
      BY <1>1, <2>1, <2>2, <3>1
      DEF LInv, LoadTyped, MemoryTyped, Stages, Slots, Pointers, Blocks, Maps, TaskRecord, Places
  <2>8. LoadSoFar' /\ TablesSoFar' /\ ErrorIsWild'
    BY <1>1, <1>2, <2>1, <2>2
    DEF LInv, LoadSoFar, TablesSoFar, ErrorIsWild, Published, Slots, Building, Mapping,
        HasDirectory
  <2>. QED
    BY <2>3, <2>6, <2>7, <2>8 DEF LInv, Stated
<1>. QED
  BY <1>5, <1>6

(* The directory, at address 0 when there is no memory for it.             *)
LEMMA AllocDirectoryKeeps ==
    ASSUME LInv, AllocDirectory
    PROVE  LInv'
<1>1. /\ pc = "directory" /\ pc' = "table" /\ KZalloc(BlockSize)
      /\ BlockSize \in Requests /\ BlocksOf(BlockSize) = 1
      /\ UNCHANGED <<fileVars, procs, tasks, tabs, chunks, head, tail, current>>
      /\ UNCHANGED <<before, wild, processes, current_process, step, res>>
  BY KernelSizes DEF AllocDirectory, NewDirectory, listVars, procVars, countVars, fileVars
<1>2. PICK b, p, map : /\ b = ret' /\ p = ld.p /\ map = [i \in 0 .. (Tables - 1) |-> NULL]
                       /\ dirs' = Put(dirs, b, map) /\ ld' = [ld EXCEPT !.dir = b]
  BY DEF AllocDirectory, NewDirectory
<1>3. /\ FInv' /\ Open' = Open /\ StillOthers(AllParts) /\ StillOthers(before)
      /\ b \in Pointers /\ b \notin AllParts \cup before
      /\ b # NULL => Others({b})'
      /\ b = NULL => Full'
  BY <1>1, <1>2, LoadAllocates
<1>4. p \in Owners /\ b \notin OtherParts
  BY <1>1, <1>2, <1>3, OwnProcess, Elsewhere DEF Building, LInv
<1>5. /\ ld' \in LoadLocals /\ ld.p' = p /\ ld.i' = 0 /\ ld.slot' = ld.slot
      /\ ld.path' = ld.path /\ ld.task' = ld.task /\ ld.dir' = b
  BY <1>1, <1>2, <1>3 DEF LInv, LoadTyped, LoadLocals, LoadSoFar
<1>6. FileSoFar'
  BY <1>1, <1>3, FileStays DEF LInv
<1>7. WritesElsewhere /\ Grows
  BY <1>1, <1>2, <1>4 DEF WritesElsewhere, Grows, Kept, Put
<1>8. \A r \in Has(p)' : Stays(p, r) \/ (r = DIRECTORY /\ Comes(p, r))
  <2>1. Has(p) = {STRUCT, DATA, STACK, TASK}
    BY <1>1, <1>2, PagingAssumption, SMT
    DEF Has, Own, Built, Parts, STRUCT, DATA, STACK, TASK, Building, HasOwnData, HasData,
        HasStack, HasTask, HasDirectory
  <2>2. /\ Has(p)' \subseteq {STRUCT, DATA, STACK, TASK, DIRECTORY}
        /\ DIRECTORY \in Has(p)' => b # NULL
    BY <1>1, <1>2, <1>5, SMT
    DEF Has, Own, Built, STRUCT, DATA, STACK, TASK, DIRECTORY, Building, HasOwnData, HasData,
        HasStack, HasTask, HasDirectory
  <2>3. Stays(p, STRUCT) /\ Stays(p, DATA) /\ Stays(p, STACK) /\ Stays(p, TASK)
    BY <1>1, <1>2, <1>4, <1>5, <2>1
    DEF Stays, Part, DataOf, SizeOf, TaskOf, Own, Building, STRUCT, DATA, STACK, TASK
  <2>4. ASSUME b # NULL PROVE Comes(p, DIRECTORY)
    <3>1. Part(p, DIRECTORY)' = b
      BY <1>1, <1>5
      DEF Part, DirectoryOf, Own, Building, STRUCT, DATA, STACK, TASK, CHUNK, DIRECTORY
    <3>2. InMemory(p, DIRECTORY)'
      BY <1>2, <3>1, PagingAssumption, SMT
      DEF InMemory, STRUCT, DATA, STACK, TASK, CHUNK, DIRECTORY, Put
    <3>3. Others({Part(p, DIRECTORY)})'
      BY <1>3, <2>4, <3>1 DEF Others
    <3>. QED
      BY <1>3, <3>1, <3>2, <3>3 DEF Comes
  <2>. QED
    BY <2>2, <2>3, <2>4
<1>9. Stated' /\ \A q \in Published : procs'[q] = procs[q]
  BY <1>1, <1>2, <1>3, <1>5, <1>7, <1>8, StepKeepsParts
<1>10. LoadTyped'
  <2>1. \A d \in DOMAIN dirs' : d \in Pointers /\ dirs'[d] \in Maps
    BY <1>2, <1>3 DEF LInv, LoadTyped, MemoryTyped, Put, Maps, Pointers
  <2>. QED
    BY <1>1, <1>5, <2>1
    DEF LInv, LoadTyped, MemoryTyped, Stages, Slots, Pointers, Blocks, Maps
<1>11. TablesSoFar'
  <2>1. b \in DOMAIN dirs' /\ ~\E i \in 0 .. (0 - 1) : TRUE
    BY <1>2, SMT DEF Put
  <2>. QED
    BY <1>1, <1>3, <1>5, <2>1 DEF TablesSoFar
<1>12. LoadSoFar' /\ ErrorIsWild'
  BY <1>1, <1>2, <1>5, PagingAssumption, SMT
  DEF LInv, LoadSoFar, ErrorIsWild, Published, Slots, Building, Mapping
<1>. QED
  BY <1>6, <1>9, <1>10, <1>11, <1>12 DEF LInv, Stated

(* One table: page 0 gets the entries when there is no memory for it.      *)
LEMMA AllocTableKeeps ==
    ASSUME LInv, AllocTable
    PROVE  LInv'
<1>1. /\ pc = "table" /\ pc' = (IF ld.i + 1 = Tables THEN "chunk" ELSE "table")
      /\ KZalloc(BlockSize) /\ BlockSize \in Requests /\ BlocksOf(BlockSize) = 1
      /\ UNCHANGED <<fileVars, procs, tasks, chunks, head, tail, current>>
      /\ UNCHANGED <<before, wild, processes, current_process, step, res>>
  BY KernelSizes DEF AllocTable, NewTable, listVars, procVars, countVars, fileVars
<1>2. PICK b, p, d, i, map :
        /\ b = ret' /\ p = ld.p /\ d = ld.dir /\ i = ld.i /\ map = [dirs[d] EXCEPT ![i] = b]
        /\ dirs' = [dirs EXCEPT ![d] = map] /\ tabs' = Put(tabs, b, IdentityTable(i))
        /\ ld' = [ld EXCEPT !.i = i + 1]
  BY DEF AllocTable, NewTable
<1>3. /\ FInv' /\ Open' = Open /\ StillOthers(AllParts) /\ StillOthers(before)
      /\ b \in Pointers /\ b \notin AllParts \cup before
      /\ b # NULL => Others({b})'
      /\ b = NULL => Full'
      /\ Full => Full'
  BY <1>1, <1>2, LoadAllocates
<1>4. /\ p \in Owners /\ b \notin OtherParts /\ NULL \notin OtherParts
      /\ \A r \in Has(p) : Part(p, r) \notin OtherParts
  BY <1>1, <1>2, <1>3, OwnProcess, Elsewhere DEF Building, LInv
<1>5. ld \in LoadLocals /\ i \in 0 .. (Tables - 1) /\ Tables \in Nat
  BY <1>1, <1>2, PagingAssumption, SMT DEF LInv, LoadTyped, LoadLocals, LoadSoFar
<1>6. /\ ld' \in LoadLocals /\ ld.p' = p /\ ld.i' = i + 1 /\ ld.slot' = ld.slot
      /\ ld.path' = ld.path /\ ld.task' = ld.task /\ ld.dir' = d
  <2>1. i + 1 \in 0 .. Tables
    BY <1>5, SMT
  <2>. QED
    BY <1>2, <1>5, <2>1 DEF LoadLocals
<1>7. d \in DOMAIN dirs /\ dirs[d] \in Maps /\ d \in Pointers
  BY <1>1, <1>2 DEF LInv, LoadTyped, MemoryTyped, TablesSoFar, HasDirectory
<1>8. /\ map \in Maps /\ map[i] = b /\ dirs'[d] = map
      /\ \A j \in 0 .. (Tables - 1) : j # i => map[j] = dirs[d][j]
  BY <1>2, <1>3, <1>5, <1>7 DEF Maps
<1>9. FileSoFar'
  BY <1>1, <1>3, FileStays DEF LInv
<1>10. d \notin OtherParts
  <2>1. d # NULL => DIRECTORY \in Has(p) /\ Part(p, DIRECTORY) = d
    BY <1>1, <1>2, PagingAssumption, SMT
    DEF Has, Part, DirectoryOf, Own, Built, Parts, STRUCT, DATA, STACK, TASK, CHUNK, DIRECTORY,
        Building, HasDirectory
  <2>. QED
    BY <1>4, <2>1
<1>11. WritesElsewhere /\ Grows
  <2>1. DOMAIN tabs \subseteq DOMAIN tabs' /\ DOMAIN dirs \subseteq DOMAIN dirs'
    BY <1>2 DEF Put
  <2>2. Kept(dirs, dirs', OtherParts)
    BY <1>2, <1>10, WritesKeep
  <2>. QED
    BY <1>1, <2>1, <2>2 DEF WritesElsewhere, Grows, Kept
<1>12. \A r \in Has(p)' : Stays(p, r) \/ (r = i /\ Comes(p, r))
  <2>1. {STRUCT, DATA, STACK, TASK} \subseteq Has(p)
    BY <1>1, <1>2, PagingAssumption, SMT
    DEF Has, Own, Built, Parts, STRUCT, DATA, STACK, TASK, Building, HasOwnData, HasData,
        HasStack, HasTask
  <2>2. pc' \in {"table", "chunk"}
    BY <1>1
  <2>3. ASSUME NEW r \in Has(p)'
        PROVE  \/ r \in {STRUCT, DATA, STACK, TASK}
               \/ r = DIRECTORY /\ d # NULL
               \/ r \in 0 .. (i + 1 - 1) /\ map[r] # NULL
    <3>1. r \in Built'
      BY <1>2, <1>6, <2>2, <2>3 DEF Has, Own, Building
    <3>. QED
      BY <1>5, <1>6, <1>8, <2>2, <3>1 DEF Built
  <2>4. ASSUME NEW r \in {STRUCT, DATA, STACK, TASK} PROVE Stays(p, r)
    BY <1>1, <1>2, <1>4, <1>6, <2>1, <2>2, <2>4
    DEF Stays, Part, DataOf, SizeOf, TaskOf, Own, Building, STRUCT, DATA, STACK, TASK
  <2>5. ASSUME d # NULL PROVE Stays(p, DIRECTORY)
    BY <1>1, <1>2, <1>4, <1>6, <2>2, <2>5, PagingAssumption, SMT
    DEF Stays, Has, Built, Parts, Part, DirectoryOf, Own, Building, HasDirectory, STRUCT, DATA,
        STACK, TASK, CHUNK, DIRECTORY
  <2>6. ASSUME NEW r \in Int, r >= 0, r < i, map[r] # NULL PROVE Stays(p, r)
    <3>1. r \in 0 .. (Tables - 1) /\ r \in 0 .. (i - 1) /\ r # i
      BY <1>5, <2>6, SMT
    <3>2. dirs[d][r] = map[r]
      BY <1>8, <3>1
    <3>3. r \notin {STRUCT, DATA, STACK, TASK, CHUNK, DIRECTORY}
      BY <2>6, SMT DEF STRUCT, DATA, STACK, TASK, CHUNK, DIRECTORY
    <3>4. r \in Has(p)
      <4>1. r \in Parts
        BY <1>5, <2>6, SMT DEF Parts
      <4>. QED
        BY <1>1, <1>2, <2>6, <3>1, <3>2, <4>1 DEF Has, Own, Built, Building, HasDirectory
    <3>5. Part(p, r) = dirs[d][r] /\ Part(p, r)' = map[r]
      BY <1>1, <1>2, <1>6, <1>8, <2>2, <3>3 DEF Part, DirectoryOf, Own, Building
    <3>. QED
      BY <1>4, <3>2, <3>3, <3>4, <3>5 DEF Stays
  <2>7. ASSUME b # NULL PROVE Comes(p, i)
    <3>1. i \notin {STRUCT, DATA, STACK, TASK, CHUNK, DIRECTORY}
      BY <1>5, SMT DEF STRUCT, DATA, STACK, TASK, CHUNK, DIRECTORY
    <3>2. Part(p, i)' = b
      BY <1>1, <1>2, <1>6, <1>8, <2>2, <3>1 DEF Part, DirectoryOf, Own, Building
    <3>3. InMemory(p, i)'
      BY <1>2, <3>1, <3>2 DEF InMemory, Put
    <3>4. Others({Part(p, i)})'
      BY <1>3, <2>7, <3>2 DEF Others
    <3>. QED
      BY <1>3, <3>2, <3>3, <3>4 DEF Comes
  <2>8. ASSUME NEW r \in Has(p)' PROVE Stays(p, r) \/ (r = i /\ Comes(p, r))
    <3>1. CASE r \in {STRUCT, DATA, STACK, TASK}
      BY <2>4, <3>1
    <3>2. CASE r = DIRECTORY /\ d # NULL
      BY <2>5, <3>2
    <3>3. CASE r \in 0 .. (i + 1 - 1) /\ map[r] # NULL
      <4>1. r \in Int /\ r >= 0 /\ (r < i \/ r = i)
        BY <1>5, <3>3, SMT
      <4>. QED
        BY <1>8, <2>6, <2>7, <3>3, <4>1
    <3>. QED
      BY <2>3, <2>8, <3>1, <3>2, <3>3
  <2>. QED
    BY <2>8
<1>13. Stated' /\ \A q \in Published : procs'[q] = procs[q]
  BY <1>1, <1>2, <1>3, <1>6, <1>11, <1>12, StepKeepsParts
<1>14. LoadTyped'
  <2>1. \A e \in DOMAIN dirs' : e \in Pointers /\ dirs'[e] \in Maps
    BY <1>2, <1>8 DEF LInv, LoadTyped, MemoryTyped
  <2>2. DOMAIN IdentityTable(i) = 0 .. (PagesPerTable - 1)
    BY DEF IdentityTable
  <2>3. \A t \in DOMAIN tabs' : t \in Pointers /\ DOMAIN tabs'[t] = 0 .. (PagesPerTable - 1)
    BY <1>2, <1>3, <2>2 DEF LInv, LoadTyped, MemoryTyped, Put
  <2>. QED
    BY <1>1, <1>6, <2>1, <2>3
    DEF LInv, LoadTyped, MemoryTyped, Stages, Slots, Pointers, Blocks, Maps
<1>15. TablesSoFar'
  <2>1. pc' \in {"table", "chunk"} /\ pc \in HasDirectory
    BY <1>1 DEF HasDirectory
  <2>2. d \in DOMAIN dirs' /\ (d = NULL => Full')
    BY <1>2, <1>3, <1>7, <2>1 DEF LInv, TablesSoFar
  <2>3. ASSUME NEW j \in 0 .. (i + 1 - 1), dirs'[d][j] = NULL PROVE Full'
    <3>1. CASE j = i
      BY <1>3, <1>8, <2>3, <3>1
    <3>2. CASE j # i
      <4>1. j \in 0 .. (i - 1) /\ j \in 0 .. (Tables - 1)
        BY <1>5, <2>3, <3>2, SMT
      <4>2. dirs[d][j] = NULL
        BY <1>8, <2>3, <3>2, <4>1
      <4>3. Full
        BY <1>2, <2>1, <4>1, <4>2 DEF LInv, TablesSoFar
      <4>. QED
        BY <1>3, <4>3
    <3>. QED
      BY <3>1, <3>2
  <2>4. (ld.dir = NULL \/ \E j \in 0 .. (ld.i - 1) : dirs[ld.dir][j] = NULL)' => Full'
    BY <1>5, <1>6, <2>2, <2>3
  <2>. QED
    BY <1>6, <2>1, <2>2, <2>4 DEF TablesSoFar
<1>16. LoadSoFar' /\ ErrorIsWild'
  <2>1. /\ pc' = "chunk" => i + 1 = Tables
        /\ pc' = "table" => i + 1 < Tables
        /\ pc' \in {"table", "chunk"}
    BY <1>1, <1>2, <1>5, SMT
  <2>. QED
    BY <1>1, <1>2, <1>6, <2>1
    DEF LInv, LoadSoFar, ErrorIsWild, Published, Slots, Building, Mapping
<1>. QED
  BY <1>9, <1>13, <1>14, <1>15, <1>16 DEF LInv, Stated

(* The chunk. Where it is granted the heap was not full, so that none of   *)
(* the allocations before it has failed.                                   *)
LEMMA AllocChunkKeeps ==
    ASSUME LInv, AllocChunk
    PROVE  LInv'
<1>1. /\ pc = "chunk" /\ KZalloc(BlockSize)
      /\ BlockSize \in Requests /\ BlocksOf(BlockSize) = 1
      /\ UNCHANGED <<fileVars, procs, dirs, tabs, head, tail, current>>
      /\ UNCHANGED <<before, wild, ld, processes, current_process, step, res>>
  BY KernelSizes DEF AllocChunk, NewChunk, procVars, countVars, fileVars
<1>2. PICK b, p, d, t : /\ b = ret' /\ p = ld.p /\ d = ld.dir /\ t = ld.task
                        /\ chunks' = Put(chunks, b, d)
  BY DEF AllocChunk, NewChunk
<1>3. /\ FInv' /\ Open' = Open /\ StillOthers(AllParts) /\ StillOthers(before)
      /\ b \in Pointers /\ b \notin AllParts \cup before
      /\ b # NULL => Others({b})' /\ ~Full
      /\ b = NULL => Full'
  BY <1>1, <1>2, LoadAllocates
<1>4. /\ p \in Owners /\ b \notin OtherParts
      /\ \A r \in Has(p) : Part(p, r) \notin OtherParts
  BY <1>1, <1>2, <1>3, OwnProcess, Elsewhere DEF Building, LInv
<1>5. ld.i = Tables /\ Tables \in Nat /\ ld \in LoadLocals /\ d \in DOMAIN dirs
      /\ ld.path \in Calls /\ processes[ld.slot] = NULL
  BY <1>1, <1>2, PagingAssumption DEF LInv, LoadSoFar, LoadTyped, TablesSoFar, HasDirectory
<1>6. pc' \in {"unwind", "link"} /\ (pc' = "link" <=> b # NULL)
      /\ IF b = NULL THEN tasks' = tasks ELSE tasks' = [tasks EXCEPT ![t].dir = b]
  BY <1>1, <1>2 DEF AllocChunk
<1>7. FileSoFar'
  BY <1>1, <1>3, <1>6, FileStays DEF LInv
<1>8. TASK \in Has(p) /\ Part(p, TASK) = t
  BY <1>1, <1>2, PagingAssumption, SMT
  DEF Has, Part, TaskOf, Own, Built, Parts, STRUCT, DATA, STACK, TASK, Building, HasTask
<1>9. t \in DOMAIN tasks /\ t \notin OtherParts /\ tasks[t] \in TaskRecord
  BY <1>4, <1>8 DEF LInv, PartsExist, InMemory, LoadTyped, MemoryTyped
<1>10. /\ DOMAIN tasks' = DOMAIN tasks /\ (b # NULL => tasks'[t].dir = b)
       /\ \A u \in DOMAIN tasks : u # t => tasks'[u] = tasks[u]
       /\ tasks'[t] \in TaskRecord
  BY <1>3, <1>6, <1>9 DEF TaskRecord, Places, Pointers
<1>11. WritesElsewhere /\ Grows
  BY <1>1, <1>2, <1>4, <1>9, <1>10 DEF WritesElsewhere, Grows, Kept, Put
<1>12. \A r \in Has(p)' : Stays(p, r) \/ (r = CHUNK /\ Comes(p, r))
  <2>1. /\ Has(p) = Built /\ Has(p)' = Built' /\ Own(p) /\ Own(p)'
        /\ Built' \subseteq Built \cup {CHUNK} /\ CHUNK \notin Built
        /\ CHUNK \in Built' => b # NULL
    BY <1>1, <1>2, <1>6, SMT
    DEF Has, Own, Built, STRUCT, DATA, STACK, TASK, CHUNK, DIRECTORY, Building, HasOwnData,
        HasData, HasStack, HasTask, HasDirectory
  <2>2. ASSUME NEW r \in Built PROVE Stays(p, r)
    BY <1>1, <1>2, <1>4, <1>6, <2>1, <2>2
    DEF Stays, Part, DataOf, SizeOf, TaskOf, DirectoryOf
  <2>3. ASSUME b # NULL PROVE Comes(p, CHUNK)
    <3>1. Part(p, CHUNK)' = b
      BY <1>1, <1>2, <1>10, <2>1, <2>3 DEF Part, TaskOf, STRUCT, DATA, STACK, TASK, CHUNK
    <3>2. InMemory(p, CHUNK)'
      BY <1>2, <3>1, PagingAssumption, SMT
      DEF InMemory, STRUCT, DATA, STACK, TASK, CHUNK, DIRECTORY, Put
    <3>3. Others({Part(p, CHUNK)})'
      BY <1>3, <2>3, <3>1 DEF Others
    <3>. QED
      BY <1>3, <3>1, <3>2, <3>3 DEF Comes
  <2>. QED
    BY <2>1, <2>2, <2>3
<1>13. Stated' /\ \A q \in Published : procs'[q] = procs[q]
  BY <1>1, <1>2, <1>3, <1>11, <1>12, StepKeepsParts
<1>14. LoadTyped'
  <2>1. \A u \in DOMAIN tasks' : u \in Blocks /\ tasks'[u] \in TaskRecord
    BY <1>10 DEF LInv, LoadTyped, MemoryTyped
  <2>. QED
    BY <1>1, <1>5, <1>6, <2>1
    DEF LInv, LoadTyped, MemoryTyped, Stages, Slots, Pointers, Blocks, Maps, LoadLocals,
        TaskRecord, Places
<1>15. TablesSoFar'
  <2>1. d = NULL \/ (\E j \in 0 .. (ld.i - 1) : dirs[d][j] = NULL) => Full
    BY <1>1, <1>2 DEF LInv, TablesSoFar, HasDirectory
  <2>2. CASE b = NULL
    BY <1>1, <1>2, <1>3, <1>5, <1>6, <2>2 DEF TablesSoFar, Put
  <2>3. CASE b # NULL
    <3>1. d # NULL /\ \A j \in 0 .. (Tables - 1) : dirs[d][j] # NULL
      BY <1>3, <1>5, <2>1, <2>3
    <3>2. pc' = "link" /\ tasks'[t].dir = b /\ b \in DOMAIN chunks' /\ chunks'[b] = d
      BY <1>2, <1>6, <1>10, <2>3 DEF Put
    <3>. QED
      BY <1>1, <1>2, <1>5, <3>1, <3>2 DEF TablesSoFar
  <2>. QED
    BY <2>2, <2>3
<1>16. LoadSoFar' /\ ErrorIsWild'
  BY <1>1, <1>2, <1>5, <1>6
  DEF LInv, LoadSoFar, ErrorIsWild, Published, Slots, Building, Mapping
<1>. QED
  BY <1>7, <1>13, <1>14, <1>15, <1>16 DEF LInv, Stated

(* The end of task_new: what the locals held is reached from the process.  *)
LEMMA LinkTaskKeeps ==
    ASSUME LInv, LinkTask
    PROVE  LInv'
<1>1. /\ pc = "link" /\ pc' = "map_program"
      /\ UNCHANGED <<vars, fileVars, dirs, tabs, chunks>>
      /\ UNCHANGED <<before, wild, ld, processes, current_process, step, res>>
  BY DEF LinkTask, pagingVars, countVars, fileVars
<1>2. PICK p, d, t, c, z : /\ p = ld.p /\ d = ld.dir /\ t = ld.task /\ c = tasks[t].dir /\ z = tail
                           /\ procs' = [procs EXCEPT ![p].task = t]
  BY DEF LinkTask
<1>3. \/ /\ head' = t /\ tail' = t /\ current' = t /\ tasks' = tasks
      \/ /\ tasks' = [tasks EXCEPT ![z].next = t, ![t].prev = z]
         /\ tail' = t /\ UNCHANGED <<head, current>>
  BY <1>2 DEF LinkTask
<1>4. /\ FInv' /\ Open' = Open /\ StillOthers(AllParts) /\ StillOthers(before)
  BY <1>1, KernelWaits DEF LInv, FileSoFar, PartsStandAlone, BeforeKept
<1>5. /\ p \in Owners /\ p \in Blocks /\ p \in DOMAIN procs /\ p \notin OtherParts
      /\ \A r \in Has(p) : Part(p, r) \notin OtherParts /\ Held(Part(p, r))
  BY <1>1, <1>2, OwnProcess DEF Building
<1>6. FileSoFar'
  BY <1>1, <1>4, FileStays DEF LInv
<1>7. Has(p) = Parts
  <2>1. ld.i = Tables /\ d # NULL /\ \A j \in 0 .. (Tables - 1) : dirs[d][j] # NULL
    BY <1>1, <1>2 DEF LInv, LoadSoFar, TablesSoFar
  <2>2. \A r \in Parts : r \in {STRUCT, DATA, STACK, TASK, CHUNK, DIRECTORY} \cup 0 .. (Tables - 1)
    BY PagingAssumption, SMT DEF Parts, STRUCT, DATA, STACK, TASK, CHUNK, DIRECTORY
  <2>. QED
    BY <1>1, <1>2, <2>1, <2>2
    DEF Has, Own, Built, Building, HasOwnData, HasData, HasStack, HasTask, HasDirectory
<1>8. /\ {STRUCT, DATA, STACK, TASK, CHUNK, DIRECTORY} \subseteq Parts
      /\ Part(p, TASK) = t /\ Part(p, CHUNK) = c
  BY <1>1, <1>2, PagingAssumption, SMT
  DEF Parts, Part, TaskOf, Own, Building, STRUCT, DATA, STACK, TASK, CHUNK, DIRECTORY
<1>9. t \in DOMAIN tasks /\ t \in Blocks /\ t # ERR /\ c \in DOMAIN chunks /\ chunks[c] = d
  <2>1. t \in DOMAIN tasks /\ Held(t)
    BY <1>5, <1>7, <1>8 DEF LInv, PartsExist, InMemory
  <2>2. t \in Blocks /\ t # ERR
    BY <2>1, ProcessAssumption, TotalAssumption, SMT DEF Held, Blocks
  <2>. QED
    BY <1>1, <1>2, <2>1, <2>2 DEF LInv, TablesSoFar
<1>10. /\ DOMAIN tasks' = DOMAIN tasks
       /\ \A u \in DOMAIN tasks : tasks'[u].dir = tasks[u].dir /\ tasks'[u] \in TaskRecord
       /\ {head, tail, current}' \subseteq Pointers
  <2>1. \A u \in DOMAIN tasks : u \in Blocks /\ tasks[u] \in TaskRecord
    BY DEF LInv, LoadTyped, MemoryTyped
  <2>2. z \in Pointers /\ {head, tail, current} \subseteq Pointers
    BY <1>2 DEF LInv, LoadTyped
  <2>3. CASE tasks' = tasks /\ {head, tail, current}' = {t}
    BY <1>9, <2>1, <2>3 DEF Pointers
  <2>4. CASE /\ tasks' = [tasks EXCEPT ![z].next = t, ![t].prev = z]
             /\ tail' = t /\ UNCHANGED <<head, current>>
    <3>1. PICK mid : mid = [tasks EXCEPT ![z].next = t]
      OBVIOUS
    <3>2. DOMAIN mid = DOMAIN tasks /\ tasks' = [mid EXCEPT ![t].prev = z]
      BY <2>4, <3>1
    <3>3. \A u \in DOMAIN tasks : mid[u].dir = tasks[u].dir /\ mid[u] \in TaskRecord
      BY <1>9, <2>1, <3>1 DEF TaskRecord, Places
    <3>4. \A u \in DOMAIN tasks : tasks'[u].dir = mid[u].dir /\ tasks'[u] \in TaskRecord
      BY <2>2, <3>2, <3>3 DEF TaskRecord, Places, Pointers
    <3>. QED
      BY <1>9, <2>2, <2>4, <3>2, <3>3, <3>4 DEF Pointers
  <2>. QED
    BY <1>3, <2>3, <2>4
<1>11. PICK rec : rec = [procs[p] EXCEPT !.task = t]
  OBVIOUS
<1>12. /\ rec \in Record /\ rec.ptr = procs[p].ptr /\ rec.size = procs[p].size
       /\ rec.stack = procs[p].stack /\ rec.task = t
       /\ procs' = [procs EXCEPT ![p] = rec] /\ procs'[p] = rec
  <2>1. procs[p] \in Record
    BY <1>5 DEF LInv, LoadTyped, MemoryTyped
  <2>. QED
    BY <1>2, <1>5, <1>9, <1>11, <2>1 DEF Record, Places
<1>13. WritesElsewhere /\ Grows
  BY <1>1, <1>5, <1>10, <1>12, WritesKeep DEF WritesElsewhere, Grows, Kept
<1>14. \A r \in Has(p)' : Stays(p, r)
  <2>1. Own(p) /\ ~Own(p)' /\ Has(p)' = Parts
    BY <1>1, <1>2, <1>9, <1>12, PagingAssumption DEF Own, Has, Building, Parts
  <2>2. TaskOf(p)' = t /\ TaskOf(p) = t
    BY <1>2, <1>12, <2>1 DEF TaskOf
  <2>3. DirectoryOf(p)' = d /\ DirectoryOf(p) = d
    BY <1>1, <1>2, <1>9, <1>10, <1>12, <2>1 DEF DirectoryOf
  <2>4. DataOf(p)' = DataOf(p) /\ SizeOf(p)' = SizeOf(p)
    BY <1>1, <1>12, <2>1 DEF DataOf, SizeOf
  <2>5. (tasks[TaskOf(p)].dir)' = tasks[TaskOf(p)].dir
    BY <1>9, <1>10, <2>2
  <2>6. ASSUME NEW r \in Parts PROVE Part(p, r)' = Part(p, r)
    BY <1>1, <1>12, <2>2, <2>3, <2>4, <2>5 DEF Part
  <2>. QED
    BY <1>5, <1>7, <2>1, <2>4, <2>6 DEF Stays
<1>15. Stated' /\ \A q \in Published : procs'[q] = procs[q]
  BY <1>1, <1>2, <1>4, <1>13, <1>14, StepKeepsParts
<1>16. LoadTyped'
  <2>1. \A q \in DOMAIN procs' : q \in Blocks /\ procs'[q] \in Record
    BY <1>12 DEF LInv, LoadTyped, MemoryTyped
  <2>2. \A u \in DOMAIN tasks' : u \in Blocks /\ tasks'[u] \in TaskRecord
    BY <1>10 DEF LInv, LoadTyped, MemoryTyped
  <2>. QED
    BY <1>1, <1>10, <2>1, <2>2
    DEF LInv, LoadTyped, MemoryTyped, Stages, Slots, Pointers, Blocks, Maps, LoadLocals,
        Record, TaskRecord, Places
<1>17. LoadSoFar' /\ TablesSoFar' /\ ErrorIsWild'
  BY <1>1, <1>15
  DEF LInv, LoadSoFar, TablesSoFar, ErrorIsWild, Published, Slots, Building, Mapping,
      HasDirectory
<1>. QED
  BY <1>6, <1>15, <1>16, <1>17 DEF LInv, Stated

(* The kernel gives back blocks of its own, which no open file uses.       *)
LEMMA KernelFrees ==
    ASSUME FInv, step = "idle", UNCHANGED fileVars, NEW F \in SUBSET Blocks, FreeAll(F),
           \A b \in F : Held(b), F \cap InUse = {}
    PROVE  /\ FInv' /\ Open' = Open
           /\ \A S : Others(S) /\ F \cap S = {} => StillOthers(S)
<1>1. /\ UNCHANGED <<file_descriptors, descs, fats, items, clones, step, fo, res>>
      /\ fo = NoOpen
  BY DEF fileVars, memoryVars, FInv, FopenSoFar, Apart
<1>2. StructuresKept
  BY <1>1 DEF StructuresKept, Kept
<1>3. IInv'
  BY FreeAllKeepsIInv DEF FInv, Held
<1>4. \A b \in InUse : live'[b] = live[b]
  BY InUseHeld DEF FInv, Held, FreeAll
<1>5. OpenWhole' /\ InUse' = InUse
  BY <1>1, <1>2, <1>4, OpenFilesKept DEF FInv
<1>6. (file_descriptors \in [Indices -> Pointers])' /\ res' \in -1 .. MaxDescriptors
  BY <1>1 DEF FInv, FilesTyped, Indices, Pointers, Blocks
<1>7. FInv'
  BY <1>1, <1>3, <1>5, <1>6, ReturnEndsFopen DEF Return, FInv
<1>8. Open' = Open
  BY <1>1 DEF Open, Indices
<1>9. FopensOwn' = FopensOwn
  BY <1>1 DEF FopensOwn, Pending
<1>. QED
  BY <1>5, <1>7, <1>8, <1>9, FreeingLeavesOthers

(* task_free after a failed chunk: what it finds behind address 0 is the   *)
(* load's own directory with the tables that were granted, and the task.   *)
LEMMA UnwindTaskKeeps ==
    ASSUME LInv, UnwindTask
    PROVE  LInv'
<1>1. /\ pc = "unwind" /\ UNCHANGED <<fileVars, tasks, dirs, tabs, chunks, head, tail, current>>
      /\ UNCHANGED <<before, ld, processes, current_process, step, res>>
  BY DEF UnwindTask, pagingVars, countVars, listVars, fileVars
<1>2. PICK p, d, t : p = ld.p /\ d = ld.dir /\ t = ld.task
  OBVIOUS
<1>3. /\ p \in Owners /\ p \in Blocks /\ p \in DOMAIN procs /\ p \notin Published
      /\ \A r \in Has(p) : Part(p, r) \notin OtherParts /\ Held(Part(p, r))
  BY <1>1, <1>2, OwnProcess DEF Building
<1>4. /\ FInv /\ step = "idle" /\ Open = {} /\ InUse = {}
      /\ Others(AllParts) /\ Others(before)
  <2>1. FInv /\ step = "idle" /\ Open = {} /\ Others(AllParts) /\ Others(before)
    BY <1>1 DEF LInv, FileSoFar, PartsStandAlone, BeforeKept, Reading
  <2>. QED
    BY <2>1 DEF InUse
<1>5. /\ ld \in LoadLocals /\ ld.i = Tables /\ Tables \in Nat /\ d \in DOMAIN dirs
      /\ dirs[d] \in Maps /\ chunks[NULL] = d /\ ld.path \in Calls /\ processes[ld.slot] = NULL
  BY <1>1, <1>2, PagingAssumption
  DEF LInv, LoadTyped, MemoryTyped, LoadSoFar, TablesSoFar, HasDirectory
<1>6. CASE d = NULL
  <2>1. pc' = "lost" /\ wild' = TRUE /\ UNCHANGED <<vars, procs>>
    BY <1>2, <1>6 DEF UnwindTask
  <2>2. FInv' /\ Open' = Open /\ StillOthers(AllParts) /\ StillOthers(before)
    BY <1>1, <1>4, <2>1, KernelWaits
  <2>3. WritesElsewhere /\ Grows
    BY <1>1, <2>1, NothingWritten
  <2>4. FileSoFar'
    BY <1>1, <2>1, <2>2, FileStays DEF LInv
  <2>5. Stated' /\ \A q \in Published : procs'[q] = procs[q]
    BY <1>1, <1>2, <2>1, <2>2, <2>3, StepKeepsParts DEF Building, Mapping
  <2>6. LoadTyped'
    BY <1>1, <2>1
    DEF LInv, LoadTyped, MemoryTyped, Stages, Slots, Pointers, Blocks, Maps, LoadLocals
  <2>7. LoadSoFar' /\ TablesSoFar' /\ ErrorIsWild'
    BY <1>1, <2>1
    DEF LoadSoFar, TablesSoFar, ErrorIsWild, Building, Mapping, HasDirectory
  <2>. QED
    BY <2>4, <2>5, <2>6, <2>7 DEF LInv, Stated
<1>7. CASE d # NULL
  <2>1. PICK F : F = (ChunkBlocks(NULL) \cup {t}) \ {NULL}
    OBVIOUS
  <2>2. /\ FreeAll(F) /\ procs' = [procs EXCEPT ![p].task = ERR]
        /\ pc' = "map_program" /\ UNCHANGED wild
    BY <1>2, <1>7, <2>1 DEF UnwindTask
  <2>3. ASSUME NEW b \in F
        PROVE  \E r \in Has(p) : b = Part(p, r) /\ r \notin {STRUCT, DATA, STACK}
    <3>1. b # NULL /\ (b = t \/ b = d \/ \E i \in 0 .. (Tables - 1) : b = dirs[d][i])
      BY <1>5, <2>1, <2>3 DEF ChunkBlocks, Maps
    <3>2. Own(p) /\ Has(p) = Built
      BY <1>1, <1>2 DEF Own, Has, Building
    <3>3. TASK \in Built /\ Part(p, TASK) = t /\ TASK \notin {STRUCT, DATA, STACK}
      BY <1>1, <1>2, <3>2, PagingAssumption, SMT
      DEF Built, Parts, Part, TaskOf, STRUCT, DATA, STACK, TASK, HasTask
    <3>4. /\ DIRECTORY \in Built /\ Part(p, DIRECTORY) = d
          /\ DIRECTORY \notin {STRUCT, DATA, STACK}
      BY <1>1, <1>2, <1>7, <3>2, PagingAssumption, SMT
      DEF Built, Parts, Part, DirectoryOf, STRUCT, DATA, STACK, TASK, CHUNK, DIRECTORY,
          HasDirectory
    <3>5. ASSUME NEW i \in 0 .. (Tables - 1), b = dirs[d][i]
          PROVE  i \in Built /\ Part(p, i) = b /\ i \notin {STRUCT, DATA, STACK}
      <4>1. i \notin {STRUCT, DATA, STACK, TASK, CHUNK, DIRECTORY} /\ i \in Parts
        BY <1>5, <3>5, SMT DEF STRUCT, DATA, STACK, TASK, CHUNK, DIRECTORY, Parts
      <4>2. i \in 0 .. (ld.i - 1)
        BY <1>5
      <4>. QED
        BY <1>1, <1>2, <3>1, <3>2, <3>5, <4>1, <4>2
        DEF Built, Part, DirectoryOf, HasDirectory
    <3>. QED
      BY <3>1, <3>2, <3>3, <3>4, <3>5
  <2>4. /\ \A b \in F : Held(b) /\ b \notin OtherParts /\ b \notin before
        /\ F \in SUBSET Blocks
    BY <1>2, <1>3, <2>3 DEF LInv, BeforeKept, Held
  <2>5. PICK K : K = AllParts \ F
    OBVIOUS
  <2>6. Others(K) /\ OtherParts \subseteq K
    BY <1>4, <2>4, <2>5 DEF Others, OtherParts, AllParts
  <2>7. FInv' /\ Open' = Open /\ StillOthers(K) /\ StillOthers(before)
    <3>1. F \cap K = {} /\ F \cap before = {} /\ F \cap InUse = {}
      BY <1>4, <2>4, <2>5
    <3>. QED
      BY <1>1, <1>4, <2>2, <2>4, <2>6, <3>1, KernelFrees
  <2>8. PICK rec : rec = [procs[p] EXCEPT !.task = ERR]
    OBVIOUS
  <2>9. /\ rec \in Record /\ rec.ptr = procs[p].ptr /\ rec.size = procs[p].size
        /\ rec.stack = procs[p].stack /\ rec.task = ERR
        /\ procs' = [procs EXCEPT ![p] = rec] /\ procs'[p] = rec
    <3>1. procs[p] \in Record
      BY <1>3 DEF LInv, LoadTyped, MemoryTyped
    <3>. QED
      BY <1>3, <2>2, <2>8, <3>1 DEF Record, Places
  <2>10. p \notin OtherParts
    BY <1>1, <1>2, OwnProcess DEF Building
  <2>11. WritesElsewhere /\ Grows
    BY <1>1, <2>9, <2>10, WritesKeep DEF WritesElsewhere, Grows, Kept
  <2>12. \A r \in Has(p)' : Stays(p, r) /\ Part(p, r) \in K
    <3>1. {STRUCT, DATA, STACK} \subseteq Has(p) /\ ~Own(p)' /\ Own(p)
      BY <1>1, <1>2, <2>2, PagingAssumption, SMT
      DEF Has, Own, Built, Parts, STRUCT, DATA, STACK, Building, HasOwnData, HasData, HasStack
    <3>2. Has(p)' = {STRUCT, DATA, STACK}
      BY <2>9, <3>1 DEF Has
    <3>3. ASSUME NEW r \in {STRUCT, DATA, STACK} PROVE Part(p, r)' = Part(p, r)
      BY <1>1, <2>9, <3>1, <3>3 DEF Part, DataOf, STRUCT, DATA, STACK
    <3>4. SizeOf(p)' = SizeOf(p)
      BY <1>1, <2>9, <3>1 DEF SizeOf
    <3>5. ASSUME NEW r \in {STRUCT, DATA, STACK} PROVE Part(p, r) \in K
      <4>1. Part(p, r) \in AllParts /\ Part(p, r) \notin F
        BY <1>3, <2>3, <3>1 DEF AllParts, LInv, PartsStandAlone
      <4>. QED
        BY <2>5, <4>1
    <3>. QED
      BY <1>3, <3>1, <3>2, <3>3, <3>4, <3>5 DEF Stays
  <2>13. Stated' /\ \A q \in Published : procs'[q] = procs[q]
    BY <1>1, <1>2, <2>6, <2>7, <2>11, <2>12, StepKeepsSome
  <2>14. LoadTyped'
    <3>1. \A q \in DOMAIN procs' : q \in Blocks /\ procs'[q] \in Record
      BY <2>9 DEF LInv, LoadTyped, MemoryTyped
    <3>. QED
      BY <1>1, <2>2, <3>1
      DEF LInv, LoadTyped, MemoryTyped, Stages, Slots, Pointers, Blocks, Maps, LoadLocals,
          Record, Places
  <2>15. FileSoFar'
    BY <1>1, <2>2, <2>7, FileStays DEF LInv
  <2>16. LoadSoFar' /\ TablesSoFar' /\ ErrorIsWild'
    <3>1. Published' = Published /\ pc' = "map_program" /\ UNCHANGED <<wild, ld>>
      BY <1>1, <2>2 DEF Published, Slots
    <3>2. LoadSoFar'
      BY <1>1, <1>2, <1>3, <1>5, <3>1 DEF LoadSoFar, Building, Mapping
    <3>3. TablesSoFar'
      BY <3>1 DEF TablesSoFar, HasDirectory
    <3>4. ErrorIsWild'
      BY <2>13, <3>1 DEF LInv, ErrorIsWild
    <3>. QED
      BY <3>2, <3>3, <3>4
  <2>. QED
    BY <2>13, <2>14, <2>15, <2>16 DEF LInv, Stated
<1>. QED
  BY <1>6, <1>7

-----------------------------------------------------------------------------
(* The last steps of a load, and all of them.                              *)

(* paging_map_to writes entries, and makes no table.                       *)
LEMMA MapKeepsTables ==
    ASSUME NEW d, NEW v, NEW page, NEW n
    PROVE  /\ DOMAIN MapTo(d, v, page, n) = DOMAIN tabs
           /\ \A t \in DOMAIN tabs : DOMAIN MapTo(d, v, page, n)[t] = DOMAIN tabs[t]
  BY DEF MapTo

(* The two steps of process_map_memory.                                    *)
LEMMA MappingKeeps ==
    ASSUME LInv, MapProgram \/ MapStack
    PROVE  LInv'
<1>1. /\ UNCHANGED <<vars, fileVars, dirs, chunks, procs, tasks, head, tail, current, ld>>
      /\ UNCHANGED <<processes, current_process, before, step, res>>
      /\ pc \in {"map_program", "map_stack"}
      /\ \/ procs[ld.p].task # ERR /\ wild' = wild
         \/ procs[ld.p].task = ERR /\ wild' = TRUE
         \/ procs[ld.p].task = ERR /\ wild' = wild /\ pc = "map_stack"
      /\ \/ pc = "map_program" /\ pc' = "map_stack"
         \/ pc = "map_stack" /\ pc' = "publish"
         \/ pc' = "lost"
  BY DEF MapProgram, MapStack, listVars, procVars, countVars, fileVars
<1>2. tabs' = tabs \/ \E d, v, page, n : tabs' = MapTo(d, v, page, n)
  BY DEF MapProgram, MapStack
<1>3. /\ DOMAIN tabs' = DOMAIN tabs
      /\ \A t \in DOMAIN tabs : DOMAIN tabs'[t] = DOMAIN tabs[t]
  BY <1>2, MapKeepsTables
<1>4. FInv' /\ Open' = Open /\ StillOthers(AllParts) /\ StillOthers(before)
  BY <1>1, KernelWaits DEF LInv, FileSoFar, PartsStandAlone, BeforeKept
<1>5. FileSoFar'
  BY <1>1, <1>4, FileStays DEF LInv
<1>6. WritesElsewhere /\ Grows
  BY <1>1, <1>3 DEF WritesElsewhere, Grows, Kept
<1>7. PICK p : p = ld.p
  OBVIOUS
<1>8. p \in Owners
  BY <1>1, <1>7, OwnProcess DEF Mapping
<1>9. \A r \in Has(p)' : Stays(p, r)
  <2>1. ~Own(p) /\ ~Own(p)'
    BY <1>1 DEF Own, Building
  <2>2. Has(p)' = Has(p) /\ SizeOf(p)' = SizeOf(p)
    BY <1>1, <2>1 DEF Has, Parts, SizeOf
  <2>3. ASSUME NEW r PROVE Part(p, r)' = Part(p, r)
    BY <1>1, <2>1 DEF Part, DataOf, TaskOf, DirectoryOf
  <2>. QED
    BY <1>8, <2>2, <2>3 DEF Stays
<1>10. Stated' /\ \A q \in Published : procs'[q] = procs[q]
  BY <1>1, <1>4, <1>6, <1>7, <1>9, StepKeepsParts
<1>11. LoadTyped'
  <2>1. \A t \in DOMAIN tabs' : t \in Pointers /\ DOMAIN tabs'[t] = 0 .. (PagesPerTable - 1)
    BY <1>3 DEF LInv, LoadTyped, MemoryTyped
  <2>. QED
    BY <1>1, <2>1
    DEF LInv, LoadTyped, MemoryTyped, Stages, Slots, Pointers, Blocks, Maps, LoadLocals
<1>12. LoadSoFar' /\ TablesSoFar'
  BY <1>1 DEF LInv, LoadSoFar, TablesSoFar, Published, Slots, Building, Mapping, HasDirectory
<1>13. ErrorIsWild'
  BY <1>1 DEF LInv, ErrorIsWild, Published, Slots
<1>. QED
  BY <1>5, <1>10, <1>11, <1>12, <1>13 DEF LInv, Stated

(* The process goes into its slot, and the load is over.                   *)
LEMMA PublishKeeps ==
    ASSUME LInv, Publish
    PROVE  LInv'
<1>1. /\ pc = "publish" /\ pc' = "idle" /\ ld' = NoLoad
      /\ UNCHANGED <<vars, fileVars, dirs, tabs, chunks, procs, tasks, head, tail, current>>
      /\ UNCHANGED <<before, wild, step, res>>
  BY DEF Publish, pagingVars, listVars, countVars, fileVars
<1>2. PICK p, s : /\ p = ld.p /\ s = ld.slot
                  /\ processes' = [processes EXCEPT ![s] = p] /\ current_process' = p
  BY DEF Publish
<1>3. p \in Owners /\ p \in Blocks /\ s \in Slots /\ processes \in [Slots -> Pointers]
  BY <1>1, <1>2, OwnProcess DEF Mapping, LInv, LoadTyped, LoadLocals
<1>4. FInv' /\ Open' = Open /\ StillOthers(AllParts) /\ StillOthers(before)
  BY <1>1, KernelWaits DEF LInv, FileSoFar, PartsStandAlone, BeforeKept
<1>5. FileSoFar'
  BY <1>1, <1>4, FileStays DEF LInv
<1>6. Published' \subseteq Published \cup {p} /\ processes' \in [Slots -> Pointers]
  BY <1>2, <1>3 DEF Published, Slots, Pointers, Blocks
<1>7. Owners' \subseteq Owners /\ NULL \notin Owners /\ ld.p' = NULL
  BY <1>1, <1>3, <1>6, Elsewhere DEF Owners, LInv, Building, Mapping, NoLoad
<1>8. ASSUME NEW q \in Owners', NEW r \in Has(q)'
      PROVE  Stays(q, r) /\ Part(q, r) \in AllParts
  <2>1. ~Own(q) /\ ~Own(q)'
    BY <1>1 DEF Own, Building
  <2>2. Has(q)' = Has(q) /\ SizeOf(q)' = SizeOf(q)
    BY <1>1, <2>1 DEF Has, Parts, SizeOf
  <2>3. Part(q, r)' = Part(q, r)
    BY <1>1, <2>1 DEF Part, DataOf, TaskOf, DirectoryOf
  <2>. QED
    BY <1>7, <1>8, <2>2, <2>3 DEF Stays, AllParts
<1>9. PartsChange(AllParts, NULL, NULL)
  BY <1>7, <1>8 DEF PartsChange
<1>10. Grows
  BY <1>1 DEF Grows
<1>11. PartsStandAlone' /\ PartsExist' /\ BeforeKept'
  BY <1>1, <1>4, <1>9, <1>10, PartsKeep, BeforeKeeps DEF LInv
<1>12. LoadTyped'
  <2>1. NoLoad \in LoadLocals
    BY ProcessAssumption, PagingAssumption, SMT
    DEF NoLoad, LoadLocals, NoOpen, Slots, Pointers, Sizes
  <2>2. MemoryTyped' /\ {head, tail, current, current_process}' \subseteq Pointers
    BY <1>1, <1>2, <1>3 DEF LInv, LoadTyped, MemoryTyped, Pointers, Blocks, Maps
  <2>. QED
    BY <1>1, <1>6, <2>1, <2>2
    DEF LInv, LoadTyped, Stages, Slots, Pointers, Blocks, LoadLocals
<1>13. LoadSoFar' /\ TablesSoFar'
  BY <1>1 DEF LoadSoFar, TablesSoFar, Building, Mapping, HasDirectory, NoLoad
<1>14. ErrorIsWild'
  BY <1>1, <1>2, <1>6 DEF LInv, ErrorIsWild
<1>. QED
  BY <1>5, <1>11, <1>12, <1>13, <1>14 DEF LInv

(* No process, no load and no file at first.                               *)
LEMMA InitLInv ==
    ASSUME LoadInit
    PROVE  LInv
<1>1. /\ FilesInit /\ pc = "idle" /\ ld = NoLoad /\ before = {}
      /\ dirs = <<>> /\ tabs = <<>> /\ chunks = <<>> /\ procs = <<>> /\ tasks = <<>>
      /\ head = NULL /\ tail = NULL /\ current = NULL /\ current_process = NULL
      /\ processes = [s \in Slots |-> NULL]
  BY DEF LoadInit
<1>2. FInv /\ step = "idle" /\ Open = {}
  BY <1>1, InitFInv DEF FilesInit, Open, Indices
<1>3. FileSoFar
  BY <1>1, <1>2 DEF FileSoFar, Reading
<1>4. NoLoad \in LoadLocals
  BY ProcessAssumption, PagingAssumption, SMT
  DEF NoLoad, LoadLocals, NoOpen, Slots, Pointers, Sizes
<1>5. LoadTyped
  BY <1>1, <1>4 DEF LoadTyped, MemoryTyped, Stages, Pointers
<1>6. Published = {} /\ Owners = {} /\ AllParts = {}
  BY <1>1 DEF Published, Owners, AllParts, Building, Mapping
<1>7. PartsStandAlone /\ PartsExist /\ BeforeKept
  BY <1>1, <1>6 DEF PartsStandAlone, PartsExist, BeforeKept, Others
<1>8. LoadSoFar /\ TablesSoFar /\ ErrorIsWild
  BY <1>1, <1>6 DEF LoadSoFar, TablesSoFar, ErrorIsWild, Building, Mapping, HasDirectory, NoLoad
<1>. QED
  BY <1>3, <1>5, <1>7, <1>8 DEF LInv

(* Between the steps nothing changes.                                      *)
LEMMA StutterKeepsLInv ==
    ASSUME LInv, UNCHANGED allVars
    PROVE  LInv'
<1>1. /\ UNCHANGED <<vars, fileVars, dirs, tabs, chunks, procs, tasks, head, tail, current>>
      /\ UNCHANGED <<before, wild, step, res, pc, ld, processes, current_process>>
  BY DEF allVars, pagingVars, listVars, loadVars, countVars, procVars, fileVars
<1>2. FInv' /\ Open' = Open /\ StillOthers(AllParts) /\ StillOthers(before) /\ Full' = Full
  BY <1>1, KernelWaits DEF LInv, FileSoFar, PartsStandAlone, BeforeKept
<1>3. FileSoFar'
  BY <1>1, <1>2 DEF LInv, FileSoFar
<1>4. LoadTyped'
  BY <1>1
  DEF LInv, LoadTyped, MemoryTyped, Stages, Slots, Pointers, Blocks, Maps, LoadLocals
<1>5. Owners' = Owners
  BY <1>1 DEF Owners, Published, Slots
<1>6. ASSUME NEW p \in Owners, NEW r \in Has(p)'
      PROVE  Stays(p, r) /\ Part(p, r) \in AllParts
  <2>1. Has(p)' = Has(p) /\ SizeOf(p)' = SizeOf(p)
    BY <1>1 DEF Has, Parts, SizeOf, Own, Built, HasOwnData
  <2>2. Part(p, r)' = Part(p, r)
    BY <1>1 DEF Part, DataOf, TaskOf, DirectoryOf, Own
  <2>. QED
    BY <1>6, <2>1, <2>2 DEF Stays, AllParts
<1>7. PartsChange(AllParts, NULL, NULL) /\ Grows
  BY <1>1, <1>5, <1>6 DEF PartsChange, Grows
<1>8. PartsStandAlone' /\ PartsExist' /\ BeforeKept'
  BY <1>1, <1>2, <1>7, PartsKeep, BeforeKeeps DEF LInv
<1>9. LoadSoFar' /\ TablesSoFar' /\ ErrorIsWild'
  BY <1>1, <1>2 DEF LInv, LoadSoFar, TablesSoFar, ErrorIsWild, Published, Slots
<1>. QED
  BY <1>3, <1>4, <1>8, <1>9 DEF LInv

(* The invariant is inductive.                                             *)
LEMMA NextLInv ==
    ASSUME LInv, [LoadNext]_allVars
    PROVE  LInv'
  BY BeginLoadKeeps, AllocProcessKeeps, OpeningKeeps, StatFileKeeps, AllocDataKeeps,
     ReadFileKeeps, CloseFileKeeps, AllocStackKeeps, AllocTaskKeeps, AllocDirectoryKeeps,
     AllocTableKeeps, AllocChunkKeeps, LinkTaskKeeps, UnwindTaskKeeps, MappingKeeps,
     PublishKeeps, StutterKeepsLInv DEF LoadNext

(* Whatever is loaded, and whichever allocation fails, every block of a    *)
(* process has one owner and one role (process.c, task.c, paging.c).       *)
THEOREM LoadInvariant == LoadSpec => []LInv
<1>1. LoadInit => LInv
  BY InitLInv
<1>2. LInv /\ [LoadNext]_allVars => LInv'
  BY NextLInv
<1>. QED
  BY <1>1, <1>2, PTL DEF LoadSpec

-----------------------------------------------------------------------------
(* What the runs check.                                                    *)

(* However a load ends, its file is closed (process_load_binary).          *)
THEOREM NoFileStaysOpen == LoadSpec => []NoFileLeftOpen
<1>1. LInv => NoFileLeftOpen
  BY DEF LInv, FileSoFar, NoFileLeftOpen, Reading, Open, OpenFiles, Indices
<1>. QED
  BY <1>1, LoadInvariant, PTL

(* Type correctness of the loads, of what they make and of the file layer. *)
THEOREM LoadTypeCorrect == LoadSpec => []LoadTypeOK
<1>1. LInv => LoadTypeOK
  <2>. SUFFICES ASSUME LInv PROVE LoadTypeOK
    OBVIOUS
  <2>1. FilesTypeOK
    BY FilesAreTyped DEF LInv, FileSoFar
  <2>2. Pointers = Places
    BY DEF Pointers, Places
  <2>. QED
    BY <2>1, <2>2 DEF LInv, LoadTyped, MemoryTyped, LoadLocals, Maps, LoadTypeOK
<1>. QED
  BY <1>1, LoadInvariant, PTL

(* A process with a task has all its parts, found along its pointers.      *)
Finished(p) == p \in Owners /\ ~Own(p) /\ procs[p].task # ERR

(* A published process has been loaded to the end.                         *)
LEMMA PublishedFinished ==
    ASSUME LInv, ~wild, NEW p \in Published
    PROVE  Finished(p)
<1>1. ~Own(p)
  BY DEF LInv, LoadSoFar, Own
<1>. QED
  BY <1>1 DEF LInv, ErrorIsWild, Finished, Owners

(* It has all its parts, each where its records say and each allocated.    *)
LEMMA FinishedParts ==
    ASSUME LInv, NEW p, Finished(p)
    PROVE  /\ Has(p) = Parts /\ {STRUCT, DATA, STACK, TASK, CHUNK, DIRECTORY} \subseteq Parts
           /\ Part(p, STRUCT) = p /\ Part(p, DATA) = procs[p].ptr
           /\ Part(p, STACK) = procs[p].stack /\ Part(p, TASK) = procs[p].task
           /\ Part(p, CHUNK) = ChunkOf(p) /\ Part(p, DIRECTORY) = DirOf(p)
           /\ \A i \in 0 .. (Tables - 1) : i \in Parts /\ Part(p, i) = dirs[DirOf(p)][i]
           /\ \A r \in Parts : Held(Part(p, r)) /\ InMemory(p, r)
           /\ DirOf(p) \in DOMAIN dirs /\ dirs[DirOf(p)] \in Maps
<1>1. ~Own(p) /\ p \in Owners /\ procs[p].task # ERR
  BY DEF Finished
<1>2. /\ Has(p) = Parts /\ {STRUCT, DATA, STACK, TASK, CHUNK, DIRECTORY} \subseteq Parts
      /\ \A i \in 0 .. (Tables - 1) : i \in Parts
  BY <1>1, PagingAssumption, SMT
  DEF Has, Parts, STRUCT, DATA, STACK, TASK, CHUNK, DIRECTORY
<1>3. TaskOf(p) = procs[p].task /\ DirectoryOf(p) = DirOf(p) /\ DataOf(p) = procs[p].ptr
  BY <1>1 DEF TaskOf, DirectoryOf, DataOf, DirOf
<1>4. /\ Part(p, STRUCT) = p /\ Part(p, DATA) = procs[p].ptr
      /\ Part(p, STACK) = procs[p].stack /\ Part(p, TASK) = procs[p].task
      /\ Part(p, CHUNK) = ChunkOf(p) /\ Part(p, DIRECTORY) = DirOf(p)
  BY <1>3 DEF Part, ChunkOf, STRUCT, DATA, STACK, TASK, CHUNK, DIRECTORY
<1>5. \A i \in 0 .. (Tables - 1) : Part(p, i) = dirs[DirOf(p)][i]
  <2>1. \A i \in 0 .. (Tables - 1) : i \notin {STRUCT, DATA, STACK, TASK, CHUNK, DIRECTORY}
    BY PagingAssumption, SMT DEF STRUCT, DATA, STACK, TASK, CHUNK, DIRECTORY
  <2>. QED
    BY <1>3, <2>1 DEF Part
<1>6. \A r \in Parts : Held(Part(p, r)) /\ InMemory(p, r)
  BY <1>1, <1>2 DEF LInv, PartsStandAlone, PartsExist, Others, AllParts
<1>7. DirOf(p) \in DOMAIN dirs
  BY <1>2, <1>4, <1>6 DEF InMemory
<1>. QED
  BY <1>2, <1>4, <1>5, <1>6, <1>7 DEF LInv, LoadTyped, MemoryTyped

(* The structures of a process are parts of it, neither data nor stack.    *)
LEMMA StructuresAreParts ==
    ASSUME LInv, NEW p, Finished(p), NEW b \in Structures(p)
    PROVE  \E r \in Parts : r \notin {DATA, STACK} /\ b = Part(p, r)
<1>1. b \in {p, procs[p].task, ChunkOf(p), DirOf(p)} \/ \E i \in 0 .. (Tables - 1) :
         b = dirs[DirOf(p)][i]
  <2>1. DOMAIN dirs[DirOf(p)] = 0 .. (Tables - 1)
    BY FinishedParts DEF Maps
  <2>2. DirOf(p) = chunks[ChunkOf(p)]
    BY DEF DirOf, ChunkOf
  <2>. QED
    BY <2>1, <2>2 DEF Structures, ChunkBlocks
<1>2. /\ \A r \in {STRUCT, TASK, CHUNK, DIRECTORY} : r \notin {DATA, STACK}
      /\ \A i \in 0 .. (Tables - 1) : i \notin {DATA, STACK}
  BY PagingAssumption, SMT DEF STRUCT, DATA, STACK, TASK, CHUNK, DIRECTORY
<1>3. CASE b \in {p, procs[p].task, ChunkOf(p), DirOf(p)}
  BY <1>2, <1>3, FinishedParts
<1>4. CASE \E i \in 0 .. (Tables - 1) : b = dirs[DirOf(p)][i]
  BY <1>2, <1>4, FinishedParts
<1>. QED
  BY <1>1, <1>3, <1>4

(* Nothing of a published process is released, and nothing is shared.      *)
THEOREM PublishedStayAlive == LoadSpec => []StructuresAlive
<1>1. LInv => StructuresAlive
  <2>. SUFFICES ASSUME LInv, ~wild, NEW p \in Published
                PROVE  /\ \A b \in Structures(p) : live[b] > 0
                       /\ \A q \in Published \ {p} : Structures(p) \cap Structures(q) = {}
                       /\ DataRange(p) \subseteq Owned(procs[p].ptr)
                       /\ StackRange(p) \subseteq Owned(procs[p].stack)
    BY DEF StructuresAlive
  <2>1. Finished(p) /\ \A q \in Published : Finished(q) /\ q \in Owners
    BY PublishedFinished DEF Finished
  <2>2. ASSUME NEW b \in Structures(p) PROVE live[b] > 0
    BY <2>1, StructuresAreParts, FinishedParts DEF Held
  <2>3. ASSUME NEW q \in Published \ {p}, NEW b \in Structures(p), b \in Structures(q)
        PROVE  FALSE
    <3>1. PICK r \in Parts : b = Part(p, r)
      BY <2>1, StructuresAreParts
    <3>2. PICK s \in Parts : b = Part(q, s)
      BY <2>1, <2>3, StructuresAreParts
    <3>3. Has(p) = Parts /\ Has(q) = Parts
      BY <2>1, FinishedParts
    <3>. QED
      BY <2>1, <2>3, <3>1, <3>2, <3>3 DEF LInv, PartsStandAlone
  <2>4. /\ live[procs[p].ptr] = BlocksOf(procs[p].size)
        /\ live[procs[p].stack] = BlocksOf(StackSize)
    <3>1. SizeOf(p) = procs[p].size
      BY <2>1 DEF SizeOf, Finished
    <3>2. InMemory(p, DATA) /\ InMemory(p, STACK)
      BY <2>1, FinishedParts
    <3>3. Part(p, DATA) = procs[p].ptr /\ Part(p, STACK) = procs[p].stack
      BY <2>1, FinishedParts
    <3>. QED
      BY <3>1, <3>2, <3>3 DEF InMemory
  <2>. QED
    BY <2>2, <2>3, <2>4 DEF DataRange, StackRange, Owned
<1>. QED
  BY <1>1, LoadInvariant, PTL

-----------------------------------------------------------------------------
(* A process that has a task keeps what it is found by.                    *)

(* The end of task_new writes links only.                                  *)
LEMMA LinkKeepsDirectories ==
    ASSUME LInv, LinkTask, NEW t \in DOMAIN tasks
    PROVE  t \in DOMAIN tasks' /\ tasks'[t].dir = tasks[t].dir
<1>1. PICK z, u : z = tail /\ u = ld.task
  OBVIOUS
<1>2. tasks' = tasks \/ tasks' = [tasks EXCEPT ![z].next = u, ![u].prev = z]
  BY <1>1 DEF LinkTask
<1>3. tasks[t] \in TaskRecord /\ \A v \in DOMAIN tasks : tasks[v] \in TaskRecord
  BY DEF LInv, LoadTyped, MemoryTyped
<1>4. PICK mid : mid = [tasks EXCEPT ![z].next = u]
  OBVIOUS
<1>5. DOMAIN mid = DOMAIN tasks /\ mid[t].dir = tasks[t].dir /\ DOMAIN mid[t] = DOMAIN tasks[t]
  BY <1>3, <1>4 DEF TaskRecord
<1>6. CASE tasks' = [mid EXCEPT ![u].prev = z]
  BY <1>3, <1>5, <1>6 DEF TaskRecord
<1>. QED
  BY <1>2, <1>4, <1>6

(* What a step writes is the load's own, or nobody's.                      *)
LEMMA WritesAreOwn ==
    ASSUME LInv, [LoadNext]_allVars
    PROVE  /\ WritesElsewhere
           /\ pc \notin Mapping \cup {"table"} => tabs' = tabs
           /\ pc = "table" => Kept(tabs, tabs', AllParts)
<1>1. CASE UNCHANGED <<procs, chunks, dirs, tasks, tabs>>
  BY <1>1 DEF WritesElsewhere, Kept
<1>2. CASE AllocProcess
  <2>1. /\ pc = "process" /\ KZalloc(ProcessSize) /\ UNCHANGED fileVars
        /\ UNCHANGED <<chunks, dirs, tasks, tabs>>
        /\ procs' = procs \/ \E x, y : x = ret' /\ procs' = Put(procs, x, y)
    BY <1>2 DEF AllocProcess, pagingVars, listVars
  <2>2. \A x : x = ret' => x \notin OtherParts
    BY <2>1, KernelSizes, LoadAllocates, Elsewhere DEF LInv
  <2>. QED
    BY <2>1, <2>2, WritesKeep DEF WritesElsewhere, Kept, Mapping
<1>3. CASE ReadFile \/ AllocStack \/ UnwindTask
  <2>1. /\ pc \in {"read", "stack", "unwind"}
        /\ UNCHANGED <<chunks, dirs, tasks, tabs>>
    BY <1>3 DEF ReadFile, AllocStack, UnwindTask, pagingVars, listVars
  <2>2. \A q \in DOMAIN procs : q # ld.p => q \in DOMAIN procs' /\ procs'[q] = procs[q]
    BY <1>3 DEF ReadFile, AllocStack, UnwindTask
  <2>3. ld.p \notin OtherParts
    BY <2>1, OwnProcess DEF Building
  <2>. QED
    BY <2>1, <2>2, <2>3 DEF WritesElsewhere, Kept, Mapping
<1>4. CASE AllocTask
  <2>1. /\ pc = "task" /\ KZalloc(BlockSize) /\ UNCHANGED fileVars
        /\ UNCHANGED <<chunks, dirs, procs, tabs>>
        /\ tasks' = tasks \/ \E x, y : x = ret' /\ tasks' = Put(tasks, x, y)
    BY <1>4 DEF AllocTask, pagingVars, procVars
  <2>2. \A x : x = ret' => x \notin OtherParts
    BY <2>1, KernelSizes, LoadAllocates, Elsewhere DEF LInv
  <2>. QED
    BY <2>1, <2>2 DEF WritesElsewhere, Kept, Mapping, Put
<1>5. CASE AllocDirectory
  <2>1. /\ pc = "directory" /\ KZalloc(BlockSize) /\ UNCHANGED fileVars
        /\ UNCHANGED <<chunks, tasks, procs, tabs>>
        /\ \E x, y : x = ret' /\ dirs' = Put(dirs, x, y)
    BY <1>5 DEF AllocDirectory, NewDirectory, listVars, procVars
  <2>2. \A x : x = ret' => x \notin OtherParts
    BY <2>1, KernelSizes, LoadAllocates, Elsewhere DEF LInv
  <2>. QED
    BY <2>1, <2>2, WritesKeep DEF WritesElsewhere, Kept, Mapping
<1>6. CASE AllocTable
  <2>1. PICK x, y, d : /\ x = ret' /\ d = ld.dir /\ tabs' = Put(tabs, x, y)
                       /\ dirs' = [dirs EXCEPT ![d][ld.i] = x]
    BY <1>6 DEF AllocTable, NewTable
  <2>2. /\ pc = "table" /\ KZalloc(BlockSize) /\ UNCHANGED fileVars
        /\ UNCHANGED <<chunks, tasks, procs>>
    BY <1>6 DEF AllocTable, NewTable, listVars, procVars
  <2>3. x \notin AllParts
    BY <2>1, <2>2, KernelSizes, LoadAllocates
  <2>4. d \notin OtherParts
    <3>1. d # NULL => DIRECTORY \in Has(ld.p) /\ Part(ld.p, DIRECTORY) = d
      BY <2>1, <2>2, PagingAssumption, SMT
      DEF Has, Part, DirectoryOf, Own, Built, Parts, STRUCT, DATA, STACK, TASK, CHUNK,
          DIRECTORY, Building, HasDirectory
    <3>2. NULL \notin OtherParts
      BY Elsewhere DEF LInv
    <3>. QED
      BY <2>2, <3>1, <3>2, OwnProcess DEF Building
  <2>5. Kept(tabs, tabs', AllParts)
    BY <2>1, <2>3, WritesKeep
  <2>6. Kept(dirs, dirs', OtherParts)
    BY <2>1, <2>4, WritesKeep
  <2>. QED
    BY <2>2, <2>5, <2>6 DEF WritesElsewhere, Kept, Mapping
<1>7. CASE AllocChunk
  <2>1. /\ pc = "chunk" /\ KZalloc(BlockSize) /\ UNCHANGED fileVars
        /\ UNCHANGED <<dirs, procs, tabs>>
        /\ \A t \in DOMAIN tasks : t # ld.task => tasks'[t] = tasks[t]
    BY <1>7 DEF AllocChunk, NewChunk, procVars
  <2>2. PICK x, y : x = ret' /\ chunks' = Put(chunks, x, y)
    BY <1>7 DEF AllocChunk, NewChunk
  <2>3. ld.task \notin OtherParts
    <3>1. TASK \in Has(ld.p) /\ Part(ld.p, TASK) = ld.task
      BY <2>1, PagingAssumption, SMT
      DEF Has, Part, TaskOf, Own, Built, Parts, STRUCT, DATA, STACK, TASK, Building, HasTask
    <3>. QED
      BY <2>1, <3>1, OwnProcess DEF Building
  <2>4. Kept(chunks, chunks', OtherParts)
    <3>1. x \notin OtherParts
      BY <2>1, <2>2, KernelSizes, LoadAllocates, Elsewhere DEF LInv
    <3>. QED
      BY <2>2, <3>1, WritesKeep
  <2>. QED
    BY <2>1, <2>3, <2>4 DEF WritesElsewhere, Kept, Mapping
<1>8. CASE LinkTask
  <2>1. /\ pc = "link" /\ UNCHANGED <<chunks, dirs, tabs>>
    BY <1>8 DEF LinkTask, pagingVars
  <2>2. \A q \in DOMAIN procs : q # ld.p => q \in DOMAIN procs' /\ procs'[q] = procs[q]
    BY <1>8 DEF LinkTask
  <2>3. ld.p \notin OtherParts
    BY <2>1, OwnProcess DEF Building
  <2>4. \A t \in DOMAIN tasks : tasks'[t].dir = tasks[t].dir
    BY <1>8, LinkKeepsDirectories
  <2>. QED
    BY <2>1, <2>2, <2>3, <2>4 DEF WritesElsewhere, Kept, Mapping
<1>9. CASE MapProgram \/ MapStack
  BY <1>9 DEF MapProgram, MapStack, WritesElsewhere, Kept, listVars, procVars, Mapping
<1>10. CASE UNCHANGED allVars
  BY <1>1, <1>10 DEF allVars, pagingVars, listVars, procVars
<1>11. CASE \/ \E path \in Calls : BeginLoad(path)
            \/ OpenFile \/ FopenRuns \/ StatFile \/ AllocData \/ CloseFile \/ Publish
  BY <1>1, <1>11
  DEF BeginLoad, OpenFile, FopenRuns, StatFile, AllocData, CloseFile, Publish, pagingVars,
      listVars, procVars
<1>. QED
  BY <1>2, <1>3, <1>4, <1>5, <1>6, <1>7, <1>8, <1>9, <1>10, <1>11 DEF LoadNext

(* A finished process stays one, with its task and its directory; the step *)
(* that finishes one is the end of task_new.                               *)
LEMMA FinishedChange ==
    ASSUME LInv, [LoadNext]_allVars
    PROVE  /\ \A p : Finished(p) => /\ Finished(p)' /\ procs'[p] = procs[p]
                                    /\ DirOf(p)' = DirOf(p)
                                    /\ dirs'[DirOf(p)] = dirs[DirOf(p)]
           /\ \A p : Finished(p)' => Finished(p) \/ (LinkTask /\ p = ld.p)
<1>1. CASE UNCHANGED allVars
  <2>1. /\ UNCHANGED <<dirs, chunks, procs, tasks, pc, ld, processes>>
    BY <1>1 DEF allVars, pagingVars, listVars, loadVars, procVars
  <2>. QED
    BY <2>1 DEF Finished, DirOf, Owners, Published, Slots, Own
<1>2. CASE LoadNext
  <2>1. /\ LInv' /\ WritesElsewhere
        /\ pc # "lost" /\ pc' \in Stages
    <3>1. pc # "lost"
      BY <1>2
      DEF LoadNext, BeginLoad, AllocProcess, OpenFile, FopenRuns, StatFile, AllocData, ReadFile,
          CloseFile, AllocStack, AllocTask, AllocDirectory, AllocTable, AllocChunk, LinkTask,
          UnwindTask, MapProgram, MapStack, Publish
    <3>2. LInv' /\ WritesElsewhere
      BY NextLInv, WritesAreOwn
    <3>. QED
      BY <3>1, <3>2 DEF LInv, LoadTyped
  <2>2. \/ UNCHANGED processes
        \/ Publish
    BY <1>2
    DEF LoadNext, BeginLoad, AllocProcess, OpenFile, FopenRuns, StatFile, AllocData, ReadFile,
        CloseFile, AllocStack, AllocTask, AllocDirectory, AllocTable, AllocChunk, LinkTask,
        UnwindTask, MapProgram, MapStack, procVars
  <2>3. /\ Published \subseteq Published'
        /\ \A p \in Published' : p \in Published \/ (Publish /\ p = ld.p)
    <3>1. CASE UNCHANGED processes
      BY <3>1 DEF Published, Slots
    <3>2. CASE Publish
      <4>1. /\ processes' = [processes EXCEPT ![ld.slot] = ld.p] /\ processes[ld.slot] = NULL
            /\ processes \in [Slots -> Pointers]
        BY <3>2 DEF Publish, LInv, LoadSoFar, LoadTyped
      <4>. QED
        BY <3>2, <4>1 DEF Published, Slots
    <3>. QED
      BY <2>2, <3>1, <3>2
  <2>4. ld.p \notin Published
    <3>1. pc \in Building \cup Mapping \/ ld.p = NULL
      BY <2>1 DEF LInv, LoadSoFar, LoadTyped, Stages, Building, Mapping, NoLoad
    <3>. QED
      BY <3>1 DEF LInv, LoadSoFar, Published
  <2>5. ASSUME NEW p \in Published
        PROVE  /\ p \in Owners \ {ld.p} /\ ~Own(p) /\ ~Own(p)' /\ p \in Owners'
               /\ procs'[p] = procs[p]
    <3>1. p \in Owners \ {ld.p} /\ ~Own(p) /\ p \in Owners'
      BY <2>3, <2>4 DEF Owners, Own
    <3>2. ~Own(p)'
      BY <2>1, <2>3 DEF LInv, LoadSoFar, Own
    <3>3. STRUCT \in Has(p) /\ Part(p, STRUCT) = p
      BY <3>1, PagingAssumption, SMT DEF Has, Part, Parts, STRUCT
    <3>4. p \in OtherParts /\ p \in DOMAIN procs
      BY <3>1, <3>3 DEF OtherParts, LInv, PartsExist, InMemory
    <3>. QED
      BY <2>1, <3>1, <3>2, <3>4 DEF WritesElsewhere, Kept
  <2>6. ASSUME NEW p \in Published, procs[p].task # ERR
        PROVE  DirOf(p)' = DirOf(p) /\ dirs'[DirOf(p)] = dirs[DirOf(p)]
    <3>1. Finished(p)
      BY <2>5, <2>6 DEF Finished
    <3>2. PICK t, c, d : t = procs[p].task /\ c = tasks[t].dir /\ d = chunks[c]
      OBVIOUS
    <3>3. {t, c, d} \subseteq OtherParts /\ t \in DOMAIN tasks /\ c \in DOMAIN chunks
          /\ d \in DOMAIN dirs
      <4>1. Part(p, TASK) = t /\ Part(p, CHUNK) = c /\ Part(p, DIRECTORY) = d
        BY <3>1, <3>2, FinishedParts DEF ChunkOf, DirOf
      <4>. QED
        BY <2>5, <3>1, <4>1, FinishedParts DEF OtherParts, InMemory
    <3>4. tasks'[t].dir = c /\ chunks'[c] = d /\ dirs'[d] = dirs[d]
      BY <2>1, <3>2, <3>3 DEF WritesElsewhere, Kept
    <3>. QED
      BY <2>5, <3>2, <3>4 DEF DirOf
  <2>7. ASSUME MapProgram \/ MapStack \/ Publish
        PROVE  /\ UNCHANGED <<procs, tasks, chunks, dirs>>
               /\ pc \in Mapping /\ pc' \notin Building
               /\ procs[ld.p].task # ERR => ld.p \in Owners'
    <3>1. CASE MapProgram \/ MapStack
      BY <3>1 DEF MapProgram, MapStack, listVars, procVars, Mapping, Building, Owners
    <3>2. CASE Publish
      <4>1. /\ processes' = [processes EXCEPT ![ld.slot] = ld.p] /\ ld.slot \in Slots
            /\ processes \in [Slots -> Pointers] /\ ld.p # NULL /\ pc = "publish"
        BY <3>2, OwnProcess, NULLAssumption, SMT
        DEF Publish, LInv, LoadTyped, LoadLocals, Mapping, Blocks
      <4>. QED
        BY <3>2, <4>1
        DEF Publish, pagingVars, listVars, Mapping, Building, Owners, Published
    <3>. QED
      BY <2>7, <3>1, <3>2
  <2>8. ASSUME NEW p, Finished(p)
        PROVE  /\ Finished(p)' /\ procs'[p] = procs[p] /\ DirOf(p)' = DirOf(p)
               /\ dirs'[DirOf(p)] = dirs[DirOf(p)]
    <3>1. CASE p \in Published
      BY <2>5, <2>6, <2>8, <3>1 DEF Finished
    <3>2. CASE p \notin Published
      <4>1. p = ld.p /\ pc \in Mapping /\ procs[p].task # ERR
        BY <2>8, <3>2 DEF Finished, Owners, Own
      <4>2. MapProgram \/ MapStack \/ Publish
        BY <1>2, <4>1
        DEF LoadNext, BeginLoad, AllocProcess, OpenFile, FopenRuns, StatFile, AllocData,
            ReadFile, CloseFile, AllocStack, AllocTask, AllocDirectory, AllocTable, AllocChunk,
            LinkTask, UnwindTask, Mapping
      <4>. QED
        BY <2>7, <4>1, <4>2 DEF Finished, Own, DirOf
    <3>. QED
      BY <3>1, <3>2
  <2>9. ASSUME NEW p, Finished(p)' PROVE Finished(p) \/ (LinkTask /\ p = ld.p)
    <3>1. p \in Owners' /\ ~Own(p)' /\ procs'[p].task # ERR
      BY <2>9 DEF Finished
    <3>2. CASE p \in Published
      BY <2>5, <3>1, <3>2 DEF Finished
    <3>3. CASE Publish /\ p = ld.p
      BY <2>7, <3>1, <3>3 DEF Finished, Owners, Own, Publish, Building, Mapping
    <3>4. CASE p = ld.p' /\ pc' \in Mapping /\ p \notin Published
      <4>1. LinkTask \/ UnwindTask \/ MapProgram \/ MapStack
        BY <1>2, <3>4
        DEF LoadNext, BeginLoad, AllocProcess, OpenFile, FopenRuns, StatFile, AllocData,
            ReadFile, CloseFile, AllocStack, AllocTask, AllocDirectory, AllocTable, AllocChunk,
            Publish, Fail, loadVars, Mapping
      <4>2. p = ld.p
        BY <3>4, <4>1 DEF LinkTask, UnwindTask, MapProgram, MapStack
      <4>3. CASE UnwindTask
        <5>1. ld.p \in DOMAIN procs /\ procs[ld.p] \in Record
          BY <4>3, OwnProcess DEF UnwindTask, Building, LInv, LoadTyped, MemoryTyped
        <5>2. procs' = [procs EXCEPT ![ld.p].task = ERR]
          BY <3>4, <4>3 DEF UnwindTask, Mapping
        <5>3. procs'[ld.p].task = ERR
          BY <5>1, <5>2 DEF Record
        <5>. QED
          BY <3>1, <4>2, <5>3
      <4>4. CASE MapProgram \/ MapStack
        BY <2>7, <3>1, <4>2, <4>4 DEF Finished, Owners, Own, Building, Mapping
      <4>. QED
        BY <4>1, <4>2, <4>3, <4>4
    <3>5. p \in Published' \/ (p = ld.p' /\ pc' \in Mapping)
      BY <3>1 DEF Owners, Own
    <3>. QED
      BY <2>3, <3>2, <3>3, <3>4, <3>5
  <2>. QED
    BY <2>8, <2>9
<1>. QED
  BY <1>1, <1>2

-----------------------------------------------------------------------------
(* What the page tables of a process say.                                  *)

(* The mapping of a process in the making: first its program, then its     *)
(* stack.                                                                  *)
ProgramMapped(p) == ~(pc = "map_program" /\ p = ld.p)
StackMapped(p) == ~(pc \in {"map_program", "map_stack"} /\ p = ld.p)

InProgram(p, v) == ProgramPage <= v /\ v < ProgramPage + BlocksOf(procs[p].size)
InStack(v) == StackPage <= v /\ v < StackPage + BlocksOf(StackSize)

Wanted(p, v) ==
    IF ProgramMapped(p) /\ InProgram(p, v)
    THEN Entry(PageOf(procs[p].ptr) + v - ProgramPage, TRUE)
    ELSE IF StackMapped(p) /\ InStack(v)
    THEN Entry(PageOf(procs[p].stack) + v - StackPage, TRUE)
    ELSE Entry(v, FALSE)

Image(p) == \A v \in Pages : PagingGet(DirOf(p), v) = Wanted(p, v)

(* paging_new_4gb makes the identity, table by table.                      *)
TablesFilled ==
    pc \in HasDirectory =>
        \A i \in 0 .. (ld.i - 1) : dirs[ld.dir][i] # NULL =>
            tabs[dirs[ld.dir][i]] = IdentityTable(i)

Images == (\A p \in Owners : Finished(p) => Image(p)) /\ TablesFilled

(* A page is found by its two indexes, and by no others.                   *)
LEMMA PageIndexes ==
    ASSUME NEW v \in Pages
    PROVE  /\ v \in Nat /\ DirIndex(v) \in 0 .. (Tables - 1)
           /\ TabIndex(v) \in 0 .. (PagesPerTable - 1)
           /\ DirIndex(v) * PagesPerTable + TabIndex(v) = v
<1>1. /\ PagesPerTable \in Nat /\ PagesPerTable > 0 /\ Tables \in Nat
      /\ v \in Nat /\ v < PagesPerTable * Tables
  BY PagingAssumption, SMT DEF Pages
<1>2. PICK a, b : a = v \div PagesPerTable /\ b = v % PagesPerTable
  OBVIOUS
<1>3. a \in Nat /\ b \in Nat /\ b < PagesPerTable /\ v = a * PagesPerTable + b
  BY <1>1, <1>2, SMT
<1>4. a < Tables
  BY <1>1, <1>3, SMT
<1>. QED
  BY <1>1, <1>2, <1>3, <1>4 DEF DirIndex, TabIndex

(* Two pages have different places in the tables.                          *)
LEMMA PagesDiffer ==
    ASSUME NEW u \in Pages, NEW v \in Pages,
           DirIndex(u) = DirIndex(v), TabIndex(u) = TabIndex(v)
    PROVE  u = v
  BY PageIndexes

(* The table a page of a finished process is looked up in is its own.      *)
LEMMA PageInTable ==
    ASSUME LInv, NEW p, Finished(p), NEW v \in Pages
    PROVE  /\ TableOf(DirOf(p), v) = Part(p, DirIndex(v)) /\ DirIndex(v) \in Parts
           /\ TableOf(DirOf(p), v) \in DOMAIN tabs
           /\ TabIndex(v) \in DOMAIN tabs[TableOf(DirOf(p), v)]
<1>1. DirIndex(v) \in 0 .. (Tables - 1) /\ TabIndex(v) \in 0 .. (PagesPerTable - 1)
  BY PageIndexes
<1>2. /\ TableOf(DirOf(p), v) = Part(p, DirIndex(v)) /\ DirIndex(v) \in Parts
      /\ InMemory(p, DirIndex(v))
  BY <1>1, FinishedParts DEF TableOf
<1>3. TableOf(DirOf(p), v) \in DOMAIN tabs
  BY <1>1, <1>2 DEF InMemory
<1>. QED
  BY <1>1, <1>2, <1>3 DEF LInv, LoadTyped, MemoryTyped

(* The program and the stack of a finished process are blocks of the heap. *)
LEMMA PartPages ==
    ASSUME LInv, NEW p, Finished(p)
    PROVE  PageOf(procs[p].ptr) \in Int /\ PageOf(procs[p].stack) \in Int
<1>1. Held(Part(p, DATA)) /\ Held(Part(p, STACK))
  BY FinishedParts
<1>2. procs[p].ptr \in Blocks /\ procs[p].stack \in Blocks
  BY <1>1, FinishedParts DEF Held
<1>. QED
  BY <1>2, PagingAssumption, AddressAssumption, TotalAssumption, SMT DEF PageOf, Blocks

(* Two pages share a table entry only if they are the same page of the     *)
(* same process.                                                           *)
LEMMA EntriesDiffer ==
    ASSUME LInv, NEW p, Finished(p), NEW q, Finished(q), NEW u \in Pages, NEW v \in Pages,
           TableOf(DirOf(p), u) = TableOf(DirOf(q), v), TabIndex(u) = TabIndex(v)
    PROVE  p = q /\ u = v
<1>1. p \in Owners /\ q \in Owners /\ Has(p) = Parts /\ Has(q) = Parts
  BY FinishedParts DEF Finished
<1>2. Part(p, DirIndex(u)) = Part(q, DirIndex(v)) /\ DirIndex(u) \in Parts /\ DirIndex(v) \in Parts
  BY PageInTable
<1>3. p = q /\ DirIndex(u) = DirIndex(v)
  BY <1>1, <1>2 DEF LInv, PartsStandAlone
<1>. QED
  BY <1>3, PagesDiffer

(* The entry for page u of q after a paging_map_to in the tables of p.     *)
Looked(p, from, page, n, q, u) ==
    MapTo(DirOf(p), from, page, n)[TableOf(DirOf(q), u)][TabIndex(u)]

(* paging_map_to changes the pages asked for, in the tables of the process *)
(* asked for, and nothing else.                                            *)
LEMMA MapToMaps ==
    ASSUME LInv, NEW p, Finished(p), NEW q, Finished(q), NEW u \in Pages,
           NEW from, NEW page, NEW n, {from, page, n} \subseteq Int
    PROVE  Looked(p, from, page, n, q, u) =
             IF q = p /\ from <= u /\ u < from + n THEN Entry(page + u - from, TRUE)
             ELSE PagingGet(DirOf(q), u)
<1>1. PICK d, t, j : d = DirOf(p) /\ t = TableOf(DirOf(q), u) /\ j = TabIndex(u)
  OBVIOUS
<1>2. t \in DOMAIN tabs /\ j \in DOMAIN tabs[t]
  BY <1>1, PageInTable
<1>3. PICK mapped : mapped = {w \in Pages : from <= w /\ w < from + n}
  OBVIOUS
<1>4. MapTo(d, from, page, n)[t][j] =
                IF \E w \in mapped : TableOf(d, w) = t /\ TabIndex(w) = j
                THEN Entry(page + (CHOOSE w \in mapped : TableOf(d, w) = t
                                                         /\ TabIndex(w) = j) - from, TRUE)
                ELSE tabs[t][j]
  BY <1>1, <1>2, <1>3 DEF MapTo
<1>5. \A w \in mapped : TableOf(d, w) = t /\ TabIndex(w) = j => q = p /\ w = u
  BY <1>1, <1>3, EntriesDiffer
<1>6. ASSUME q = p /\ from <= u /\ u < from + n
      PROVE  MapTo(d, from, page, n)[t][j] = Entry(page + u - from, TRUE)
  <2>1. u \in mapped /\ TableOf(d, u) = t /\ TabIndex(u) = j
    BY <1>1, <1>3, <1>6
  <2>2. (CHOOSE w \in mapped : TableOf(d, w) = t /\ TabIndex(w) = j) = u
    BY <1>5, <2>1
  <2>. QED
    BY <1>4, <2>1, <2>2
<1>7. ASSUME ~(q = p /\ from <= u /\ u < from + n)
      PROVE  MapTo(d, from, page, n)[t][j] = PagingGet(DirOf(q), u)
  <2>1. ~\E w \in mapped : TableOf(d, w) = t /\ TabIndex(w) = j
    BY <1>3, <1>5, <1>7
  <2>. QED
    BY <1>1, <1>4, <1>7, <2>1 DEF PagingGet
<1>8. Looked(p, from, page, n, q, u) = MapTo(d, from, page, n)[t][j]
  BY <1>1 DEF Looked
<1>. QED
  BY <1>6, <1>7, <1>8

(* Where no mapping is under way, finished processes keep their images.    *)
LEMMA ImagesStay ==
    ASSUME LInv, Images, [LoadNext]_allVars, NEW p, Finished(p), Kept(tabs, tabs', AllParts),
           ProgramMapped(p)' = ProgramMapped(p), StackMapped(p)' = StackMapped(p)
    PROVE  Image(p)'
<1>1. /\ Image(p) /\ procs'[p] = procs[p]
      /\ DirOf(p)' = DirOf(p) /\ dirs'[DirOf(p)] = dirs[DirOf(p)]
  BY FinishedChange DEF Images, Finished
<1>2. ASSUME NEW v \in Pages PROVE PagingGet(DirOf(p), v)' = PagingGet(DirOf(p), v)
  <2>1. PICK t : t = TableOf(DirOf(p), v)
    OBVIOUS
  <2>2. t \in AllParts /\ t \in DOMAIN tabs
    BY <2>1, PageInTable, FinishedParts DEF AllParts, Finished
  <2>3. tabs'[t] = tabs[t] /\ TableOf(DirOf(p), v)' = t
    BY <1>1, <2>1, <2>2 DEF Kept, TableOf
  <2>. QED
    BY <2>1, <2>3 DEF PagingGet
<1>3. \A v : Wanted(p, v)' = Wanted(p, v)
  BY <1>1 DEF Wanted, InProgram, InStack, BlocksOf, AlignUp
<1>. QED
  BY <1>1, <1>2, <1>3 DEF Image, Pages

(* The two mappings, one after the other.                                  *)
LEMMA MappingGivesImages ==
    ASSUME LInv, Images, MapProgram \/ MapStack, NEW p, Finished(p)
    PROVE  Image(p)'
<1>1. /\ Image(p) /\ p \in Owners
      /\ UNCHANGED <<procs, tasks, chunks, dirs, ld>>
      /\ DirOf(p)' = DirOf(p) /\ dirs'[DirOf(p)] = dirs[DirOf(p)]
  BY DEF Images, Finished, MapProgram, MapStack, listVars, procVars, DirOf
<1>2. PICK q, size, n : /\ q = ld.p /\ size = BlocksOf(procs[p].size) /\ n = BlocksOf(StackSize)
  OBVIOUS
<1>3. /\ size \in Int /\ n \in Int /\ ProgramPage \in Int /\ StackPage \in Int
      /\ StackPage + n <= ProgramPage
  <2>1. InMemory(p, DATA) /\ SizeOf(p) = procs[p].size
    BY FinishedParts DEF Finished, SizeOf
  <2>2. procs[p].size \in Sizes
    BY <2>1 DEF InMemory
  <2>3. size \in Int
    BY <1>2, <2>2, FileSizes
  <2>. QED
    BY <1>2, <2>3, KernelSizes, ProcessAssumption
<1>4. ASSUME NEW v \in Pages
      PROVE  PagingGet(DirOf(p), v)' = tabs'[TableOf(DirOf(p), v)][TabIndex(v)]
  BY <1>1 DEF PagingGet, TableOf
<1>5. pc \in {"map_program", "map_stack"} /\ q \in Owners /\ ~Own(q)
  BY <1>2, OwnProcess DEF MapProgram, MapStack, Mapping, Own, Building
<1>6. CASE procs[q].task = ERR
  <2>1. p # q /\ tabs' = tabs
    BY <1>2, <1>6 DEF Finished, MapProgram, MapStack
  <2>2. \A v : Wanted(p, v)' = Wanted(p, v)
    BY <1>1, <1>2, <2>1
    DEF Wanted, InProgram, InStack, BlocksOf, AlignUp, ProgramMapped, StackMapped
  <2>3. \A v \in Pages : PagingGet(DirOf(p), v)' = PagingGet(DirOf(p), v)
    BY <1>4, <2>1 DEF PagingGet
  <2>. QED
    BY <1>1, <2>2, <2>3 DEF Image, Pages
<1>7. CASE procs[q].task # ERR
  <2>1. Finished(q)
    BY <1>5, <1>7 DEF Finished
  <2>2. CASE p # q
    <3>1. \A v : Wanted(p, v)' = Wanted(p, v)
      BY <1>1, <1>2, <2>2
      DEF Wanted, InProgram, InStack, BlocksOf, AlignUp, ProgramMapped, StackMapped
    <3>2. PICK from \in Int, page \in Int, m \in Int : tabs' = MapTo(DirOf(q), from, page, m)
      <4>1. BlocksOf(procs[q].size) \in Int /\ BlocksOf(StackSize) \in Int
        <5>1. InMemory(q, DATA) /\ SizeOf(q) = procs[q].size
          BY <2>1, FinishedParts DEF Finished, SizeOf
        <5>. QED
          BY <5>1, FileSizes, KernelSizes DEF InMemory
      <4>2. PageOf(procs[q].ptr) \in Int /\ PageOf(procs[q].stack) \in Int
        BY <2>1, PartPages
      <4>. QED
        BY <1>2, <1>3, <1>7, <4>1, <4>2 DEF MapProgram, MapStack
    <3>3. ASSUME NEW v \in Pages PROVE PagingGet(DirOf(p), v)' = PagingGet(DirOf(p), v)
      <4>1. Looked(q, from, page, m, p, v) = PagingGet(DirOf(p), v)
        BY <2>1, <2>2, <3>2, <3>3, MapToMaps
      <4>. QED
        BY <1>4, <3>2, <3>3, <4>1 DEF Looked
    <3>. QED
      BY <1>1, <3>1, <3>3 DEF Image, Pages
  <2>3. CASE p = q /\ pc = "map_program"
    <3>1. tabs' = MapTo(DirOf(p), ProgramPage, PageOf(procs[p].ptr), size) /\ pc' = "map_stack"
      BY <1>2, <1>7, <2>3 DEF MapProgram, MapStack
    <3>2. ASSUME NEW v \in Pages PROVE PagingGet(DirOf(p), v)' = Wanted(p, v)'
      <4>1. v \in Int
        BY <3>2, PageIndexes
      <4>2. PagingGet(DirOf(p), v) = Entry(v, FALSE)
        BY <1>1, <1>2, <2>3, <3>2 DEF Image, Wanted, ProgramMapped, StackMapped
      <4>3. PagingGet(DirOf(p), v)' = IF ProgramPage <= v /\ v < ProgramPage + size
                                      THEN Entry(PageOf(procs[p].ptr) + v - ProgramPage, TRUE)
                                      ELSE Entry(v, FALSE)
        <5>1. PICK page : page = PageOf(procs[p].ptr)
          OBVIOUS
        <5>2. Looked(p, ProgramPage, page, size, p, v)
              = IF p = p /\ ProgramPage <= v /\ v < ProgramPage + size
                THEN Entry(page + v - ProgramPage, TRUE)
                ELSE PagingGet(DirOf(p), v)
          <6>1. page \in Int
            BY <5>1, PartPages
          <6>. QED
            BY <1>3, <3>2, <6>1, MapToMaps
        <5>. QED
          BY <1>4, <3>1, <3>2, <4>2, <5>1, <5>2 DEF Looked
      <4>4. ProgramMapped(p)' /\ ~StackMapped(p)'
        BY <1>1, <1>2, <2>3, <3>1 DEF ProgramMapped, StackMapped
      <4>5. InProgram(p, v)' <=> ProgramPage <= v /\ v < ProgramPage + size
        BY <1>1, <1>2 DEF InProgram, BlocksOf, AlignUp
      <4>. QED
        BY <1>1, <4>3, <4>4, <4>5 DEF Wanted, PageOf
    <3>. QED
      BY <3>2 DEF Image, Pages
  <2>4. CASE p = q /\ pc = "map_stack"
    <3>1. tabs' = MapTo(DirOf(p), StackPage, PageOf(procs[p].stack), n) /\ pc' = "publish"
      BY <1>2, <1>7, <2>4 DEF MapProgram, MapStack
    <3>2. ASSUME NEW v \in Pages PROVE PagingGet(DirOf(p), v)' = Wanted(p, v)'
      <4>1. v \in Int
        BY <3>2, PageIndexes
      <4>2. PagingGet(DirOf(p), v) = IF InProgram(p, v)
                                     THEN Entry(PageOf(procs[p].ptr) + v - ProgramPage, TRUE)
                                     ELSE Entry(v, FALSE)
        BY <1>1, <1>2, <2>4, <3>2 DEF Image, Wanted, ProgramMapped, StackMapped
      <4>3. PagingGet(DirOf(p), v)' = IF StackPage <= v /\ v < StackPage + n
                                      THEN Entry(PageOf(procs[p].stack) + v - StackPage, TRUE)
                                      ELSE PagingGet(DirOf(p), v)
        <5>1. PICK page : page = PageOf(procs[p].stack)
          OBVIOUS
        <5>2. Looked(p, StackPage, page, n, p, v)
              = IF p = p /\ StackPage <= v /\ v < StackPage + n
                THEN Entry(page + v - StackPage, TRUE)
                ELSE PagingGet(DirOf(p), v)
          <6>1. page \in Int
            BY <5>1, PartPages
          <6>. QED
            BY <1>3, <3>2, <6>1, MapToMaps
        <5>. QED
          BY <1>4, <3>1, <3>2, <5>1, <5>2 DEF Looked
      <4>4. ProgramMapped(p)' /\ StackMapped(p)'
        BY <3>1 DEF ProgramMapped, StackMapped
      <4>5. /\ InProgram(p, v)' <=> InProgram(p, v)
            /\ InStack(v)' <=> StackPage <= v /\ v < StackPage + n
            /\ StackPage <= v /\ v < StackPage + n => ~InProgram(p, v)
        <5>1. InProgram(p, v)' <=> InProgram(p, v)
          BY <1>1 DEF InProgram, BlocksOf, AlignUp
        <5>2. InStack(v)' <=> StackPage <= v /\ v < StackPage + n
          BY <1>2 DEF InStack, BlocksOf, AlignUp
        <5>3. StackPage <= v /\ v < StackPage + n => ~(ProgramPage <= v)
          BY <1>3, <4>1
        <5>. QED
          BY <5>1, <5>2, <5>3 DEF InProgram
      <4>. QED
        BY <1>1, <4>2, <4>3, <4>4, <4>5 DEF Wanted, PageOf
    <3>. QED
      BY <3>2 DEF Image, Pages
  <2>. QED
    BY <1>5, <2>2, <2>3, <2>4
<1>. QED
  BY <1>6, <1>7

(* At the end of task_new the new tables are the identity.                 *)
LEMMA NewImage ==
    ASSUME LInv, Images, LinkTask, NEW p, p = ld.p
    PROVE  Image(p)'
<1>1. /\ pc = "link" /\ pc' = "map_program" /\ UNCHANGED <<dirs, tabs, chunks, ld>>
      /\ procs' = [procs EXCEPT ![p].task = ld.task]
  BY DEF LinkTask, pagingVars
<1>2. PICK t, c, d : t = ld.task /\ c = tasks[t].dir /\ d = ld.dir
  OBVIOUS
<1>3. /\ \A i \in 0 .. (Tables - 1) : dirs[d][i] # NULL
      /\ chunks[c] = d /\ ld.i = Tables
  BY <1>1, <1>2 DEF LInv, TablesSoFar, LoadSoFar
<1>4. p \in DOMAIN procs /\ procs[p] \in Record
  BY <1>1, OwnProcess DEF Building, LInv, LoadTyped, MemoryTyped
<1>5. t \in DOMAIN tasks
  <2>1. TASK \in Has(p) /\ Part(p, TASK) = t /\ p \in Owners
    BY <1>1, <1>2, PagingAssumption, OwnProcess, SMT
    DEF Has, Part, TaskOf, Own, Built, Parts, STRUCT, DATA, STACK, TASK, Building, HasTask
  <2>. QED
    BY <2>1 DEF LInv, PartsExist, InMemory
<1>6. tasks'[t].dir = c /\ procs'[p].task = t
  BY <1>1, <1>2, <1>4, <1>5, LinkKeepsDirectories DEF Record
<1>7. DirOf(p)' = d
  BY <1>1, <1>3, <1>6 DEF DirOf
<1>8. ASSUME NEW v \in Pages PROVE PagingGet(DirOf(p), v)' = Entry(v, FALSE)
  <2>1. PICK i, j : i = DirIndex(v) /\ j = TabIndex(v)
    OBVIOUS
  <2>2. /\ i \in 0 .. (Tables - 1) /\ j \in 0 .. (PagesPerTable - 1)
        /\ i * PagesPerTable + j = v
    BY <2>1, PageIndexes
  <2>3. tabs[dirs[d][i]] = IdentityTable(i)
    BY <1>1, <1>2, <1>3, <2>2 DEF Images, TablesFilled, HasDirectory
  <2>4. IdentityTable(i)[j] = Entry(v, FALSE)
    BY <2>2 DEF IdentityTable
  <2>. QED
    BY <1>1, <1>7, <2>1, <2>3, <2>4 DEF PagingGet, TableOf
<1>9. \A v : Wanted(p, v)' = Entry(v, FALSE)
  BY <1>1 DEF Wanted, ProgramMapped, StackMapped
<1>. QED
  BY <1>8, <1>9 DEF Image, Pages

(* Every step keeps the images of the processes.                           *)
LEMMA NextImages ==
    ASSUME LInv, Images, [LoadNext]_allVars
    PROVE  Images'
<1>1. ASSUME NEW p, Finished(p)' PROVE Image(p)'
  <2>1. CASE LinkTask /\ p = ld.p
    BY <2>1, NewImage
  <2>2. CASE Finished(p) /\ (MapProgram \/ MapStack)
    BY <2>2, MappingGivesImages
  <2>3. CASE Finished(p) /\ ~(MapProgram \/ MapStack)
    <3>1. CASE UNCHANGED allVars
      <4>1. UNCHANGED <<pc, ld, tabs>>
        BY <3>1 DEF allVars, loadVars, pagingVars
      <4>. QED
        BY <2>3, <4>1, ImagesStay DEF Kept, ProgramMapped, StackMapped
    <3>2. CASE LoadNext
      <4>1. pc \notin {"map_program", "map_stack"}
        BY <2>3, <3>2
        DEF LoadNext, BeginLoad, AllocProcess, OpenFile, FopenRuns, StatFile, AllocData,
            ReadFile, CloseFile, AllocStack, AllocTask, AllocDirectory, AllocTable, AllocChunk,
            LinkTask, UnwindTask, Publish
      <4>2. Kept(tabs, tabs', AllParts)
        <5>1. pc \in Mapping => Publish
          BY <3>2, <4>1
          DEF LoadNext, BeginLoad, AllocProcess, OpenFile, FopenRuns, StatFile, AllocData,
              ReadFile, CloseFile, AllocStack, AllocTask, AllocDirectory, AllocTable,
              AllocChunk, LinkTask, UnwindTask, MapProgram, MapStack, Mapping
        <5>2. Publish => tabs' = tabs
          BY DEF Publish, pagingVars
        <5>. QED
          BY <5>1, <5>2, WritesAreOwn DEF Kept
      <4>3. pc' \in {"map_program", "map_stack"} => LinkTask \/ UnwindTask
        BY <2>3, <3>2, <4>1
        DEF LoadNext, BeginLoad, AllocProcess, OpenFile, FopenRuns, StatFile, AllocData,
            ReadFile, CloseFile, AllocStack, AllocTask, AllocDirectory, AllocTable, AllocChunk,
            Publish, Fail, loadVars
      <4>4. LinkTask \/ UnwindTask => p # ld.p /\ ld' = ld
        BY <2>3 DEF LinkTask, UnwindTask, Finished, Own, Building
      <4>5. /\ ProgramMapped(p) /\ StackMapped(p)
            /\ ProgramMapped(p)' /\ StackMapped(p)'
        BY <4>1, <4>3, <4>4 DEF ProgramMapped, StackMapped
      <4>. QED
        BY <2>3, <4>2, <4>5, ImagesStay
    <3>. QED
      BY <3>1, <3>2
  <2>. QED
    BY <1>1, <2>1, <2>2, <2>3, FinishedChange
<1>2. TablesFilled'
  <2>1. CASE AllocTable
    <3>1. PICK b, d, i : /\ b = ret' /\ d = ld.dir /\ i = ld.i
                         /\ tabs' = Put(tabs, b, IdentityTable(i))
                         /\ dirs' = [dirs EXCEPT ![d][i] = b]
                         /\ ld' = [ld EXCEPT !.i = @ + 1]
                         /\ pc = "table" /\ KZalloc(BlockSize) /\ UNCHANGED fileVars
      BY <2>1 DEF AllocTable, NewTable
    <3>2. /\ ld \in LoadLocals /\ d \in DOMAIN dirs /\ dirs[d] \in Maps /\ i \in 0 .. (Tables - 1)
          /\ Tables \in Nat
      BY <3>1, PagingAssumption, SMT
      DEF LInv, LoadTyped, LoadLocals, MemoryTyped, TablesSoFar, HasDirectory, LoadSoFar
    <3>3. /\ ld.dir' = d /\ ld.i' = i + 1
          /\ dirs'[d][i] = b /\ \A j \in 0 .. (Tables - 1) : j # i => dirs'[d][j] = dirs[d][j]
      BY <3>1, <3>2 DEF LoadLocals, Maps
    <3>4. b \notin AllParts
      BY <3>1, KernelSizes, LoadAllocates
    <3>5. ASSUME NEW j \in 0 .. i, dirs'[d][j] # NULL
          PROVE  tabs'[dirs'[d][j]] = IdentityTable(j)
      <4>1. CASE j = i
        BY <3>1, <3>3, <4>1 DEF Put
      <4>2. CASE j # i
        <5>1. /\ j \in 0 .. (i - 1) /\ j \in 0 .. (Tables - 1) /\ j \in Parts
              /\ j \notin {STRUCT, DATA, STACK, TASK, CHUNK, DIRECTORY}
          BY <3>2, <3>5, <4>2, SMT DEF Parts, STRUCT, DATA, STACK, TASK, CHUNK, DIRECTORY
        <5>2. PICK t : t = dirs[d][j]
          OBVIOUS
        <5>3. dirs'[d][j] = t /\ t # NULL /\ tabs[t] = IdentityTable(j)
          BY <3>1, <3>3, <3>5, <4>2, <5>1, <5>2 DEF Images, TablesFilled, HasDirectory
        <5>4. Part(ld.p, j) = t /\ j \in Has(ld.p) /\ ld.p \in Owners
          BY <3>1, <5>1, <5>2, <5>3
          DEF Part, DirectoryOf, Has, Own, Built, Building, HasDirectory, Owners
        <5>5. t \in AllParts /\ t \in DOMAIN tabs
          <6>1. j \in 0 .. (Tables - 1)
            BY <5>1
          <6>. QED
            BY <5>4, <6>1 DEF AllParts, LInv, PartsExist, InMemory
        <5>. QED
          BY <3>1, <3>4, <5>3, <5>5 DEF Put
      <4>. QED
        BY <4>1, <4>2
    <3>6. (i + 1) - 1 = i
      BY <3>2
    <3>. QED
      BY <3>3, <3>5, <3>6 DEF TablesFilled
  <2>2. CASE AllocDirectory
    <3>1. ld.i' = 0
      <4>1. ld.i = 0 /\ ld' = [ld EXCEPT !.dir = ret'] /\ ld \in LoadLocals
        BY <2>2 DEF AllocDirectory, LInv, LoadSoFar, LoadTyped
      <4>. QED
        BY <4>1 DEF LoadLocals
    <3>2. \A i : i \notin 0 .. (0 - 1)
      OBVIOUS
    <3>. QED
      BY <3>1, <3>2 DEF TablesFilled
  <2>3. CASE AllocChunk \/ UNCHANGED allVars
    <3>1. UNCHANGED <<dirs, tabs, ld>> /\ pc' \in HasDirectory => pc \in HasDirectory
      BY <2>3 DEF AllocChunk, NewChunk, HasDirectory, allVars, loadVars, pagingVars
    <3>2. UNCHANGED <<dirs, tabs, ld>>
      BY <2>3 DEF AllocChunk, NewChunk, allVars, loadVars, pagingVars
    <3>. QED
      BY <3>1, <3>2 DEF Images, TablesFilled
  <2>4. CASE LoadNext /\ ~(AllocTable \/ AllocDirectory \/ AllocChunk)
    <3>1. pc' \notin HasDirectory
      BY <2>4
      DEF LoadNext, BeginLoad, AllocProcess, OpenFile, FopenRuns, StatFile, AllocData,
          ReadFile, CloseFile, AllocStack, AllocTask, LinkTask, UnwindTask, MapProgram, MapStack,
          Publish, Fail, loadVars, HasDirectory
    <3>. QED
      BY <3>1 DEF TablesFilled
  <2>. QED
    BY <2>1, <2>2, <2>3, <2>4
<1>. QED
  BY <1>1, <1>2 DEF Images

(* The image of a process is that of task_new and process_map_memory from  *)
(* the moment it has a task, whatever is loaded after it.                  *)
THEOREM ImagesInvariant == LoadSpec => [](LInv /\ Images)
<1>1. LoadInit => LInv /\ Images
  <2>. SUFFICES ASSUME LoadInit PROVE LInv /\ Images
    OBVIOUS
  <2>1. Owners = {} /\ pc = "idle"
    BY DEF LoadInit, Owners, Published, Building, Mapping
  <2>. QED
    BY <2>1, InitLInv DEF Images, TablesFilled, HasDirectory
<1>2. LInv /\ Images /\ [LoadNext]_allVars => (LInv /\ Images)'
  BY NextLInv, NextImages
<1>. QED
  BY <1>1, <1>2, PTL DEF LoadSpec

(* A page that a published process may write is one of its program or one  *)
(* of its stack, each mapped to its own.                                   *)
LEMMA PublishedImage ==
    ASSUME LInv, Images, ~wild, NEW p \in Published, NEW v \in Pages
    PROVE  PagingGet(DirOf(p), v) =
             IF InProgram(p, v) THEN Entry(PageOf(procs[p].ptr) + v - ProgramPage, TRUE)
             ELSE IF InStack(v) THEN Entry(PageOf(procs[p].stack) + v - StackPage, TRUE)
             ELSE Entry(v, FALSE)
<1>1. Finished(p)
  BY PublishedFinished
<1>2. Image(p)
  BY <1>1 DEF Images, Finished
<1>3. ProgramMapped(p) /\ StackMapped(p)
  BY DEF LInv, LoadSoFar, ProgramMapped, StackMapped, Mapping
<1>. QED
  BY <1>2, <1>3 DEF Image, Wanted

(* What the pages, blocks and sizes of a published process are.            *)
LEMMA PublishedNumbers ==
    ASSUME LInv, ~wild, NEW p \in Published
    PROVE  /\ ProgramPage \in Nat /\ StackPage \in Nat /\ HeapPage \in Nat
           /\ BlocksOf(procs[p].size) \in Nat /\ BlocksOf(StackSize) \in Nat
           /\ procs[p].ptr \in Blocks /\ procs[p].stack \in Blocks
           /\ procs[p].ptr \in Nat /\ procs[p].stack \in Nat
           /\ live[procs[p].ptr] = BlocksOf(procs[p].size)
           /\ live[procs[p].stack] = BlocksOf(StackSize)
           /\ Part(p, DATA) = procs[p].ptr /\ Part(p, STACK) = procs[p].stack
<1>1. Finished(p)
  BY PublishedFinished
<1>2. /\ Held(Part(p, DATA)) /\ InMemory(p, DATA) /\ Held(Part(p, STACK)) /\ InMemory(p, STACK)
      /\ Part(p, DATA) = procs[p].ptr /\ Part(p, STACK) = procs[p].stack
      /\ SizeOf(p) = procs[p].size
  BY <1>1, FinishedParts DEF Finished, SizeOf
<1>3. procs[p].size \in Sizes /\ live[procs[p].ptr] = BlocksOf(procs[p].size)
      /\ live[procs[p].stack] = BlocksOf(StackSize)
  BY <1>2 DEF InMemory
<1>4. procs[p].ptr \in Blocks /\ procs[p].stack \in Blocks
  BY <1>2 DEF Held
<1>5. procs[p].ptr \in Nat /\ procs[p].stack \in Nat
  BY <1>4, TotalAssumption, SMT DEF Blocks
<1>6. BlocksOf(procs[p].size) \in Nat /\ BlocksOf(StackSize) \in Nat
  BY <1>3, FileSizes, KernelSizes
<1>. QED
  BY <1>2, <1>3, <1>4, <1>5, <1>6, ProcessAssumption, PagingAssumption, AddressAssumption

(* A published process sees its program and its stack where user.ld and    *)
(* config.h put them, writable, and all other memory read-only.            *)
THEOREM UserSeesItsImage == LoadSpec => []UserImage
<1>1. LInv /\ Images => UserImage
  <2>. SUFFICES ASSUME LInv, Images, ~wild, NEW p \in Published, NEW v \in Pages
                PROVE  PagingGet(DirOf(p), v) =
                         IF v - ProgramPage \in 0 .. (BlocksOf(procs[p].size) - 1)
                         THEN Entry(PageOf(procs[p].ptr) + (v - ProgramPage), TRUE)
                         ELSE IF v - StackPage \in 0 .. (BlocksOf(StackSize) - 1)
                         THEN Entry(PageOf(procs[p].stack) + (v - StackPage), TRUE)
                         ELSE Entry(v, FALSE)
    BY DEF UserImage
  <2>1. v \in Int
    BY PageIndexes
  <2>2. /\ v - ProgramPage \in 0 .. (BlocksOf(procs[p].size) - 1) <=> InProgram(p, v)
        /\ v - StackPage \in 0 .. (BlocksOf(StackSize) - 1) <=> InStack(v)
    BY <2>1, PublishedNumbers, SMT DEF InProgram, InStack
  <2>3. /\ PageOf(procs[p].ptr) + (v - ProgramPage) = PageOf(procs[p].ptr) + v - ProgramPage
        /\ PageOf(procs[p].stack) + (v - StackPage) = PageOf(procs[p].stack) + v - StackPage
    BY <2>1, PublishedNumbers, SMT DEF PageOf
  <2>. QED
    BY <2>2, <2>3, PublishedImage
<1>. QED
  BY <1>1, ImagesInvariant, PTL

(* A writable page is a block that the process owns by its data or stack.  *)
LEMMA WritableIsOwned ==
    ASSUME LInv, Images, ~wild, NEW p \in Published, NEW page \in WritablePages(p)
    PROVE  /\ page \in Int /\ page >= HeapPage
           /\ \E r \in {DATA, STACK} : page - HeapPage \in Owned(Part(p, r))
<1>1. PICK v \in Pages : PagingGet(DirOf(p), v).w /\ page = PagingGet(DirOf(p), v).to
  BY DEF WritablePages
<1>2. v \in Int
  BY PageIndexes
<1>3. CASE InProgram(p, v)
  <2>1. page = PageOf(procs[p].ptr) + v - ProgramPage
    BY <1>1, <1>3, PublishedImage DEF Entry
  <2>2. /\ page \in Int /\ page >= HeapPage
        /\ page - HeapPage \in Run(procs[p].ptr, BlocksOf(procs[p].size))
    BY <1>2, <1>3, <2>1, PublishedNumbers, SMT DEF InProgram, PageOf, Run
  <2>. QED
    BY <2>2, PublishedNumbers DEF Owned
<1>4. CASE ~InProgram(p, v) /\ InStack(v)
  <2>1. page = PageOf(procs[p].stack) + v - StackPage
    BY <1>1, <1>4, PublishedImage DEF Entry
  <2>2. /\ page \in Int /\ page >= HeapPage
        /\ page - HeapPage \in Run(procs[p].stack, BlocksOf(StackSize))
    BY <1>2, <1>4, <2>1, PublishedNumbers, SMT DEF InStack, PageOf, Run
  <2>. QED
    BY <2>2, PublishedNumbers DEF Owned
<1>5. CASE ~InProgram(p, v) /\ ~InStack(v)
  <2>1. PagingGet(DirOf(p), v) = Entry(v, FALSE)
    BY <1>5, PublishedImage
  <2>. QED
    BY <1>1, <2>1 DEF Entry
<1>. QED
  BY <1>3, <1>4, <1>5

(* An allocated block that is neither is not written through these pages.  *)
LEMMA NotWritten ==
    ASSUME LInv, Images, ~wild, NEW p \in Published, NEW b, Held(b),
           b # Part(p, DATA), b # Part(p, STACK)
    PROVE  \A page \in WritablePages(p) : page - HeapPage \notin Owned(b)
<1>1. LiveDisjoint
  BY DEF LInv, FileSoFar, FInv, IInv
<1>2. \A r \in {DATA, STACK} : Part(p, r) \in Blocks
  BY PublishedNumbers
<1>. QED
  BY <1>1, <1>2, WritableIsOwned DEF LiveDisjoint, Held

(* No process writes into another one, into what any process or any open   *)
(* file is made of, or into the kernel below the heap.                     *)
THEOREM ProcessesAreIsolated == LoadSpec => []Isolation
<1>1. LInv /\ Images => Isolation
  <2>. SUFFICES ASSUME LInv, Images, ~wild, NEW p \in Published
                PROVE  /\ \A q \in Published \ {p} :
                             WritablePages(p) \cap WritablePages(q) = {}
                       /\ \A q \in Published :
                             WritablePages(p) \cap {PageOf(b) : b \in Structures(q)} = {}
                       /\ \A d \in OpenFiles :
                             WritablePages(p) \cap {PageOf(b) : b \in PartsOf(d)} = {}
                       /\ \A page \in WritablePages(p) : page >= HeapPage
    BY DEF Isolation
  <2>1. /\ p \in Owners /\ Has(p) = Parts /\ {DATA, STACK} \subseteq Parts
        /\ \A q \in Published : Finished(q) /\ q \in Owners /\ Has(q) = Parts
    BY PublishedFinished, FinishedParts DEF Finished
  <2>2. ASSUME NEW b, Held(b), b # Part(p, DATA), b # Part(p, STACK),
               NEW page \in WritablePages(p)
        PROVE  page # PageOf(b)
    <3>1. b \in Nat /\ live[b] \in Nat /\ live[b] > 0 /\ HeapPage \in Nat
      <4>1. live \in [Blocks -> Nat]
        BY DEF LInv, FileSoFar, FInv, IInv, TypeOK
      <4>2. b \in Blocks /\ live[b] > 0
        BY <2>2 DEF Held
      <4>. QED
        BY <4>1, <4>2, TotalAssumption, PagingAssumption, AddressAssumption, SMT DEF Blocks
    <3>2. PageOf(b) - HeapPage \in Owned(b)
      BY <3>1, SMT DEF PageOf, Owned, Run
    <3>. QED
      BY <2>2, <3>2, NotWritten
  <2>3. ASSUME NEW q \in Published \ {p}, NEW page \in WritablePages(p),
               page \in WritablePages(q)
        PROVE  FALSE
    <3>1. PICK r \in {DATA, STACK} : page - HeapPage \in Owned(Part(q, r))
      BY <2>3, WritableIsOwned
    <3>2. Held(Part(q, r)) /\ Part(q, r) # Part(p, DATA) /\ Part(q, r) # Part(p, STACK)
      BY <2>1, <2>3, FinishedParts DEF LInv, PartsStandAlone
    <3>. QED
      BY <3>1, <3>2, NotWritten
  <2>4. ASSUME NEW q \in Published, NEW b \in Structures(q), NEW page \in WritablePages(p)
        PROVE  page # PageOf(b)
    <3>1. PICK r \in Parts : r \notin {DATA, STACK} /\ b = Part(q, r)
      BY <2>1, StructuresAreParts
    <3>2. Held(b) /\ b # Part(p, DATA) /\ b # Part(p, STACK)
      BY <2>1, <3>1, FinishedParts DEF LInv, PartsStandAlone
    <3>. QED
      BY <2>2, <3>2
  <2>5. ASSUME NEW d \in OpenFiles, NEW b \in PartsOf(d), NEW page \in WritablePages(p)
        PROVE  page # PageOf(b)
    <3>1. PICK i \in Open : d = file_descriptors[i]
      BY DEF OpenFiles, Open
    <3>2. Whole(d) /\ OpenWhole
      BY <3>1 DEF LInv, FileSoFar, FInv, OpenWhole
    <3>3. PartsOf(d) = FileBlocks(d)
      BY <3>2, PartsAreStructures
    <3>4. b \in InUse
      BY <2>5, <3>1, <3>3 DEF InUse
    <3>5. Held(b)
      BY <3>2, <3>4, InUseHeld
    <3>6. b # Part(p, DATA) /\ b # Part(p, STACK)
      BY <2>1, <3>4 DEF LInv, PartsStandAlone, Others, AllParts
    <3>. QED
      BY <2>2, <3>5, <3>6
  <2>. QED
    BY <2>3, <2>4, <2>5, WritableIsOwned
<1>. QED
  BY <1>1, ImagesInvariant, PTL

-----------------------------------------------------------------------------
(* The list of tasks.                                                      *)

ListedTasks == {procs[p].task : p \in {q \in Owners : Finished(q)}}

(* The tasks on the list, in its order.                                    *)
TasksLinked(n, s) ==
    /\ s \in [1 .. n -> ListedTasks]
    /\ \A j, k \in 1 .. n : s[j] = s[k] => j = k
    /\ IF n = 0 THEN head = NULL /\ tail = NULL /\ current = NULL
       ELSE /\ head = s[1] /\ tail = s[n] /\ (\E k \in 1 .. n : current = s[k])
            /\ tasks[s[1]].prev = NULL /\ tasks[s[n]].next = NULL
    /\ \A k \in 1 .. (n - 1) : tasks[s[k]].next = s[k + 1] /\ tasks[s[k + 1]].prev = s[k]

(* A load that has not put its task on the list yet counts, too.           *)
Unlisted == IF pc \in {"process"} \cup Building THEN 1 ELSE 0

TaskList ==
    /\ loads \in 0 .. MaxLoads
    /\ \E n \in 0 .. MaxLoads : /\ n + Unlisted <= loads
                                /\ \E s \in [1 .. n -> ListedTasks] : TasksLinked(n, s)
    /\ pc \in HasTask => tasks[ld.task].next = NULL /\ tasks[ld.task].prev = NULL

(* A task that can be on the list is a live block and part of a process.   *)
LEMMA ListedAreParts ==
    ASSUME LInv, NEW t \in ListedTasks
    PROVE  /\ t \in Blocks /\ Held(t) /\ t \in AllParts /\ t \in DOMAIN tasks
           /\ t # NULL /\ tasks[t] \in TaskRecord
           /\ pc \in HasTask => t # ld.task
<1>1. PICK p \in Owners : Finished(p) /\ t = procs[p].task
  BY DEF ListedTasks
<1>2. TASK \in Parts /\ Has(p) = Parts /\ Part(p, TASK) = t /\ Held(t) /\ InMemory(p, TASK)
  BY <1>1, FinishedParts
<1>3. t \in DOMAIN tasks /\ t \in AllParts
  BY <1>1, <1>2 DEF InMemory, AllParts
<1>4. t \in Blocks /\ t # NULL
  BY <1>2, NULLAssumption, TotalAssumption, SMT DEF Held, Blocks
<1>5. tasks[t] \in TaskRecord
  BY <1>3 DEF LInv, LoadTyped, MemoryTyped
<1>6. ASSUME pc \in HasTask PROVE t # ld.task
  <2>1. /\ ld.p \in Owners /\ TASK \in Has(ld.p) /\ Part(ld.p, TASK) = ld.task /\ Own(ld.p)
    BY <1>6, PagingAssumption, SMT
    DEF Owners, Has, Part, TaskOf, Own, Built, Parts, STRUCT, DATA, STACK, TASK, Building,
        HasTask
  <2>2. p # ld.p
    BY <1>1, <2>1 DEF Finished
  <2>. QED
    BY <1>1, <1>2, <2>1, <2>2 DEF LInv, PartsStandAlone
<1>. QED
  BY <1>2, <1>3, <1>4, <1>5, <1>6

(* Only the end of task_new links.                                         *)
LEMMA LinksStay ==
    ASSUME LInv, [LoadNext]_allVars, ~LinkTask
    PROVE  /\ UNCHANGED <<head, tail, current>>
           /\ \A t \in ListedTasks : /\ t \in ListedTasks' /\ tasks'[t].next = tasks[t].next
                                     /\ tasks'[t].prev = tasks[t].prev
<1>1. UNCHANGED <<head, tail, current>>
  BY DEF LoadNext, BeginLoad, AllocProcess, OpenFile, FopenRuns, StatFile, AllocData, ReadFile,
     CloseFile, AllocStack, AllocTask, AllocDirectory, AllocTable, AllocChunk, UnwindTask,
     MapProgram, MapStack, Publish, allVars, listVars
<1>2. ASSUME NEW t \in ListedTasks PROVE t \in ListedTasks'
  <2>1. PICK p \in Owners : Finished(p) /\ t = procs[p].task
    BY DEF ListedTasks
  <2>2. Finished(p)' /\ procs'[p] = procs[p]
    BY <2>1, FinishedChange
  <2>. QED
    BY <2>1, <2>2 DEF ListedTasks, Finished
<1>3. ASSUME NEW t \in ListedTasks
      PROVE  tasks'[t].next = tasks[t].next /\ tasks'[t].prev = tasks[t].prev
  <2>1. t \in AllParts /\ t \in DOMAIN tasks /\ tasks[t] \in TaskRecord
    BY ListedAreParts
  <2>2. CASE AllocTask
    <3>1. PICK x, y : x = ret' /\ (tasks' = tasks \/ tasks' = Put(tasks, x, y))
      BY <2>2 DEF AllocTask
    <3>2. pc = "task" /\ KZalloc(BlockSize) /\ UNCHANGED fileVars
      BY <2>2 DEF AllocTask
    <3>3. x \notin AllParts
      BY <3>1, <3>2, KernelSizes, LoadAllocates
    <3>. QED
      BY <2>1, <3>1, <3>3 DEF Put
  <2>3. CASE AllocChunk
    <3>1. PICK b, u : u = ld.task /\ (tasks' = tasks \/ tasks' = [tasks EXCEPT ![u].dir = b])
      BY <2>3 DEF AllocChunk
    <3>. QED
      BY <2>1, <3>1 DEF TaskRecord
  <2>4. CASE ~AllocTask /\ ~AllocChunk
    <3>1. tasks' = tasks
      BY <2>4
      DEF LoadNext, BeginLoad, AllocProcess, OpenFile, FopenRuns, StatFile, AllocData, ReadFile,
          CloseFile, AllocStack, AllocDirectory, AllocTable, UnwindTask, MapProgram, MapStack,
          Publish, allVars, listVars
    <3>. QED
      BY <3>1
  <2>. QED
    BY <2>2, <2>3, <2>4
<1>. QED
  BY <1>1, <1>2, <1>3

(* The new task has no neighbour until it is linked.                       *)
LEMMA NewTaskAlone ==
    ASSUME LInv, TaskList, [LoadNext]_allVars, pc' \in HasTask
    PROVE  (tasks[ld.task].next = NULL /\ tasks[ld.task].prev = NULL)'
<1>1. CASE AllocTask
  <2>1. PICK b, q : /\ b = ret' /\ q = ld.p
                    /\ tasks' = Put(tasks, b, [dir |-> NULL, next |-> NULL, prev |-> NULL,
                                               process |-> q])
                    /\ ld' = [ld EXCEPT !.task = b]
    BY <1>1 DEF AllocTask, HasTask
  <2>2. ld \in LoadLocals
    BY DEF LInv, LoadTyped
  <2>3. ld.task' = b
    BY <2>1, <2>2 DEF LoadLocals
  <2>. QED
    BY <2>1, <2>3 DEF Put
<1>2. CASE AllocDirectory \/ AllocTable
  <2>1. pc \in HasTask /\ tasks' = tasks
    BY <1>2 DEF AllocDirectory, AllocTable, listVars, HasTask
  <2>2. ld \in LoadLocals
    BY DEF LInv, LoadTyped
  <2>3. ld.task' = ld.task
    BY <1>2, <2>2 DEF AllocDirectory, AllocTable, LoadLocals
  <2>. QED
    BY <2>1, <2>3 DEF TaskList
<1>3. CASE AllocChunk
  <2>1. PICK b, u : u = ld.task /\ (tasks' = tasks \/ tasks' = [tasks EXCEPT ![u].dir = b])
    BY <1>3 DEF AllocChunk
  <2>2. pc = "chunk" /\ ld' = ld
    BY <1>3 DEF AllocChunk
  <2>3. u \in DOMAIN tasks /\ tasks[u] \in TaskRecord
    <3>1. TASK \in Has(ld.p) /\ Part(ld.p, TASK) = u /\ ld.p \in Owners
      BY <2>1, <2>2, PagingAssumption, SMT
      DEF Owners, Has, Part, TaskOf, Own, Built, Parts, STRUCT, DATA, STACK, TASK, Building,
          HasTask
    <3>. QED
      BY <3>1 DEF LInv, PartsExist, InMemory, LoadTyped, MemoryTyped
  <2>4. tasks[u].next = NULL /\ tasks[u].prev = NULL
    BY <2>1, <2>2 DEF TaskList, HasTask
  <2>. QED
    BY <2>1, <2>2, <2>3, <2>4 DEF TaskRecord
<1>4. CASE UNCHANGED allVars
  <2>1. UNCHANGED <<pc, ld, tasks>>
    BY <1>4 DEF allVars, listVars, loadVars
  <2>. QED
    BY <2>1 DEF TaskList
<1>. QED
  BY <1>1, <1>2, <1>3, <1>4
  DEF LoadNext, BeginLoad, AllocProcess, OpenFile, FopenRuns, StatFile, AllocData, ReadFile,
      CloseFile, AllocStack, LinkTask, UnwindTask, MapProgram, MapStack, Publish, Fail, loadVars,
      HasTask

(* A task is linked at the end.                                            *)
LEMMA LinkExtends ==
    ASSUME LInv, TaskList, LinkTask, NEW n \in Nat, NEW s, TasksLinked(n, s)
    PROVE  \E r \in [1 .. (n + 1) -> ListedTasks'] : TasksLinked(n + 1, r)'
<1>1. PICK p, t, z : /\ p = ld.p /\ t = ld.task /\ z = tail
                     /\ procs' = [procs EXCEPT ![p].task = t]
  BY DEF LinkTask
<1>2. pc = "link" /\ pc' = "map_program" /\ ld' = ld
  BY DEF LinkTask
<1>3. t \in DOMAIN tasks /\ t \in Blocks /\ t # ERR /\ t # NULL /\ tasks[t] \in TaskRecord
  <2>1. TASK \in Has(p) /\ Part(p, TASK) = t /\ p \in Owners
    BY <1>1, <1>2, PagingAssumption, SMT
    DEF Owners, Has, Part, TaskOf, Own, Built, Parts, STRUCT, DATA, STACK, TASK, Building,
        HasTask
  <2>2. t \in DOMAIN tasks /\ Held(t)
    BY <2>1 DEF LInv, PartsExist, InMemory, PartsStandAlone, Others, AllParts
  <2>3. t \in Blocks /\ t # ERR /\ t # NULL
    BY <2>2, NULLAssumption, ProcessAssumption, TotalAssumption, SMT DEF Held, Blocks
  <2>. QED
    BY <2>2, <2>3 DEF LInv, LoadTyped, MemoryTyped
<1>4. t \in ListedTasks' /\ ListedTasks \subseteq ListedTasks'
  <2>1. p \in DOMAIN procs /\ procs[p] \in Record
    BY <1>1, <1>2, OwnProcess DEF Building, LInv, LoadTyped, MemoryTyped
  <2>2. procs'[p].task = t
    BY <1>1, <2>1 DEF Record
  <2>3. p \in Owners' /\ Finished(p)'
    BY <1>1, <1>2, <1>3, <2>2 DEF Owners, Finished, Own, Building, Mapping
  <2>4. ASSUME NEW u \in ListedTasks PROVE u \in ListedTasks'
    <3>1. PICK q \in Owners : Finished(q) /\ u = procs[q].task
      BY DEF ListedTasks
    <3>2. LoadNext
      BY DEF LoadNext
    <3>3. Finished(q)' /\ procs'[q] = procs[q]
      BY <3>1, <3>2, FinishedChange
    <3>. QED
      BY <3>1, <3>3 DEF ListedTasks, Finished
  <2>. QED
    BY <2>2, <2>3, <2>4 DEF ListedTasks
<1>5. tasks[t].next = NULL /\ tasks[t].prev = NULL
  BY <1>1, <1>2 DEF TaskList, HasTask
<1>6. /\ s \in [1 .. n -> ListedTasks] /\ \A j, k \in 1 .. n : s[j] = s[k] => j = k
      /\ \A k \in 1 .. n : /\ s[k] # t /\ s[k] # NULL /\ s[k] \in DOMAIN tasks
                           /\ tasks[s[k]] \in TaskRecord
  BY <1>1, <1>2, ListedAreParts DEF TasksLinked, HasTask
<1>7. PICK r : r = [k \in 1 .. (n + 1) |-> IF k = n + 1 THEN t ELSE s[k]]
  OBVIOUS
<1>8. /\ \A k \in 1 .. n : k \in 1 .. (n + 1) /\ r[k] = s[k] /\ k # n + 1
      /\ r[n + 1] = t /\ \A k \in 1 .. (n + 1) : k = n + 1 \/ k \in 1 .. n
  BY <1>7, SMT
<1>9. r \in [1 .. (n + 1) -> ListedTasks']
  BY <1>4, <1>6, <1>7, <1>8
<1>10. \A j, k \in 1 .. (n + 1) : r[j] = r[k] => j = k
  BY <1>6, <1>8
<1>11. CASE n = 0
  <2>1. head' = t /\ tail' = t /\ current' = t /\ tasks' = tasks
    BY <1>1, <1>11 DEF TasksLinked, LinkTask
  <2>2. r[1] = t /\ \A k : k \notin 1 .. ((n + 1) - 1)
    BY <1>8, <1>11
  <2>3. \E k \in 1 .. (n + 1) : current' = r[k]
    BY <1>8, <1>11, <2>1
  <2>. QED
    BY <1>5, <1>8, <1>9, <1>10, <1>11, <2>1, <2>2, <2>3 DEF TasksLinked
<1>12. CASE n # 0
  <2>0. 1 \in 1 .. n /\ n \in 1 .. n /\ (n + 1) - 1 = n /\ n + 1 # 0
    BY <1>12, SMT
  <2>1. /\ head = s[1] /\ tail = s[n] /\ (\E k \in 1 .. n : current = s[k])
        /\ tasks[s[1]].prev = NULL /\ tasks[s[n]].next = NULL
        /\ \A k \in 1 .. (n - 1) : tasks[s[k]].next = s[k + 1] /\ tasks[s[k + 1]].prev = s[k]
    BY <1>12 DEF TasksLinked
  <2>2. head # NULL
    BY <1>6, <2>0, <2>1
  <2>3. /\ tasks' = [tasks EXCEPT ![z].next = t, ![t].prev = z]
        /\ tail' = t /\ UNCHANGED <<head, current>> /\ z = s[n]
    BY <1>1, <2>1, <2>2 DEF LinkTask
  <2>4. PICK mid : mid = [tasks EXCEPT ![z].next = t]
    OBVIOUS
  <2>5. tasks' = [mid EXCEPT ![t].prev = z] /\ DOMAIN mid = DOMAIN tasks
    BY <2>3, <2>4
  <2>6. mid[t] = tasks[t] /\ mid[z].next = t /\ mid[z].prev = tasks[z].prev
    BY <1>3, <1>6, <2>0, <2>3, <2>4 DEF TaskRecord
  <2>7. \A u \in DOMAIN tasks : u # z => mid[u] = tasks[u]
    BY <2>4
  <2>8. /\ tasks'[z].next = t /\ tasks'[z].prev = tasks[z].prev
        /\ tasks'[t].prev = z /\ tasks'[t].next = NULL
        /\ \A u \in DOMAIN tasks : u # z /\ u # t => tasks'[u] = tasks[u]
    BY <1>3, <1>5, <1>6, <2>0, <2>3, <2>5, <2>6, <2>7 DEF TaskRecord
  <2>9. \A k \in 1 .. n : tasks'[s[k]].prev = tasks[s[k]].prev
    BY <1>6, <2>8
  <2>10. \A k \in 1 .. (n - 1) : k \in 1 .. n /\ k + 1 \in 1 .. n /\ k # n
    BY SMT
  <2>11. \A k \in 1 .. (n - 1) : tasks'[s[k]].next = tasks[s[k]].next
    BY <1>6, <2>0, <2>3, <2>8, <2>10
  <2>12. ASSUME NEW k \in 1 .. n
         PROVE  tasks'[r[k]].next = r[k + 1] /\ tasks'[r[k + 1]].prev = r[k]
    <3>1. CASE k = n
      BY <1>8, <2>0, <2>3, <2>8, <3>1
    <3>2. CASE k # n
      <4>1. k \in 1 .. (n - 1)
        BY <2>12, <3>2, SMT
      <4>2. k + 1 \in 1 .. n
        BY <2>10, <4>1
      <4>3. r[k] = s[k] /\ r[k + 1] = s[k + 1]
        BY <1>8, <4>2
      <4>. QED
        BY <2>1, <2>9, <2>11, <4>1, <4>2, <4>3
    <3>. QED
      BY <3>1, <3>2
  <2>13. \E k \in 1 .. (n + 1) : current' = r[k]
    BY <1>8, <2>1, <2>3
  <2>14. /\ head' = r[1] /\ tail' = r[n + 1] /\ tasks'[r[1]].prev = NULL
         /\ tasks'[r[n + 1]].next = NULL
    BY <1>8, <2>0, <2>1, <2>3, <2>8, <2>9
  <2>. QED
    BY <1>9, <1>10, <2>0, <2>12, <2>13, <2>14 DEF TasksLinked
<1>. QED
  BY <1>9, <1>11, <1>12

(* At most MaxLoads tasks come to the list, one per load.                  *)
LEMMA LoadsCounted ==
    ASSUME LInv, TaskList, [LoadNext]_allVars
    PROVE  \E u, v \in {0, 1} : /\ u = Unlisted /\ v = Unlisted'
                                /\ loads \in Nat /\ loads' \in 0 .. MaxLoads
                                /\ loads' + u >= loads + v
                                /\ LinkTask => loads' + u >= loads + v + 1
<1>1. loads \in 0 .. MaxLoads /\ MaxLoads \in Nat /\ loads \in Nat
  BY ProcessAssumption DEF TaskList
<1>2. PICK u, v : u = Unlisted /\ v = Unlisted'
  OBVIOUS
<1>3. u \in {0, 1} /\ v \in {0, 1}
  BY <1>2 DEF Unlisted
<1>4. /\ loads' \in 0 .. MaxLoads /\ loads' + u >= loads + v
      /\ LinkTask => loads' + u >= loads + v + 1
  <2>1. CASE \E path \in Calls : BeginLoad(path)
    <3>1. pc = "idle" /\ loads < MaxLoads /\ loads' = loads + 1 /\ ~LinkTask
      BY <2>1 DEF BeginLoad, LinkTask
    <3>2. u = 0
      BY <1>2, <3>1 DEF Unlisted, Building
    <3>3. (loads + 1) + 0 >= loads + v /\ loads + 1 \in 0 .. MaxLoads
      BY <1>1, <1>3, <3>1
    <3>. QED
      BY <3>1, <3>2, <3>3
  <2>2. CASE LinkTask
    <3>1. loads' = loads /\ pc = "link" /\ pc' = "map_program"
      BY <2>2 DEF LinkTask, countVars
    <3>2. u = 1 /\ v = 0
      BY <1>2, <3>1 DEF Unlisted, Building
    <3>3. loads + 1 >= loads + 0 /\ loads + 1 >= loads + 0 + 1
      BY <1>1
    <3>. QED
      BY <1>1, <3>1, <3>2, <3>3
  <2>3. CASE ~LinkTask /\ ~(\E path \in Calls : BeginLoad(path))
    <3>1. loads' = loads
      BY <2>3
      DEF LoadNext, AllocProcess, OpenFile, FopenRuns, StatFile, AllocData, ReadFile,
          CloseFile, AllocStack, AllocTask, AllocDirectory, AllocTable, AllocChunk, UnwindTask,
          MapProgram, MapStack, Publish, allVars, loadVars, countVars
    <3>2. pc' \in {"process"} \cup Building => pc \in {"process"} \cup Building
      BY <2>3
      DEF LoadNext, AllocProcess, OpenFile, FopenRuns, StatFile, AllocData, ReadFile,
          CloseFile, AllocStack, AllocTask, AllocDirectory, AllocTable, AllocChunk, UnwindTask,
          MapProgram, MapStack, Publish, allVars, loadVars, Fail, Building
    <3>3. v = 1 => u = 1
      BY <1>2, <3>2 DEF Unlisted
    <3>4. loads + u >= loads + v
      BY <1>1, <1>3, <3>3
    <3>. QED
      BY <1>1, <2>3, <3>1, <3>4
  <2>. QED
    BY <2>1, <2>2, <2>3
<1>. QED
  BY <1>1, <1>2, <1>3, <1>4, Zenon

(* The tasks stay on the list, in their order.                             *)
LEMMA NextTaskList ==
    ASSUME LInv, TaskList, [LoadNext]_allVars
    PROVE  TaskList'
<1>0. PICK n \in 0 .. MaxLoads : /\ n + Unlisted <= loads
                                 /\ \E s \in [1 .. n -> ListedTasks] : TasksLinked(n, s)
  BY DEF TaskList
<1>1. PICK s : n + Unlisted <= loads /\ TasksLinked(n, s)
  BY <1>0
<1>2. PICK u, v \in {0, 1} : /\ u = Unlisted /\ v = Unlisted'
                             /\ loads \in Nat /\ loads' \in 0 .. MaxLoads
                             /\ loads' + u >= loads + v
                             /\ LinkTask => loads' + u >= loads + v + 1
  BY LoadsCounted
<1>3. PICK l, m : l = loads /\ m = loads'
  OBVIOUS
<1>4. /\ n + u <= l /\ l \in Nat /\ m \in 0 .. MaxLoads /\ m + u >= l + v
      /\ LinkTask => m + u >= l + v + 1
  <2>1. n + u <= l
    BY <1>1, <1>2, <1>3
  <2>2. l \in Nat /\ m \in 0 .. MaxLoads
    BY <1>2, <1>3
  <2>3. m + u >= l + v /\ (LinkTask => m + u >= l + v + 1)
    BY <1>2, <1>3
  <2>. QED
    BY <2>1, <2>2, <2>3
<1>5. n \in Nat /\ MaxLoads \in Nat
  BY ProcessAssumption
<1>6. n + v <= m /\ (LinkTask => (n + 1) + v <= m /\ n + 1 \in 0 .. MaxLoads)
  <2>1. n + v <= m
    BY <1>4, <1>5
  <2>2. LinkTask => (n + 1) + v <= m
    BY <1>4, <1>5
  <2>3. LinkTask => n + 1 \in 0 .. MaxLoads
    BY <1>4, <1>5
  <2>. QED
    BY <2>1, <2>2, <2>3
<1>7. \E k \in 0 .. MaxLoads : /\ k + Unlisted' <= loads'
                               /\ \E r \in [1 .. k -> ListedTasks'] : TasksLinked(k, r)'
  <2>1. CASE LinkTask
    <3>1. \E r \in [1 .. (n + 1) -> ListedTasks'] : TasksLinked(n + 1, r)'
      BY <1>1, <1>5, <2>1, LinkExtends
    <3>2. n + 1 \in 0 .. MaxLoads /\ (n + 1) + Unlisted' <= loads'
      BY <1>2, <1>3, <1>6, <2>1
    <3>. QED
      BY <3>1, <3>2
  <2>2. CASE ~LinkTask
    <3>1. n + Unlisted' <= loads'
      BY <1>2, <1>3, <1>6
    <3>2. /\ UNCHANGED <<head, tail, current>>
          /\ \A t \in ListedTasks : /\ t \in ListedTasks' /\ tasks'[t].next = tasks[t].next
                                    /\ tasks'[t].prev = tasks[t].prev
      BY <2>2, LinksStay
    <3>3. s \in [1 .. n -> ListedTasks'] /\ \A k \in 1 .. n : s[k] \in ListedTasks
      BY <1>1, <3>2 DEF TasksLinked
    <3>4. /\ \A k \in 1 .. (n - 1) : k \in 1 .. n /\ k + 1 \in 1 .. n
          /\ n # 0 => 1 \in 1 .. n /\ n \in 1 .. n
      BY <1>4, <1>5
    <3>5. \A k \in 1 .. n : tasks'[s[k]].next = tasks[s[k]].next
                            /\ tasks'[s[k]].prev = tasks[s[k]].prev
      BY <3>2, <3>3
    <3>6. TasksLinked(n, s)'
      BY <1>1, <3>2, <3>3, <3>4, <3>5 DEF TasksLinked
    <3>. QED
      BY <3>1, <3>3, <3>6
  <2>. QED
    BY <2>1, <2>2
<1>8. pc' \in HasTask => (tasks[ld.task].next = NULL /\ tasks[ld.task].prev = NULL)'
  BY NewTaskAlone
<1>. QED
  BY <1>2, <1>7, <1>8 DEF TaskList

(* The invariant of the loads, with the list of tasks.                     *)
THEOREM TaskListInvariant == LoadSpec => [](LInv /\ TaskList)
<1>1. LoadInit => LInv /\ TaskList
  <2>. SUFFICES ASSUME LoadInit PROVE LInv /\ TaskList
    OBVIOUS
  <2>1. /\ loads = 0 /\ MaxLoads \in Nat /\ Unlisted = 0 /\ pc \notin HasTask
        /\ head = NULL /\ tail = NULL /\ current = NULL
    BY ProcessAssumption DEF LoadInit, Unlisted, Building, HasTask
  <2>2. PICK s : s = [k \in 1 .. 0 |-> NULL]
    OBVIOUS
  <2>3. \A k : k \notin 1 .. 0 /\ k \notin 1 .. (0 - 1)
    OBVIOUS
  <2>4. s \in [1 .. 0 -> ListedTasks]
    BY <2>2, <2>3
  <2>5. TasksLinked(0, s)
    BY <2>1, <2>3, <2>4 DEF TasksLinked
  <2>6. 0 \in 0 .. MaxLoads /\ 0 + Unlisted <= loads
    BY <2>1
  <2>. QED
    BY <2>1, <2>4, <2>5, <2>6, InitLInv DEF TaskList
<1>2. LInv /\ TaskList /\ [LoadNext]_allVars => (LInv /\ TaskList)'
  BY NextLInv, NextTaskList
<1>. QED
  BY <1>1, <1>2, PTL DEF LoadSpec

-----------------------------------------------------------------------------
(* Following next from the head, as Reached does, meets the whole list.    *)

Nexts(S) == S \cup ({tasks[t].next : t \in S} \ {NULL})

ListStep(g) ==
    [k \in 0 .. MaxLoads |-> IF k = 0 THEN {head} \ {NULL} ELSE Nexts(g[k - 1])]

(* What is met by the k-th step: the first k + 1 tasks.                    *)
Firsts(n, s, k) == {s[j] : j \in {i \in 1 .. n : i <= k + 1}}

(* One step more meets one task more.                                      *)
LEMMA FirstsGrow ==
    ASSUME LInv, NEW n \in Nat, NEW s, TasksLinked(n, s), NEW k \in Nat, k # 0
    PROVE  Firsts(n, s, k) = Nexts(Firsts(n, s, k - 1))
<1> DEFINE F == Firsts(n, s, k - 1)
<1>1. \A j \in 1 .. n : s[j] \in ListedTasks /\ s[j] # NULL
  BY ListedAreParts DEF TasksLinked
<1>2. \A t : t \in F <=> \E j \in 1 .. n : j <= k /\ t = s[j]
  BY DEF Firsts
<1>3. \A t : t \in Firsts(n, s, k) <=> \E j \in 1 .. n : j <= k + 1 /\ t = s[j]
  BY DEF Firsts
<1>4. ASSUME NEW j \in 1 .. n, j <= k
      PROVE  IF j = n THEN tasks[s[j]].next = NULL
             ELSE j + 1 \in 1 .. n /\ j + 1 <= k + 1 /\ tasks[s[j]].next = s[j + 1]
  <2>1. n # 0 /\ (j # n => j \in 1 .. (n - 1) /\ j + 1 \in 1 .. n) /\ j + 1 <= k + 1
    BY <1>4
  <2>. QED
    BY <2>1 DEF TasksLinked
<1>5. ASSUME NEW t \in F, tasks[t].next # NULL PROVE tasks[t].next \in Firsts(n, s, k)
  <2>1. PICK j \in 1 .. n : j <= k /\ t = s[j]
    BY <1>2, <1>5
  <2>2. j + 1 \in 1 .. n /\ j + 1 <= k + 1 /\ tasks[t].next = s[j + 1]
    BY <1>4, <1>5, <2>1
  <2>. QED
    BY <1>3, <2>2
<1>6. ASSUME NEW t \in F PROVE t \in Firsts(n, s, k)
  <2>1. PICK j \in 1 .. n : j <= k /\ t = s[j]
    BY <1>2, <1>6
  <2>2. j <= k + 1
    BY <2>1
  <2>. QED
    BY <1>3, <2>1, <2>2
<1>7. ASSUME NEW t \in Firsts(n, s, k), t \notin F
      PROVE  t # NULL /\ \E r \in F : t = tasks[r].next
  <2>1. PICK j \in 1 .. n : j <= k + 1 /\ t = s[j]
    BY <1>3, <1>7
  <2>2. ~(j <= k)
    BY <1>2, <1>7, <2>1
  <2>3. j - 1 \in 1 .. n /\ j - 1 <= k /\ j - 1 # n /\ (j - 1) + 1 = j
    BY <2>1, <2>2
  <2>4. s[j - 1] \in F
    BY <1>2, <2>3
  <2>5. tasks[s[j - 1]].next = s[j]
    BY <1>4, <2>3
  <2>. QED
    BY <1>1, <2>1, <2>4, <2>5
<1> HIDE DEF F
<1>8. Firsts(n, s, k) = Nexts(F)
  BY <1>5, <1>6, <1>7 DEF Nexts
<1>. QED
  BY <1>8 DEF F

(* Reached is the set of the tasks on the list.                            *)
LEMMA ReachedIsTheList ==
    ASSUME LInv, NEW n \in 0 .. MaxLoads, NEW s, TasksLinked(n, s)
    PROVE  Reached = {s[k] : k \in 1 .. n}
<1>0. n \in Nat /\ MaxLoads \in Nat
  BY ProcessAssumption
<1>1. Firsts(n, s, 0) = {head} \ {NULL}
  <2>1. CASE n = 0
    <3>1. \A i : i \notin 1 .. 0
      OBVIOUS
    <3>. QED
      BY <2>1, <3>1 DEF TasksLinked, Firsts
  <2>2. CASE n # 0
    <3>1. 1 \in 1 .. n /\ \A i \in 1 .. n : i <= 0 + 1 <=> i = 1
      BY <1>0, <2>2
    <3>2. head = s[1] /\ s[1] # NULL
      BY <2>2, <3>1, ListedAreParts DEF TasksLinked
    <3>. QED
      BY <3>1, <3>2 DEF Firsts
  <2>. QED
    BY <2>1, <2>2
<1>2. \A k \in 0 .. MaxLoads :
        k # 0 => /\ k - 1 \in 0 .. MaxLoads
                 /\ Firsts(n, s, k) = Nexts(Firsts(n, s, k - 1))
  <2>. SUFFICES ASSUME NEW k \in 0 .. MaxLoads, k # 0
                PROVE  /\ k - 1 \in 0 .. MaxLoads
                       /\ Firsts(n, s, k) = Nexts(Firsts(n, s, k - 1))
    OBVIOUS
  <2>1. k \in Nat /\ k - 1 \in 0 .. MaxLoads
    BY <1>0
  <2>. QED
    BY <1>0, <2>1, FirstsGrow
<1>3. \E g : g = ListStep(g)
  <2>1. PICK h : h = [k \in 0 .. MaxLoads |-> Firsts(n, s, k)]
    OBVIOUS
  <2>2. \A k \in 0 .. MaxLoads :
          h[k] = IF k = 0 THEN {head} \ {NULL} ELSE Nexts(h[k - 1])
    BY <1>1, <1>2, <2>1
  <2>3. h = ListStep(h)
    BY <2>1, <2>2 DEF ListStep
  <2>. QED
    BY <2>3
<1> DEFINE f == CHOOSE g : g = ListStep(g)
<1>4. f = ListStep(f)
  BY <1>3
<1>5. Reached = f[MaxLoads]
  BY DEF Reached, ListStep, Nexts
<1> HIDE DEF f
<1>6. \A k \in 0 .. MaxLoads :
        f[k] = IF k = 0 THEN {head} \ {NULL} ELSE Nexts(f[k - 1])
  BY <1>4 DEF ListStep
<1>7. \A k \in 0 .. MaxLoads : f[k] = Firsts(n, s, k)
  <2> DEFINE S == {k \in 0 .. MaxLoads : f[k] # Firsts(n, s, k)}
  <2>1. SUFFICES ASSUME S # {} PROVE FALSE
    OBVIOUS
  <2>2. S \in SUBSET Nat
    BY <1>0
  <2>3. \E k \in S : \A j \in S : k <= j
    <3> HIDE DEF S
    <3>. QED
      BY <2>1, <2>2, Least
  <2>4. PICK k \in S : \A j \in S : k <= j
    BY <2>3
  <2>5. k # 0
    BY <1>1, <1>6
  <2>6. k - 1 \in 0 .. MaxLoads /\ ~(k <= k - 1)
    BY <1>0, <2>5
  <2>7. f[k - 1] = Firsts(n, s, k - 1)
    BY <2>4, <2>6
  <2>. QED
    BY <1>2, <1>6, <2>5, <2>7
<1>8. \A j \in 1 .. n : j <= MaxLoads + 1
  BY <1>0
<1>9. MaxLoads \in 0 .. MaxLoads
  BY <1>0
<1>. QED
  BY <1>5, <1>7, <1>8, <1>9 DEF Firsts

(* The list of tasks is linked both ways and ends where task_tail points;  *)
(* its tasks are alive and the current one is among them (task_new).       *)
THEOREM TasksStayLinked == LoadSpec => []TaskListSound
<1>1. LInv /\ TaskList => TaskListSound
  <2>. SUFFICES ASSUME LInv, TaskList PROVE TaskListSound
    OBVIOUS
  <2>0. PICK n \in 0 .. MaxLoads : \E s \in [1 .. n -> ListedTasks] : TasksLinked(n, s)
    BY DEF TaskList
  <2>1. PICK s : TasksLinked(n, s)
    BY <2>0
  <2>2. n \in Nat /\ \A t : t \in Reached <=> \E k \in 1 .. n : t = s[k]
    BY <2>1, ReachedIsTheList
  <2>3. \A k \in 1 .. n : s[k] # NULL /\ live[s[k]] > 0
    BY <2>1, ListedAreParts DEF TasksLinked, Held
  <2>4. CASE n = 0
    <3>1. head = NULL /\ tail = NULL /\ current = NULL /\ \A t : t \notin Reached
      BY <2>1, <2>2, <2>4 DEF TasksLinked
    <3>. QED
      BY <3>1 DEF TaskListSound
  <2>5. CASE n # 0
    <3>0. 1 \in 1 .. n /\ n \in 1 .. n
      BY <2>2, <2>5
    <3>1. /\ head = s[1] /\ tail = s[n] /\ (\E k \in 1 .. n : current = s[k])
          /\ tasks[s[1]].prev = NULL /\ tasks[s[n]].next = NULL
          /\ \A k \in 1 .. (n - 1) : /\ tasks[s[k]].next = s[k + 1]
                                     /\ tasks[s[k + 1]].prev = s[k]
      BY <2>1, <2>5 DEF TasksLinked
    <3>2. head # NULL /\ tail # NULL /\ current # NULL /\ {tail, current} \subseteq Reached
      BY <2>2, <2>3, <3>0, <3>1
    <3>3. ASSUME NEW t \in Reached
          PROVE  /\ live[t] > 0
                 /\ t # tail => tasks[t].next \in Reached /\ tasks[tasks[t].next].prev = t
                 /\ t # head => tasks[tasks[t].prev].next = t
      <4>1. PICK k \in 1 .. n : t = s[k]
        BY <2>2
      <4>2. ASSUME t # tail
            PROVE  tasks[t].next \in Reached /\ tasks[tasks[t].next].prev = t
        <5>1. k \in 1 .. (n - 1) /\ k + 1 \in 1 .. n
          BY <2>2, <3>1, <4>1, <4>2
        <5>. QED
          BY <2>2, <3>1, <4>1, <5>1
      <4>3. ASSUME t # head PROVE tasks[tasks[t].prev].next = t
        <5>1. k - 1 \in 1 .. (n - 1) /\ (k - 1) + 1 = k
          BY <2>2, <3>1, <4>1, <4>3
        <5>2. tasks[s[k - 1]].next = s[k] /\ tasks[s[k]].prev = s[k - 1]
          BY <3>1, <5>1
        <5>. QED
          BY <4>1, <5>2
      <4>. QED
        BY <2>3, <4>1, <4>2, <4>3
    <3>. QED
      BY <3>1, <3>2, <3>3 DEF TaskListSound
  <2>. QED
    BY <2>4, <2>5
<1>. QED
  BY <1>1, TaskListInvariant, PTL

-----------------------------------------------------------------------------
(* What a load adds to the heap. Of the blocks that are in use now and     *)
(* were not when the load began, those are counted that are neither the    *)
(* process's nor the open file's.                                          *)

Left(K) == Cardinality(LiveStarts \ (before \cup K))

(* The root of a path, a string and a structure for each of its parts.     *)
PathBlocks(n) == 1 + 2 * n

(* While fopen runs. Where an allocation has failed in the parser fopen    *)
(* goes on with a full heap, and makes no file.                            *)
ParsingCount ==
    /\ step = "root" => fo.n = 0 /\ Left({ld.p}) = 0
    /\ step = "string" => Left({ld.p}) = PathBlocks(fo.n)
    /\ step \in {"part", "ended"} => Left({ld.p}) = PathBlocks(fo.n) + 1
    /\ step \in {"parsed", "fat"} => Left({ld.p}) = PathBlocks(fo.n) \/ Full

MakingCount ==
    /\ step \in {"find", "item"} => Left({ld.p, fo.fat}) = PathBlocks(fo.n)
    /\ step \in {"dir", "dir_items", "undo_dir"} => Root[fo.slot].dir
    /\ step = "clone" =>
          Root[fo.slot].dir \/ Left({ld.p, fo.fat, fo.item}) = PathBlocks(fo.n)
    /\ step = "descriptor" =>
          Root[fo.slot].dir
          \/ Left({ld.p, fo.fat, fo.item, items[fo.item]}) = PathBlocks(fo.n)

OpeningCount == fo.path = ld.path /\ ParsingCount /\ MakingCount

(* While the file is open, as the first one.                               *)
TheFile == file_descriptors[0]

FileCount(K) ==
    /\ Root[FileOf(TheFile)].name = ld.path.parts[1]
    /\ \/ Root[FileOf(TheFile)].dir
       \/ Left(K \cup FileBlocks(TheFile)) = PathBlocks(Len(ld.path.parts))

(* Once it is closed: the blocks of the path are left.                     *)
LoadCount(K) ==
    \E i \in Used : /\ Root[i].name = ld.path.parts[1] /\ Root[i].size = procs[ld.p].size
                    /\ Root[i].dir \/ Left(K) = PathBlocks(Len(ld.path.parts))

WithStack == {ld.p, procs[ld.p].ptr, procs[ld.p].stack}
WithTables == {ld.task, ld.dir} \cup {dirs[ld.dir][r] : r \in 0 .. (ld.i - 1)}

OpenCount ==
    /\ pc = "process" => Left({}) = 0
    /\ pc = "open" => Left({ld.p}) = 0
    /\ pc = "opening" /\ step # "idle" => OpeningCount
    /\ pc = "opening" /\ step = "idle" /\ Open = {0} => FileCount({ld.p})
    /\ pc = "data" => FileCount({ld.p}) /\ ld.size = Root[FileOf(TheFile)].size
    /\ pc = "read" /\ ld.size > 0 =>
          FileCount({ld.p, ld.data}) /\ ld.size = Root[FileOf(TheFile)].size
    /\ pc = "close" /\ procs[ld.p].ptr # NULL =>
          /\ FileCount({ld.p, procs[ld.p].ptr})
          /\ procs[ld.p].size = Root[FileOf(TheFile)].size

BuildCount ==
    /\ pc = "stack" => LoadCount({ld.p, procs[ld.p].ptr})
    /\ pc = "task" => LoadCount(WithStack)
    /\ pc = "directory" => LoadCount(WithStack \cup {ld.task})
    /\ pc \in {"table", "chunk"} => LoadCount(WithStack \cup WithTables)
    /\ pc = "link" => LoadCount(WithStack \cup WithTables \cup {tasks[ld.task].dir})
    /\ pc \in Mapping /\ procs[ld.p].task # ERR =>
          LoadCount(Structures(ld.p) \cup {procs[ld.p].ptr, procs[ld.p].stack})

Count == OpenCount /\ BuildCount

(* The allocations are finitely many, and none is at the null pointer.     *)
LEMMA LiveAreFinite ==
    /\ LiveStarts \subseteq Blocks /\ NULL \notin LiveStarts
    /\ \A S : IsFiniteSet(LiveStarts \ S) /\ Cardinality(LiveStarts \ S) \in Nat
<1>1. LiveStarts \subseteq Blocks /\ NULL \notin LiveStarts
  BY NULLAssumption, SMT DEF LiveStarts, Blocks
<1>2. IsFiniteSet(Blocks)
  <2>1. Total - 1 \in Int /\ 0 \in Int
    BY TotalAssumption
  <2>. QED
    BY <2>1, FS_Interval DEF Blocks
<1>3. ASSUME NEW S PROVE IsFiniteSet(LiveStarts \ S) /\ Cardinality(LiveStarts \ S) \in Nat
  <2>1. LiveStarts \ S \subseteq Blocks
    BY <1>1
  <2>2. IsFiniteSet(LiveStarts \ S)
    BY <1>2, <2>1, FS_Subset
  <2>. QED
    BY <2>2, FS_CardinalityType
<1>. QED
  BY <1>1, <1>3

(* kzalloc adds the block it grants to the allocations, if it grants one.  *)
LEMMA LiveGrows ==
    ASSUME IInv, NEW size \in Requests, BlocksOf(size) > 0, KZalloc(size), NEW b, b = ret'
    PROVE  b \notin LiveStarts /\ LiveStarts' = LiveStarts \cup ({b} \ {NULL})
<1>1. IInv' /\ live \in [Blocks -> Nat] /\ live' \in [Blocks -> Nat]
  BY Granted DEF IInv, TypeOK, Blocks
<1>2. CASE b = NULL
  BY <1>2, Granted, LiveAreFinite DEF LiveStarts, Blocks
<1>3. CASE b # NULL
  <2>1. b \in Blocks /\ live[b] = 0 /\ live' = [live EXCEPT ![b] = BlocksOf(size)]
    BY <1>3, Granted
  <2>. QED
    BY <1>1, <1>3, <2>1, SMT DEF LiveStarts, Blocks
<1>. QED
  BY <1>2, <1>3

(* What is granted and known is not counted.                               *)
LEMMA KnownBlock ==
    ASSUME IInv, NEW size \in Requests, BlocksOf(size) > 0, KZalloc(size), NEW b, b = ret',
           before' = before, NEW K
    PROVE  Left(K \cup {b})' = Left(K)
<1>1. b \notin LiveStarts /\ LiveStarts' = LiveStarts \cup ({b} \ {NULL}) /\ NULL \notin LiveStarts
  BY LiveGrows, LiveAreFinite
<1>2. LiveStarts' \ (before \cup (K \cup {b})) = LiveStarts \ (before \cup K)
  BY <1>1
<1>. QED
  BY <1>2 DEF Left

(* What is granted and not known is counted.                               *)
LEMMA MoreBlock ==
    ASSUME IInv, NEW size \in Requests, BlocksOf(size) > 0, KZalloc(size), NEW b, b = ret',
           before' = before, NEW K, b # NULL, b \notin before \cup K
    PROVE  Left(K)' = Left(K) + 1
<1>1. b \notin LiveStarts /\ LiveStarts' = LiveStarts \cup {b}
  BY LiveGrows
<1>2. PICK S : S = LiveStarts \ (before \cup K)
  OBVIOUS
<1>3. LiveStarts' \ (before \cup K) = S \cup {b} /\ b \notin S
  BY <1>1, <1>2
<1>4. IsFiniteSet(S)
  BY <1>2, LiveAreFinite
<1>5. Cardinality(S \cup {b}) = Cardinality(S) + 1
  BY <1>3, <1>4, FS_AddElement
<1>. QED
  BY <1>2, <1>3, <1>5 DEF Left

(* Where nothing is granted or released nothing changes.                   *)
LEMMA SameLeft ==
    ASSUME live' = live, before' = before, NEW K
    PROVE  Left(K)' = Left(K)
  BY DEF Left, LiveStarts, Blocks

(* The root of the path, and two blocks for each part of it.               *)
LEMMA PathBlocksStep ==
    ASSUME NEW n \in Nat
    PROVE  PathBlocks(0) = 1 /\ PathBlocks(n + 1) = PathBlocks(n) + 1 + 1
  BY SMT DEF PathBlocks

(* While fopen runs: what the load owns is allocated and apart from what   *)
(* fopen has made, and there is no open file.                              *)
LEMMA Opening ==
    ASSUME LInv, Count, pc = "opening", step # "idle"
    PROVE  /\ FInv /\ IInv /\ OpeningCount /\ Open = {} /\ fo \in Locals
           /\ ld.p \in LiveStarts /\ ld.p \notin FopensOwn /\ before \subseteq LiveStarts
           /\ before \cap FopensOwn = {} /\ fo.n \in Nat
           /\ StructSize \in Requests /\ BlocksOf(StructSize) = 1
<1>1. FInv /\ Open = {} /\ OpeningCount /\ Others(before) /\ Others(AllParts)
  BY DEF LInv, FileSoFar, BeforeKept, PartsStandAlone, Count, OpenCount
<1>2. ld.p \in AllParts
  <2>1. ld.p \in Owners
    BY DEF Owners, Building
  <2>2. STRUCT \in Has(ld.p) /\ Part(ld.p, STRUCT) = ld.p
    BY PagingAssumption, SMT DEF Has, Part, Parts, STRUCT, Built
  <2>. QED
    BY <2>1, <2>2 DEF AllParts
<1>. QED
  BY <1>1, <1>2, StructSizeFits DEF Others, Held, LiveStarts, FInv, FilesTyped, Locals

(* An allocation of fopen's: granted, it is one more to count, and the     *)
(* heap was not full; refused, the heap is full.                           *)
LEMMA OneMore ==
    ASSUME LInv, Count, pc = "opening", step # "idle", KZalloc(StructSize), NEW b, b = ret',
           before' = before, NEW p, p = ld.p
    PROVE  /\ b = NULL => Full'
           /\ b # NULL => ~Full /\ Left({p})' = Left({p}) + 1
<1>1. /\ IInv /\ ld.p \in LiveStarts /\ before \subseteq LiveStarts
      /\ StructSize \in Requests /\ BlocksOf(StructSize) = 1
  BY Opening
<1>2. b \notin LiveStarts
  BY <1>1, LiveGrows
<1>3. b = NULL => Full'
  BY <1>1, Granted DEF Full, Free, Blocks
<1>4. b # NULL => ~Full
  BY <1>1, Granted
<1>5. ASSUME b # NULL PROVE Left({p})' = Left({p}) + 1
  <2>1. b \notin before \cup {p}
    BY <1>1, <1>2
  <2>. QED
    BY <1>1, <1>5, <2>1, MoreBlock
<1>. QED
  BY <1>3, <1>4, <1>5

(* The parser: the root, a string, the structure of a part.                *)
LEMMA ParsingCounted ==
    ASSUME LInv, Count, pc = "opening", PathRoot \/ PartString \/ PartStruct,
           before' = before, ld' = ld, step' # "idle"
    PROVE  OpeningCount'
<1>1. PICK b, p : b = ret' /\ p = ld.p /\ p = ld.p'
  OBVIOUS
<1>2. KZalloc(StructSize) /\ step \in {"root", "string", "part"}
  BY DEF PathRoot, PartString, PartStruct
<1>3. /\ b = NULL => Full'
      /\ b # NULL => Left({p})' = Left({p}) + 1
  BY <1>1, <1>2, OneMore
<1>4. /\ fo \in Locals /\ fo.n \in Nat /\ fo.path = ld.path
      /\ step = "root" => Left({p}) = 0
      /\ step = "string" => Left({p}) = PathBlocks(fo.n)
      /\ step = "part" => Left({p}) = PathBlocks(fo.n) + 1
      /\ step = "root" => fo.n = 0
  BY <1>1, <1>2, Opening DEF OpeningCount, ParsingCount
<1>5. Left({ld.p})' = Left({p})'
  BY <1>1 DEF Left
<1>6. CASE PathRoot
  BY <1>1, <1>3, <1>4, <1>5, <1>6, PathBlocksStep
  DEF PathRoot, Goto, Return, OpeningCount, ParsingCount, MakingCount
<1>7. CASE PartString
  BY <1>1, <1>3, <1>4, <1>5, <1>7
  DEF PartString, Goto, OpeningCount, ParsingCount, MakingCount, Locals
<1>8. CASE PartStruct
  BY <1>1, <1>3, <1>4, <1>5, <1>8, PathBlocksStep
  DEF PartStruct, Goto, OpeningCount, ParsingCount, MakingCount, Locals
<1>. QED
  BY <1>6, <1>7, <1>8

(* The last string is given back.                                          *)
LEMMA PathEndedCounted ==
    ASSUME LInv, Count, pc = "opening", PathEnded, before' = before, ld' = ld
    PROVE  OpeningCount'
<1>1. PICK s, p : s = fo.str /\ p = ld.p /\ p = ld.p'
  OBVIOUS
<1>2. /\ step = "ended" /\ KFree(s) /\ step' = "parsed" /\ fo' = fo
      /\ live[s] > 0 /\ live' = [live EXCEPT ![s] = 0]
  BY <1>1 DEF PathEnded, Goto, KFree
<1>3. /\ s \in Blocks /\ s \in FopensOwn /\ p \notin FopensOwn /\ before \cap FopensOwn = {}
      /\ live \in [Blocks -> Nat] /\ fo.n \in Nat
      /\ Left({p}) = PathBlocks(fo.n) + 1 /\ fo.path = ld.path
  BY <1>1, <1>2, Opening
  DEF FInv, FopenSoFar, PathSoFar, FopensOwn, Pending, IInv, TypeOK, OpeningCount, ParsingCount
<1>4. LiveStarts' = LiveStarts \ {s} /\ s \in LiveStarts
  BY <1>2, <1>3, SMT DEF LiveStarts, Blocks
<1>5. PICK S, T : S = LiveStarts \ (before \cup {p}) /\ T = LiveStarts' \ (before' \cup {p})
  OBVIOUS
<1>6. S = T \cup {s} /\ s \notin T
  BY <1>3, <1>4, <1>5
<1>7. IsFiniteSet(T) /\ Cardinality(T) \in Nat
  <2>1. T = S \ {s}
    BY <1>6
  <2>2. T = LiveStarts \ (before \cup {p} \cup {s})
    BY <1>5, <2>1
  <2>. QED
    BY <2>2, LiveAreFinite
<1>8. Cardinality(T \cup {s}) = Cardinality(T) + 1
  BY <1>6, <1>7, FS_AddElement
<1>9. Cardinality(T) = PathBlocks(fo.n)
  <2>1. Cardinality(S) = Left({p})
    BY <1>5 DEF Left
  <2>2. PathBlocks(fo.n) \in Int
    BY <1>3 DEF PathBlocks
  <2>. QED
    BY <1>3, <1>6, <1>7, <1>8, <2>1, <2>2
<1>10. Left({ld.p})' = Cardinality(T)
  BY <1>1, <1>5 DEF Left
<1>. QED
  BY <1>2, <1>3, <1>9, <1>10 DEF OpeningCount, ParsingCount, MakingCount

(* The mode and the disk are looked at.                                    *)
LEMMA CheckPathCounted ==
    ASSUME LInv, Count, pc = "opening", CheckPath, before' = before, ld' = ld, step' # "idle"
    PROVE  OpeningCount'
<1>1. PICK p : p = ld.p /\ p = ld.p'
  OBVIOUS
<1>2. step = "parsed" /\ step' = "fat" /\ fo' = fo /\ live' = live /\ entries' = entries
  BY DEF CheckPath, Goto, Return, vars
<1>3. Left({p})' = Left({p}) /\ (Full => Full')
  BY <1>2, SameLeft DEF Full, Free, Blocks
<1>4. Left({ld.p})' = Left({p})'
  BY <1>1 DEF Left
<1>5. (Left({p}) = PathBlocks(fo.n) \/ Full) /\ fo.path = ld.path
  BY <1>1, <1>2, Opening DEF OpeningCount, ParsingCount
<1>. QED
  BY <1>2, <1>3, <1>4, <1>5 DEF OpeningCount, ParsingCount, MakingCount

(* The first structure: where it is granted, none of the parser's was      *)
(* refused.                                                                *)
LEMMA FatDescriptorCounted ==
    ASSUME LInv, Count, pc = "opening", FatDescriptor, before' = before, ld' = ld,
           step' # "idle"
    PROVE  OpeningCount'
<1>1. PICK b, p : b = ret' /\ p = ld.p /\ p = ld.p'
  OBVIOUS
<1>2. /\ step = "fat" /\ KZalloc(StructSize) /\ step' = "find" /\ b # NULL
      /\ fo' = [fo EXCEPT !.fat = b]
  BY <1>1 DEF FatDescriptor, Goto, Return
<1>3. /\ fo \in Locals /\ fo.path = ld.path /\ IInv
      /\ StructSize \in Requests /\ BlocksOf(StructSize) > 0
      /\ Left({p}) = PathBlocks(fo.n) \/ Full
  BY <1>1, <1>2, Opening DEF OpeningCount, ParsingCount
<1>4. ~Full
  BY <1>1, <1>2, OneMore
<1>5. Left({p} \cup {b})' = Left({p})
  BY <1>1, <1>2, <1>3, KnownBlock
<1>6. fo'.fat = b /\ fo'.n = fo.n /\ fo'.path = fo.path
  BY <1>2, <1>3 DEF Locals
<1>7. {p, b} = {p} \cup {b}
  OBVIOUS
<1>8. Left({ld.p, fo.fat})' = Left({p} \cup {b})'
  BY <1>1, <1>6, <1>7 DEF Left
<1>. QED
  BY <1>2, <1>3, <1>4, <1>5, <1>6, <1>8 DEF OpeningCount, ParsingCount, MakingCount

(* The search.                                                             *)
LEMMA FindCounted ==
    ASSUME LInv, Count, pc = "opening", Find, before' = before, ld' = ld, step' # "idle"
    PROVE  OpeningCount'
<1>1. PICK i : step' = "item" /\ fo' = [fo EXCEPT !.slot = i]
  BY DEF Find, Goto, Return
<1>2. step = "find" /\ live' = live
  BY DEF Find, vars
<1>3. fo \in Locals /\ fo.path = ld.path /\ Left({ld.p, fo.fat}) = PathBlocks(fo.n)
  BY <1>2, Opening DEF OpeningCount, MakingCount
<1>4. PICK K : K = {ld.p, fo.fat}
  OBVIOUS
<1>5. fo'.fat = fo.fat /\ fo'.n = fo.n /\ fo'.path = fo.path
  BY <1>1, <1>3 DEF Locals
<1>6. Left(K)' = Left(K)
  BY <1>2, SameLeft
<1>7. Left({ld.p, fo.fat})' = Left(K)'
  BY <1>4, <1>5 DEF Left
<1>. QED
  BY <1>1, <1>3, <1>4, <1>5, <1>6, <1>7 DEF OpeningCount, ParsingCount, MakingCount

(* The item of the FAT.                                                    *)
LEMMA FatItemCounted ==
    ASSUME LInv, Count, pc = "opening", FatItem, before' = before, ld' = ld, step' # "idle"
    PROVE  OpeningCount'
<1>1. PICK b, K : b = ret' /\ K = {ld.p, fo.fat}
  OBVIOUS
<1>2. /\ step = "item" /\ KZalloc(StructSize) /\ fo' = [fo EXCEPT !.item = b]
      /\ step' = IF Root[fo.slot].dir THEN "dir" ELSE "clone"
  BY <1>1 DEF FatItem, Goto, Return
<1>3. /\ fo \in Locals /\ fo.path = ld.path /\ IInv
      /\ StructSize \in Requests /\ BlocksOf(StructSize) > 0
      /\ Left(K) = PathBlocks(fo.n)
  BY <1>1, <1>2, Opening DEF OpeningCount, MakingCount
<1>4. Left(K \cup {b})' = Left(K)
  BY <1>1, <1>2, <1>3, KnownBlock
<1>5. /\ fo'.item = b /\ fo'.fat = fo.fat /\ fo'.slot = fo.slot /\ fo'.n = fo.n
      /\ fo'.path = fo.path
  BY <1>2, <1>3 DEF Locals
<1>6. {ld'.p, fo'.fat, fo'.item} = K \cup {b}
  BY <1>1, <1>5
<1>7. Left({ld.p, fo.fat, fo.item})' = Left(K \cup {b})'
  BY <1>6 DEF Left
<1>. QED
  BY <1>2, <1>3, <1>4, <1>5, <1>7 DEF OpeningCount, ParsingCount, MakingCount

(* A directory: what its loading leaves is not counted.                    *)
LEMMA DirectoryCounted ==
    ASSUME LInv, Count, pc = "opening", LoadDirectory \/ LoadItems \/ FreeDirectory,
           before' = before, ld' = ld
    PROVE  OpeningCount'
<1>1. step \in {"dir", "dir_items", "undo_dir"} /\ step' \in {"clone", "dir_items", "undo_dir"}
  BY DEF LoadDirectory, LoadItems, FreeDirectory, Goto
<1>2. fo \in Locals /\ fo.path = ld.path /\ Root[fo.slot].dir
  BY <1>1, Opening DEF OpeningCount, MakingCount
<1>3. fo'.slot = fo.slot /\ fo'.path = fo.path
  BY <1>2 DEF LoadDirectory, LoadItems, FreeDirectory, Goto, Locals
<1>. QED
  BY <1>1, <1>2, <1>3 DEF OpeningCount, ParsingCount, MakingCount

(* The copy of the directory item.                                         *)
LEMMA CloneItemCounted ==
    ASSUME LInv, Count, pc = "opening", CloneItem, before' = before, ld' = ld, step' # "idle"
    PROVE  OpeningCount'
<1>1. PICK b, K : b = ret' /\ K = {ld.p, fo.fat, fo.item}
  OBVIOUS
<1>2. /\ step = "clone" /\ KZalloc(StructSize) /\ fo' = fo /\ step' = "descriptor"
      /\ items' = [items EXCEPT ![fo.item] = b]
  BY <1>1 DEF CloneItem, Goto, Return
<1>3. /\ fo \in Locals /\ fo.path = ld.path /\ IInv
      /\ StructSize \in Requests /\ BlocksOf(StructSize) > 0
      /\ Root[fo.slot].dir \/ Left(K) = PathBlocks(fo.n)
  BY <1>1, <1>2, Opening DEF OpeningCount, MakingCount
<1>4. Left(K \cup {b})' = Left(K)
  BY <1>1, <1>2, <1>3, KnownBlock
<1>5. items'[fo.item] = b
  <2>1. fo.item \in DOMAIN items
    BY <1>2, Opening DEF FInv, FopenSoFar, ItemSoFar, HasItem
  <2>. QED
    BY <1>2, <2>1
<1>6. {ld'.p, fo'.fat, fo'.item, items'[fo'.item]} = K \cup {b}
  BY <1>1, <1>2, <1>5
<1>7. Left({ld.p, fo.fat, fo.item, items[fo.item]})' = Left(K \cup {b})'
  BY <1>6 DEF Left
<1>. QED
  BY <1>2, <1>3, <1>4, <1>7 DEF OpeningCount, ParsingCount, MakingCount

(* The descriptor: the file is open, and nothing else is left of fopen     *)
(* than the path.                                                          *)
LEMMA NewDescriptorCounted ==
    ASSUME LInv, Count, pc = "opening", NewDescriptor, before' = before, ld' = ld,
           Open' = {0}
    PROVE  FileCount({ld.p})'
<1>1. PICK b, p, f, a, c : /\ b = ret' /\ p = ld.p /\ f = fo.fat /\ a = fo.item
                           /\ c = items[fo.item]
  OBVIOUS
<1>2. /\ step = "descriptor" /\ fo.path = ld.path /\ Open = {} /\ FInv /\ IInv
      /\ StructSize \in Requests /\ BlocksOf(StructSize) > 0
      /\ Root[fo.slot].dir \/ Left({p, f, a, c}) = PathBlocks(fo.n)
  <2>1. step = "descriptor"
    BY DEF NewDescriptor
  <2>. QED
    BY <1>1, <2>1, Opening DEF OpeningCount, MakingCount
<1>3. /\ KZalloc(StructSize) /\ b # NULL /\ file_descriptors'[0] = b
      /\ descs' = Put(descs, b, [index |-> 1, private |-> f])
      /\ UNCHANGED <<fats, items, clones>>
  <2>1. 0 \in Indices /\ \A j \in Indices : file_descriptors[j] = NULL
    BY <1>2, FilesAssumption, SMT DEF Open, Indices
  <2>2. file_descriptors'[0] # NULL
    BY DEF Open
  <2>3. PICK i \in FreeIndex : /\ KZalloc(StructSize)
                               /\ file_descriptors' = [file_descriptors EXCEPT ![i] = b]
                               /\ descs' = Put(descs, b, [index |-> i + 1, private |-> f])
    BY <1>1, <2>1, <2>2 DEF NewDescriptor
  <2>4. i \in Indices /\ \A j \in 0 .. (i - 1) : file_descriptors[j] # NULL
    BY <2>3 DEF FreeIndex
  <2>5. i = 0
    BY <2>1, <2>4, FilesAssumption, SMT DEF Indices
  <2>6. file_descriptors'[0] = b
    BY <1>2, <2>1, <2>3, <2>5 DEF FInv, FilesTyped
  <2>. QED
    BY <2>2, <2>3, <2>5, <2>6 DEF NewDescriptor
<1>4. ~Full
  BY <1>1, <1>2, <1>3, OneMore
<1>5. /\ fats[f] = a /\ clones[c] = fo.slot /\ Root[fo.slot].name = fo.path.parts[1]
      /\ fo.n = Len(fo.path.parts)
  BY <1>1, <1>2, <1>4
  DEF FInv, FopenSoFar, CloneSoFar, ItemSoFar, PathSoFar, HasItem, HasFat
<1>6. descs'[b].private = f
  BY <1>3 DEF Put
<1>7. TheFile' = b /\ FileOf(TheFile)' = fo.slot /\ FileBlocks(TheFile)' = {b, f, a, c}
  BY <1>1, <1>3, <1>5, <1>6 DEF TheFile, FileOf, FileBlocks, Fat, Item, Clone
<1>8. PICK K : K = {p, f, a, c}
  OBVIOUS
<1>9. Left(K \cup {b})' = Left(K)
  BY <1>1, <1>2, <1>3, KnownBlock
<1>10. {ld'.p} \cup FileBlocks(TheFile)' = K \cup {b}
  BY <1>1, <1>7, <1>8
<1>11. Left({ld.p} \cup FileBlocks(TheFile))' = Left(K \cup {b})'
  BY <1>10 DEF Left
<1>. QED
  BY <1>2, <1>5, <1>7, <1>8, <1>9, <1>11 DEF FileCount


-----------------------------------------------------------------------------
(* The count under the steps of a load, up to its stack.                   *)

(* The heap is sound whenever a load takes a step.                         *)
LEMMA HeapIsSound ==
    ASSUME LInv
    PROVE  IInv
  BY DEF LInv, FileSoFar, FInv

(* What is counted of an open file, where its structures stay.             *)
LEMMA FileStillCounted ==
    ASSUME NEW K, NEW L, NEW F, F = FileBlocks(TheFile), FileCount(K),
           Left(L \cup F)' = Left(K \cup F), ld.path' = ld.path, UNCHANGED fileVars
    PROVE  FileCount(L)' /\ FileOf(TheFile)' = FileOf(TheFile)
<1>1. UNCHANGED <<file_descriptors, descs, fats, items, clones>>
  BY DEF fileVars, memoryVars
<1>2. F = FileBlocks(TheFile)' /\ FileOf(TheFile)' = FileOf(TheFile)
  BY <1>1 DEF TheFile, FileOf, FileBlocks, Fat, Item, Clone
<1>3. Left(L \cup FileBlocks(TheFile))' = Left(L \cup F)'
  BY <1>2 DEF Left
<1>. QED
  BY <1>2, <1>3 DEF FileCount

(* What is counted of a load, where its process keeps its size.            *)
LEMMA LoadStillCounted ==
    ASSUME NEW K, NEW L, LoadCount(K), Left(L)' = Left(K), ld.path' = ld.path,
           (procs[ld.p].size)' = procs[ld.p].size
    PROVE  LoadCount(L)'
<1>1. PICK i \in Used :
        /\ Root[i].name = ld.path.parts[1] /\ Root[i].size = procs[ld.p].size
        /\ Root[i].dir \/ Left(K) = PathBlocks(Len(ld.path.parts))
  BY DEF LoadCount
<1>2. Used' = Used
  BY DEF Used
<1>. QED
  BY <1>1, <1>2 DEF LoadCount

(* The load begins: there is nothing that was not there before.            *)
LEMMA BeginLoadCounted ==
    ASSUME LInv, NEW path, BeginLoad(path)
    PROVE  Count'
<1>1. pc = "idle" /\ pc' \in {"idle", "process"} /\ live' = live /\ before' = LiveStarts
  BY DEF BeginLoad, vars
<1>2. LiveStarts' \ (before' \cup {}) = {}
  BY <1>1 DEF LiveStarts, Blocks
<1>3. Left({})' = 0
  BY <1>2, FS_EmptySet DEF Left
<1>. QED
  BY <1>1, <1>3 DEF Count, OpenCount, BuildCount, Mapping

(* The process structure is the first thing added.                         *)
LEMMA AllocProcessCounted ==
    ASSUME LInv, Count, AllocProcess
    PROVE  Count'
<1>1. /\ pc = "process" /\ KZalloc(ProcessSize) /\ before' = before
      /\ ProcessSize \in Requests /\ BlocksOf(ProcessSize) > 0
  BY KernelSizes DEF AllocProcess, countVars
<1>2. CASE pc' = "idle"
  BY <1>2 DEF Count, OpenCount, BuildCount, Mapping
<1>3. CASE pc' = "open"
  <2>1. PICK b : b = ret'
    OBVIOUS
  <2>2. ld.p' = b
    BY <1>3, <2>1 DEF AllocProcess, Fail, LInv, LoadTyped, LoadLocals
  <2>3. Left({} \cup {b})' = Left({})
    BY <1>1, <2>1, HeapIsSound, KnownBlock
  <2>4. Left({ld.p})' = Left({} \cup {b})'
    BY <2>2 DEF Left
  <2>. QED
    BY <1>1, <1>3, <2>3, <2>4 DEF Count, OpenCount, BuildCount, Mapping
<1>. QED
  BY <1>2, <1>3 DEF AllocProcess, Fail

(* fopen is called with the path of the load.                              *)
LEMMA OpenFileCounted ==
    ASSUME LInv, Count, OpenFile
    PROVE  Count'
<1>1. /\ pc = "open" /\ pc' = "opening" /\ step' = "root" /\ ld' = ld
      /\ fo' = [NoOpen EXCEPT !.path = ld.path] /\ live' = live /\ before' = before
  BY DEF OpenFile, BeginOpen, Goto, vars, countVars
<1>2. fo'.path = ld.path /\ fo'.n = 0
  BY <1>1 DEF NoOpen
<1>3. PICK p : p = ld.p /\ p = ld.p'
  BY <1>1
<1>4. Left({p})' = 0
  BY <1>1, <1>3, SameLeft DEF Count, OpenCount
<1>5. Left({ld.p})' = Left({p})'
  BY <1>3 DEF Left
<1>6. OpeningCount'
  BY <1>1, <1>2, <1>4, <1>5 DEF OpeningCount, ParsingCount, MakingCount
<1>. QED
  BY <1>1, <1>6 DEF Count, OpenCount, BuildCount, Mapping

(* fopen runs.                                                             *)
LEMMA FopenRunsCounted ==
    ASSUME LInv, Count, FopenRuns
    PROVE  Count'
<1>1. pc = "opening" /\ pc' = "opening" /\ FopenStep /\ before' = before /\ ld' = ld
  BY DEF FopenRuns, loadVars, countVars
<1>2. step # "idle"
  BY <1>1
  DEF FopenStep, PathRoot, PartString, PathEnded, PartStruct, CheckPath, FatDescriptor, Find,
      FatItem, LoadDirectory, LoadItems, FreeDirectory, CloneItem, NewDescriptor
<1>3. ASSUME step' # "idle" PROVE OpeningCount'
  <2>1. ~NewDescriptor
    BY <1>3 DEF NewDescriptor, Return
  <2>. QED
    BY <1>1, <1>3, <2>1, ParsingCounted, PathEndedCounted, CheckPathCounted,
       FatDescriptorCounted, FindCounted, FatItemCounted, DirectoryCounted, CloneItemCounted
    DEF FopenStep
<1>4. ASSUME Open' = {0} PROVE FileCount({ld.p})'
  <2>1. Open = {}
    BY <1>1, <1>2, Opening
  <2>2. ~UNCHANGED file_descriptors
    BY <1>4, <2>1 DEF Open, Indices
  <2>3. NewDescriptor
    BY <1>1, <2>2
    DEF FopenStep, PathRoot, PartString, PathEnded, PartStruct, CheckPath, FatDescriptor, Find,
        FatItem, LoadDirectory, LoadItems, FreeDirectory, CloneItem
  <2>. QED
    BY <1>1, <1>4, <2>3, NewDescriptorCounted
<1>. QED
  BY <1>1, <1>3, <1>4 DEF Count, OpenCount, BuildCount, Mapping

(* fstat: the size is that of the file.                                    *)
LEMMA StatFileCounted ==
    ASSUME LInv, Count, StatFile
    PROVE  Count'
<1>1. /\ pc = "opening" /\ step = "idle" /\ before' = before /\ live' = live
      /\ UNCHANGED fileVars
  BY DEF StatFile, countVars, vars
<1>2. CASE Get(res) = NULL
  BY <1>2 DEF StatFile, Fail, Count, OpenCount, BuildCount, Mapping
<1>3. CASE Get(res) # NULL
  <2>1. Open = {} \/ (Open = {0} /\ res = 1)
    BY <1>1 DEF LInv, FileSoFar
  <2>2. res - 1 \in Open
    BY <1>3, FilesAssumption, SMT DEF Get, Open, Indices, LInv, FileSoFar, FInv, FilesTyped
  <2>3. Open = {0} /\ res = 1
    BY <2>1, <2>2
  <2>4. Get(res) = TheFile
    BY <2>3, ProcessAssumption, FilesAssumption, SMT DEF Get, TheFile
  <2>5. PICK p, F, size : /\ p = ld.p /\ F = FileBlocks(TheFile)
                          /\ size = Root[FileOf(TheFile)].size
    OBVIOUS
  <2>6. pc' = "data" /\ ld' = [ld EXCEPT !.fd = res, !.size = size]
    BY <1>3, <2>4, <2>5 DEF StatFile
  <2>7. ld.p' = p /\ ld.size' = size /\ ld.path' = ld.path
    <3>1. ld \in LoadLocals
      BY DEF LInv, LoadTyped
    <3>2. PICK l : l = [ld EXCEPT !.fd = res]
      OBVIOUS
    <3>3. l \in [slot : Slots, path : Calls \cup {NoOpen.path}, p : Pointers, fd : {res},
                 size : Sizes, data : Pointers, task : Pointers, dir : Pointers,
                 i : 0 .. Tables] /\ l.p = ld.p /\ l.path = ld.path
      BY <3>1, <3>2 DEF LoadLocals
    <3>4. ld' = [l EXCEPT !.size = size]
      BY <2>6, <3>2
    <3>. QED
      BY <2>5, <3>3, <3>4
  <2>8. FileCount({p})
    BY <1>1, <2>3, <2>5 DEF Count, OpenCount
  <2>9. Left({p} \cup F)' = Left({p} \cup F)
    BY <1>1, SameLeft
  <2>10. FileCount({p})' /\ FileOf(TheFile)' = FileOf(TheFile)
    BY <1>1, <2>5, <2>7, <2>8, <2>9, FileStillCounted
  <2>11. FileCount({ld.p})' /\ ld.size' = Root[FileOf(TheFile)'].size
    BY <2>5, <2>7, <2>10 DEF FileCount, Left
  <2>. QED
    BY <2>6, <2>11 DEF Count, OpenCount, BuildCount, Mapping
<1>. QED
  BY <1>2, <1>3

(* The data is the load's own.                                             *)
LEMMA AllocDataCounted ==
    ASSUME LInv, Count, AllocData
    PROVE  Count'
<1>1. PICK b, p, F, size : /\ b = ret' /\ p = ld.p /\ F = FileBlocks(TheFile)
                           /\ size = ld.size
  OBVIOUS
<1>2. /\ pc = "data" /\ KZalloc(size) /\ before' = before /\ ld' = [ld EXCEPT !.data = b]
      /\ pc' = IF b = NULL THEN "close" ELSE "read"
      /\ UNCHANGED fileVars /\ procs' = procs
  BY <1>1 DEF AllocData, countVars, procVars
<1>3. ld.p' = p /\ ld.data' = b /\ ld.path' = ld.path /\ ld.size' = size /\ size \in Sizes
  BY <1>1, <1>2 DEF LInv, LoadTyped, LoadLocals
<1>4. CASE b = NULL
  <2>1. procs'[ld'.p].ptr = NULL
    BY <1>1, <1>2, <1>3 DEF LInv, LoadSoFar
  <2>. QED
    BY <1>2, <1>4, <2>1 DEF Count, OpenCount, BuildCount, Mapping
<1>5. CASE b # NULL /\ ~(size > 0)
  BY <1>2, <1>3, <1>5 DEF Count, OpenCount, BuildCount, Mapping
<1>6. CASE b # NULL /\ size > 0
  <2>1. size \in Requests /\ BlocksOf(size) > 0
    BY <1>3, <1>6, FileSizes
  <2>2. PICK K : K = {p} \cup F
    OBVIOUS
  <2>3. Left(K \cup {b})' = Left(K)
    BY <1>1, <1>2, <2>1, HeapIsSound, KnownBlock
  <2>4. K \cup {b} = {p, b} \cup F
    BY <2>2
  <2>5. FileCount({p}) /\ size = Root[FileOf(TheFile)].size
    BY <1>1, <1>2 DEF Count, OpenCount
  <2>6. FileCount({p, b})' /\ FileOf(TheFile)' = FileOf(TheFile)
    BY <1>1, <1>2, <1>3, <2>2, <2>3, <2>4, <2>5, FileStillCounted
  <2>7. FileCount({ld.p, ld.data})' /\ ld.size' = Root[FileOf(TheFile)'].size
    BY <1>3, <2>5, <2>6 DEF FileCount, Left
  <2>. QED
    BY <1>2, <1>6, <2>7 DEF Count, OpenCount, BuildCount, Mapping
<1>. QED
  BY <1>4, <1>5, <1>6

(* It becomes the process's.                                               *)
LEMMA ReadFileCounted ==
    ASSUME LInv, Count, ReadFile
    PROVE  Count'
<1>1. PICK p, data, F, size : /\ p = ld.p /\ data = ld.data /\ F = FileBlocks(TheFile)
                              /\ size = ld.size
  OBVIOUS
<1>2. /\ pc = "read" /\ pc' = "close" /\ before' = before /\ ld' = ld /\ live' = live
      /\ UNCHANGED fileVars
      /\ \/ size > 0 /\ procs' = [procs EXCEPT ![p].ptr = data, ![p].size = size]
         \/ procs' = procs
  BY <1>1 DEF ReadFile, countVars, vars
<1>3. procs[p].ptr = NULL /\ p \in DOMAIN procs /\ procs[p] \in Record
  BY <1>1, <1>2, OwnProcess DEF LInv, LoadSoFar, Building, LoadTyped, MemoryTyped
<1>4. CASE procs' = procs
  BY <1>1, <1>2, <1>3, <1>4 DEF Count, OpenCount, BuildCount, Mapping
<1>5. CASE size > 0 /\ procs' = [procs EXCEPT ![p].ptr = data, ![p].size = size]
  <2>1. procs'[p].ptr = data /\ procs'[p].size = size
    <3>1. PICK rec : rec = [procs[p] EXCEPT !.ptr = data, !.size = size]
      OBVIOUS
    <3>2. rec.ptr = data /\ rec.size = size
      BY <1>3, <3>1 DEF Record
    <3>. QED
      BY <1>3, <1>5, <3>1, <3>2
  <2>2. FileCount({p, data}) /\ size = Root[FileOf(TheFile)].size
    BY <1>1, <1>2, <1>5 DEF Count, OpenCount
  <2>3. Left({p, data} \cup F)' = Left({p, data} \cup F)
    BY <1>2, SameLeft
  <2>4. FileCount({p, data})' /\ FileOf(TheFile)' = FileOf(TheFile)
    BY <1>1, <1>2, <2>2, <2>3, FileStillCounted
  <2>5. FileCount({ld.p, procs[ld.p].ptr})' /\ procs'[ld'.p].size = Root[FileOf(TheFile)'].size
    BY <1>1, <1>2, <2>1, <2>2, <2>4 DEF FileCount, Left
  <2>. QED
    BY <1>2, <2>5 DEF Count, OpenCount, BuildCount, Mapping
<1>. QED
  BY <1>2, <1>4, <1>5


(* fclose gives back the four blocks of the file, and those of the path    *)
(* are left.                                                               *)
LEMMA CloseFileCounted ==
    ASSUME LInv, Count, CloseFile
    PROVE  Count'
<1>1. /\ pc = "close" /\ Close(1) /\ Open = {0} /\ FInv /\ before' = before /\ procs' = procs
  BY DEF CloseFile, LInv, FileSoFar, countVars, procVars
<1>2. CASE pc' = "idle"
  BY <1>2 DEF Count, OpenCount, BuildCount, Mapping
<1>3. CASE pc' = "stack"
  <2>1. ld' = ld /\ procs[ld.p].ptr # NULL
    BY <1>3 DEF CloseFile, Fail
  <2>2. PICK p, data, d, F, K, i : /\ p = ld.p /\ data = procs[p].ptr /\ d = TheFile
                                   /\ F = FileBlocks(d) /\ K = {p, data} /\ i = FileOf(d)
    OBVIOUS
  <2>3. Whole(d) /\ d # NULL
    BY <1>1, <2>2 DEF FInv, OpenWhole, TheFile, Open
  <2>4. Get(1) = d /\ F = PartsOf(d)
    BY <2>2, <2>3, ProcessAssumption, FilesAssumption, PartsAreStructures, SMT DEF Get, TheFile
  <2>5. FreeAll(F)
    BY <1>1, <2>3, <2>4 DEF Close
  <2>6. LiveStarts' = LiveStarts \ F
    BY <2>5, SMT DEF FreeAll, LiveStarts, Blocks
  <2>7. Left(K)' = Left(K \cup F)
    <3>1. LiveStarts' \ (before' \cup K) = LiveStarts \ (before \cup (K \cup F))
      BY <1>1, <2>6
    <3>. QED
      BY <3>1 DEF Left
  <2>8. FileCount(K) /\ procs[p].size = Root[i].size
    BY <1>1, <2>1, <2>2 DEF Count, OpenCount
  <2>9. i \in Used
    BY <2>2, <2>3 DEF Whole, FileOf, Clone, Item, Fat
  <2>10. ld.p' = p /\ procs'[ld'.p] = procs[p] /\ ld.path' = ld.path
    BY <1>1, <2>1, <2>2
  <2>11. LoadCount(K)'
    <3>1. Root[i].name = ld.path.parts[1] /\ Root[i].size = (procs[ld.p].size)'
      BY <2>2, <2>8, <2>10 DEF FileCount
    <3>2. Root[i].dir \/ Left(K)' = PathBlocks(Len(ld.path.parts))
      BY <2>2, <2>7, <2>8 DEF FileCount
    <3>3. i \in Used'
      BY <2>9 DEF Used
    <3>. QED
      BY <2>10, <3>1, <3>2, <3>3 DEF LoadCount
  <2>12. K = {ld'.p, procs'[ld'.p].ptr}
    BY <2>2, <2>10
  <2>13. LoadCount({ld.p, procs[ld.p].ptr})'
    BY <2>11, <2>12 DEF LoadCount, Left
  <2>. QED
    BY <1>3, <2>13 DEF Count, OpenCount, BuildCount, Mapping
<1>. QED
  BY <1>2, <1>3 DEF CloseFile, Fail

-----------------------------------------------------------------------------
(* The count under the other steps of a load.                              *)

(* The stack.                                                              *)
LEMMA AllocStackCounted ==
    ASSUME LInv, Count, AllocStack
    PROVE  Count'
<1>1. PICK b, p, data, K : b = ret' /\ p = ld.p /\ data = procs[p].ptr /\ K = {p, data}
  OBVIOUS
<1>2. /\ pc = "stack" /\ KZalloc(StackSize) /\ before' = before
      /\ StackSize \in Requests /\ BlocksOf(StackSize) > 0
  BY KernelSizes DEF AllocStack, countVars
<1>3. CASE pc' = "idle"
  BY <1>3 DEF Count, OpenCount, BuildCount, Mapping
<1>4. CASE pc' = "task"
  <2>1. ld' = ld /\ procs' = [procs EXCEPT ![p].stack = b]
    BY <1>1, <1>4 DEF AllocStack, Fail
  <2>2. p \in DOMAIN procs /\ procs[p] \in Record
    BY <1>1, <1>2, OwnProcess DEF Building, LInv, LoadTyped, MemoryTyped
  <2>3. procs'[p].ptr = data /\ procs'[p].size = procs[p].size /\ procs'[p].stack = b
    BY <1>1, <2>1, <2>2 DEF Record
  <2>4. LoadCount(K)
    BY <1>1, <1>2 DEF Count, BuildCount
  <2>5. Left(K \cup {b})' = Left(K)
    BY <1>1, <1>2, HeapIsSound, KnownBlock
  <2>6. LoadCount(K \cup {b})'
    BY <1>1, <2>1, <2>3, <2>4, <2>5, LoadStillCounted
  <2>7. K \cup {b} = WithStack'
    BY <1>1, <2>1, <2>3 DEF WithStack
  <2>8. LoadCount(WithStack)'
    BY <2>6, <2>7 DEF LoadCount, Left
  <2>. QED
    BY <1>4, <2>8 DEF Count, OpenCount, BuildCount, Mapping
<1>. QED
  BY <1>3, <1>4 DEF AllocStack, Fail

(* The task.                                                               *)
LEMMA AllocTaskCounted ==
    ASSUME LInv, Count, AllocTask
    PROVE  Count'
<1>1. PICK b, K : b = ret' /\ K = WithStack
  OBVIOUS
<1>2. /\ pc = "task" /\ KZalloc(BlockSize) /\ before' = before /\ procs' = procs
      /\ BlockSize \in Requests /\ BlocksOf(BlockSize) > 0
  BY KernelSizes DEF AllocTask, countVars, procVars
<1>3. CASE pc' = "lost"
  BY <1>3 DEF Count, OpenCount, BuildCount, Mapping
<1>4. CASE pc' = "directory"
  <2>1. ld' = [ld EXCEPT !.task = b] /\ ld \in LoadLocals
    BY <1>1, <1>4 DEF AllocTask, LInv, LoadTyped
  <2>2. ld.p' = ld.p /\ ld.path' = ld.path /\ ld.task' = b
    BY <2>1 DEF LoadLocals
  <2>3. LoadCount(K)
    BY <1>1, <1>2 DEF Count, BuildCount
  <2>4. Left(K \cup {b})' = Left(K)
    BY <1>1, <1>2, HeapIsSound, KnownBlock
  <2>5. LoadCount(K \cup {b})'
    BY <1>2, <2>2, <2>3, <2>4, LoadStillCounted
  <2>6. K \cup {b} = WithStack' \cup {ld.task'}
    BY <1>1, <1>2, <2>2 DEF WithStack
  <2>7. LoadCount(WithStack \cup {ld.task})'
    BY <2>5, <2>6 DEF LoadCount, Left
  <2>. QED
    BY <1>4, <2>7 DEF Count, OpenCount, BuildCount, Mapping
<1>. QED
  BY <1>3, <1>4 DEF AllocTask

(* The directory, with no table yet.                                       *)
LEMMA AllocDirectoryCounted ==
    ASSUME LInv, Count, AllocDirectory
    PROVE  Count'
<1>1. PICK b, K : b = ret' /\ K = WithStack \cup {ld.task}
  OBVIOUS
<1>2. /\ pc = "directory" /\ pc' = "table" /\ KZalloc(BlockSize) /\ before' = before
      /\ procs' = procs /\ ld' = [ld EXCEPT !.dir = b] /\ ld \in LoadLocals /\ ld.i = 0
      /\ BlockSize \in Requests /\ BlocksOf(BlockSize) > 0
  BY <1>1, KernelSizes
  DEF AllocDirectory, NewDirectory, countVars, procVars, LInv, LoadTyped, LoadSoFar
<1>3. /\ ld.p' = ld.p /\ ld.path' = ld.path /\ ld.task' = ld.task /\ ld.dir' = b
      /\ ld.i' = 0
  BY <1>2 DEF LoadLocals
<1>4. LoadCount(K)
  BY <1>1, <1>2 DEF Count, BuildCount
<1>5. Left(K \cup {b})' = Left(K)
  BY <1>1, <1>2, HeapIsSound, KnownBlock
<1>6. LoadCount(K \cup {b})'
  BY <1>2, <1>3, <1>4, <1>5, LoadStillCounted
<1>7. WithTables' = {ld.task, b}
  <2>1. 0 .. (0 - 1) = {}
    BY SMT
  <2>2. {dirs'[ld'.dir][r] : r \in 0 .. (ld'.i - 1)} = {}
    BY <1>3, <2>1
  <2>. QED
    BY <1>3, <2>2 DEF WithTables
<1>8. K \cup {b} = WithStack' \cup WithTables'
  BY <1>1, <1>2, <1>3, <1>7 DEF WithStack
<1>9. LoadCount(WithStack \cup WithTables)'
  BY <1>6, <1>8 DEF LoadCount, Left
<1>. QED
  BY <1>2, <1>9 DEF Count, OpenCount, BuildCount, Mapping

(* A table.                                                                *)
LEMMA AllocTableCounted ==
    ASSUME LInv, Count, AllocTable
    PROVE  Count'
<1>1. PICK b, d, i, n, map, K : /\ b = ret' /\ d = ld.dir /\ i = ld.i /\ n = i + 1
                                /\ map = [dirs[d] EXCEPT ![i] = b]
                                /\ K = WithStack \cup WithTables
  OBVIOUS
<1>2. /\ pc = "table" /\ pc' \in {"table", "chunk"} /\ KZalloc(BlockSize) /\ before' = before
      /\ procs' = procs /\ dirs' = [dirs EXCEPT ![d] = map] /\ ld' = [ld EXCEPT !.i = n]
      /\ BlockSize \in Requests /\ BlocksOf(BlockSize) > 0
  BY <1>1, KernelSizes DEF AllocTable, NewTable, countVars, procVars
<1>3. ld \in LoadLocals /\ i \in 0 .. (Tables - 1) /\ Tables \in Nat
  BY <1>1, <1>2, PagingAssumption, SMT DEF LInv, LoadTyped, LoadLocals, LoadSoFar
<1>4. /\ ld.p' = ld.p /\ ld.path' = ld.path /\ ld.task' = ld.task /\ ld.dir' = d
      /\ ld.i' = n
  BY <1>1, <1>2, <1>3 DEF LoadLocals
<1>5. d \in DOMAIN dirs /\ dirs[d] \in Maps
  BY <1>1, <1>2 DEF LInv, LoadTyped, MemoryTyped, TablesSoFar, HasDirectory
<1>6. /\ dirs'[d] = map /\ map[i] = b
      /\ \A j \in 0 .. (Tables - 1) : j # i => map[j] = dirs[d][j]
  BY <1>1, <1>2, <1>3, <1>5 DEF Maps
<1>7. PICK T : T = {dirs[d][r] : r \in 0 .. (i - 1)}
  OBVIOUS
<1>8. {map[r] : r \in 0 .. (n - 1)} = T \cup {b}
  <2>1. \A r \in 0 .. (n - 1) : r = i \/ r \in 0 .. (i - 1)
    BY <1>1, <1>3, SMT
  <2>2. \A r \in 0 .. (i - 1) : /\ r \in 0 .. (Tables - 1) /\ r # i /\ r \in 0 .. (n - 1)
                                /\ map[r] = dirs[d][r]
    <3>1. \A r \in 0 .. (i - 1) : r \in 0 .. (Tables - 1) /\ r # i /\ r \in 0 .. (n - 1)
      BY <1>1, <1>3, SMT
    <3>. QED
      BY <1>6, <3>1
  <2>3. i \in 0 .. (n - 1)
    BY <1>1, <1>3, SMT
  <2>. QED
    BY <1>6, <1>7, <2>1, <2>2, <2>3
<1>9. WithTables = {ld.task, d} \cup T /\ WithTables' = {ld.task, d} \cup (T \cup {b})
  <2>1. {dirs[ld.dir][r] : r \in 0 .. (ld.i - 1)} = T
    BY <1>1, <1>7
  <2>2. {dirs'[ld'.dir][r] : r \in 0 .. (ld'.i - 1)} = {map[r] : r \in 0 .. (n - 1)}
    BY <1>4, <1>6
  <2>. QED
    BY <1>1, <1>4, <1>8, <2>1, <2>2 DEF WithTables
<1>10. LoadCount(K)
  BY <1>1, <1>2 DEF Count, BuildCount
<1>11. Left(K \cup {b})' = Left(K)
  BY <1>1, <1>2, HeapIsSound, KnownBlock
<1>12. LoadCount(K \cup {b})'
  BY <1>2, <1>4, <1>10, <1>11, LoadStillCounted
<1>13. WithStack' = WithStack
  BY <1>2, <1>4 DEF WithStack
<1>14. K \cup {b} = WithStack' \cup WithTables'
  BY <1>1, <1>9, <1>13
<1>15. LoadCount(WithStack \cup WithTables)'
  BY <1>12, <1>14 DEF LoadCount, Left
<1>. QED
  BY <1>2, <1>15 DEF Count, OpenCount, BuildCount, Mapping

(* The chunk.                                                              *)
LEMMA AllocChunkCounted ==
    ASSUME LInv, Count, AllocChunk
    PROVE  Count'
<1>1. PICK b, p, t, K : b = ret' /\ p = ld.p /\ t = ld.task /\ K = WithStack \cup WithTables
  OBVIOUS
<1>2. /\ pc = "chunk" /\ KZalloc(BlockSize) /\ before' = before /\ procs' = procs
      /\ dirs' = dirs /\ ld' = ld /\ BlockSize \in Requests /\ BlocksOf(BlockSize) > 0
  BY KernelSizes DEF AllocChunk, NewChunk, countVars, procVars
<1>3. CASE pc' = "unwind"
  BY <1>3 DEF Count, OpenCount, BuildCount, Mapping
<1>4. CASE pc' = "link"
  <2>1. tasks' = [tasks EXCEPT ![t].dir = b]
    BY <1>1, <1>4 DEF AllocChunk
  <2>2. t \in DOMAIN tasks /\ tasks[t] \in TaskRecord
    <3>1. TASK \in Has(p) /\ Part(p, TASK) = t /\ p \in Owners
      BY <1>1, <1>2, PagingAssumption, SMT
      DEF Has, Part, TaskOf, Own, Built, Parts, STRUCT, DATA, STACK, TASK, Building, HasTask,
          Owners
    <3>. QED
      BY <3>1 DEF LInv, PartsExist, InMemory, LoadTyped, MemoryTyped
  <2>3. tasks'[t].dir = b
    BY <2>1, <2>2 DEF TaskRecord
  <2>4. LoadCount(K)
    BY <1>1, <1>2 DEF Count, BuildCount
  <2>5. Left(K \cup {b})' = Left(K)
    BY <1>1, <1>2, HeapIsSound, KnownBlock
  <2>6. LoadCount(K \cup {b})'
    BY <1>2, <2>4, <2>5, LoadStillCounted
  <2>7. K \cup {b} = WithStack' \cup WithTables' \cup {tasks'[ld'.task].dir}
    BY <1>1, <1>2, <2>3 DEF WithStack, WithTables
  <2>8. LoadCount(WithStack \cup WithTables \cup {tasks[ld.task].dir})'
    BY <2>6, <2>7 DEF LoadCount, Left
  <2>. QED
    BY <1>4, <2>8 DEF Count, OpenCount, BuildCount, Mapping
<1>. QED
  BY <1>3, <1>4 DEF AllocChunk

(* What the locals named is now what the process is made of.               *)
LEMMA LinkTaskCounted ==
    ASSUME LInv, Count, LinkTask
    PROVE  Count'
<1>1. PICK p, d, t, c, K : /\ p = ld.p /\ d = ld.dir /\ t = ld.task /\ c = tasks[t].dir
                           /\ K = WithStack \cup WithTables \cup {c}
  OBVIOUS
<1>2. /\ pc = "link" /\ pc' = "map_program" /\ before' = before /\ ld' = ld /\ live' = live
      /\ dirs' = dirs /\ chunks' = chunks /\ procs' = [procs EXCEPT ![p].task = t]
      /\ \/ tasks' = tasks
         \/ tasks' = [tasks EXCEPT ![tail].next = t, ![t].prev = tail]
  BY <1>1 DEF LinkTask, countVars, pagingVars, vars
<1>3. p \in DOMAIN procs /\ procs[p] \in Record
  BY <1>1, <1>2, OwnProcess DEF Building, LInv, LoadTyped, MemoryTyped
<1>4. /\ procs'[p].ptr = procs[p].ptr /\ procs'[p].size = procs[p].size
      /\ procs'[p].stack = procs[p].stack /\ procs'[p].task = t
  BY <1>2, <1>3 DEF Record
<1>5. chunks[c] = d /\ ld.i = Tables /\ dirs[d] \in Maps /\ Tables \in Nat
  <2>1. d \in DOMAIN dirs
    BY <1>1, <1>2 DEF LInv, TablesSoFar, HasDirectory
  <2>. QED
    BY <1>1, <1>2, <2>1, PagingAssumption
    DEF LInv, LoadSoFar, LoadTyped, MemoryTyped, TablesSoFar
<1>6. tasks'[t].dir = c
  <2>1. t \in DOMAIN tasks /\ \A u \in DOMAIN tasks : tasks[u] \in TaskRecord
    <3>1. TASK \in Has(p) /\ Part(p, TASK) = t /\ p \in Owners
      BY <1>1, <1>2, PagingAssumption, SMT
      DEF Has, Part, TaskOf, Own, Built, Parts, STRUCT, DATA, STACK, TASK, Building, HasTask,
          Owners
    <3>. QED
      BY <3>1 DEF LInv, PartsExist, InMemory, LoadTyped, MemoryTyped
  <2>2. CASE tasks' = tasks
    BY <1>1, <2>2
  <2>3. CASE tasks' = [tasks EXCEPT ![tail].next = t, ![t].prev = tail]
    <3>1. PICK mid : mid = [tasks EXCEPT ![tail].next = t]
      OBVIOUS
    <3>2. DOMAIN mid = DOMAIN tasks /\ tasks' = [mid EXCEPT ![t].prev = tail]
      BY <2>3, <3>1
    <3>3. mid[t].dir = c /\ DOMAIN mid[t] = DOMAIN tasks[t]
      BY <1>1, <2>1, <3>1 DEF TaskRecord
    <3>. QED
      BY <2>1, <3>2, <3>3 DEF TaskRecord
  <2>. QED
    BY <1>2, <2>2, <2>3
<1>7. ChunkOf(p)' = c /\ ChunkBlocks(c)' = {c, d} \cup {dirs[d][r] : r \in 0 .. (Tables - 1)}
  <2>1. ChunkOf(p)' = c
    BY <1>4, <1>6 DEF ChunkOf
  <2>2. DOMAIN dirs[d] = 0 .. (Tables - 1)
    BY <1>5 DEF Maps
  <2>. QED
    BY <1>2, <1>5, <2>1, <2>2 DEF ChunkBlocks
<1>8. Structures(p)' = {p, t} \cup {c, d} \cup {dirs[d][r] : r \in 0 .. (Tables - 1)}
  <2>1. ChunkBlocks(ChunkOf(p))' = ChunkBlocks(c)'
    BY <1>7 DEF ChunkBlocks
  <2>. QED
    BY <1>4, <1>7, <2>1 DEF Structures
<1>9. K = Structures(p)' \cup {procs'[p].ptr, procs'[p].stack}
  BY <1>1, <1>4, <1>5, <1>8 DEF WithStack, WithTables
<1>10. LoadCount(K)
  BY <1>1, <1>2 DEF Count, BuildCount
<1>11. Left(K)' = Left(K)
  BY <1>2, SameLeft
<1>12. LoadCount(K)'
  BY <1>1, <1>2, <1>4, <1>10, <1>11, LoadStillCounted
<1>13. LoadCount(Structures(ld.p) \cup {procs[ld.p].ptr, procs[ld.p].stack})'
  <2>1. Structures(ld.p)' = Structures(p)'
    BY <1>1, <1>2 DEF Structures, ChunkOf, ChunkBlocks
  <2>2. K = Structures(ld.p)' \cup {procs'[ld'.p].ptr, procs'[ld'.p].stack}
    BY <1>1, <1>2, <1>9, <2>1
  <2>. QED
    BY <1>12, <2>2 DEF LoadCount, Left
<1>. QED
  BY <1>2, <1>13 DEF Count, OpenCount, BuildCount, Mapping

(* A task that is undone leaves an error pointer: no claim is made.        *)
LEMMA UnwindTaskCounted ==
    ASSUME LInv, Count, UnwindTask
    PROVE  Count'
<1>1. pc = "unwind" /\ ld' = ld /\ pc' \in {"lost", "map_program"}
  BY DEF UnwindTask
<1>2. ASSUME pc' = "map_program" PROVE procs'[ld'.p].task = ERR
  <2>1. procs' = [procs EXCEPT ![ld.p].task = ERR]
    BY <1>2 DEF UnwindTask
  <2>2. ld.p \in DOMAIN procs /\ procs[ld.p] \in Record
    BY <1>1, OwnProcess DEF Building, LInv, LoadTyped, MemoryTyped
  <2>. QED
    BY <1>1, <2>1, <2>2 DEF Record
<1>. QED
  BY <1>1, <1>2 DEF Count, OpenCount, BuildCount, Mapping

(* The mapping writes tables only.                                         *)
LEMMA MappingCounted ==
    ASSUME LInv, Count, MapProgram \/ MapStack
    PROVE  Count'
<1>1. /\ pc \in {"map_program", "map_stack"} /\ pc' \in {"map_stack", "publish", "lost"}
      /\ UNCHANGED <<live, before, ld, procs, tasks, dirs, chunks>>
  BY DEF MapProgram, MapStack, vars, listVars, procVars, countVars
<1>2. PICK K : K = Structures(ld.p) \cup {procs[ld.p].ptr, procs[ld.p].stack}
  OBVIOUS
<1>3. K = Structures(ld.p)' \cup {procs'[ld'.p].ptr, procs'[ld'.p].stack}
  <2>1. ChunkOf(ld.p)' = ChunkOf(ld.p)
    BY <1>1 DEF ChunkOf
  <2>2. Structures(ld.p)' = Structures(ld.p)
    BY <1>1, <2>1 DEF Structures, ChunkBlocks
  <2>. QED
    BY <1>1, <1>2, <2>2
<1>4. ASSUME procs[ld.p].task # ERR
      PROVE  LoadCount(Structures(ld.p) \cup {procs[ld.p].ptr, procs[ld.p].stack})'
  <2>1. LoadCount(K)
    BY <1>1, <1>2, <1>4 DEF Count, BuildCount, Mapping
  <2>2. Left(K)' = Left(K)
    BY <1>1, SameLeft
  <2>3. LoadCount(K)'
    BY <1>1, <2>1, <2>2, LoadStillCounted
  <2>. QED
    BY <1>3, <2>3 DEF LoadCount, Left
<1>. QED
  BY <1>1, <1>4 DEF Count, OpenCount, BuildCount, Mapping

(* Between the steps nothing changes.                                      *)
LEMMA StutterCounted ==
    ASSUME LInv, Count, UNCHANGED allVars
    PROVE  Count'
<1>1. /\ UNCHANGED <<live, entries, before, pc, ld, procs, tasks, dirs, chunks, step, fo>>
      /\ UNCHANGED <<file_descriptors, descs, fats, items, clones>>
  BY DEF allVars, vars, fileVars, memoryVars, pagingVars, listVars, loadVars, countVars, procVars
<1>2. LiveStarts' = LiveStarts /\ Full' = Full /\ Open' = Open
  BY <1>1 DEF LiveStarts, Full, Free, Blocks, Open, Indices
<1>3. OpeningCount' = OpeningCount
  BY <1>1, <1>2 DEF OpeningCount, ParsingCount, MakingCount, Left
<1>4. FileOf(TheFile)' = FileOf(TheFile) /\ FileBlocks(TheFile)' = FileBlocks(TheFile)
  BY <1>1 DEF TheFile, FileOf, FileBlocks, Fat, Item, Clone
<1>5. OpenCount'
  BY <1>1, <1>2, <1>3, <1>4 DEF Count, OpenCount, FileCount, Left
<1>6. WithStack' = WithStack /\ WithTables' = WithTables
  BY <1>1 DEF WithStack, WithTables
<1>7. Structures(ld.p)' = Structures(ld.p)
  BY <1>1 DEF Structures, ChunkOf, ChunkBlocks
<1>8. BuildCount'
  <2>1. BuildCount
    BY DEF Count
  <2>2. procs' = procs /\ ld' = ld /\ tasks' = tasks /\ pc' = pc /\ before' = before
    BY <1>1
  <2>3. pc = "stack" => LoadCount({ld.p, procs[ld.p].ptr})'
    BY <1>2, <2>1, <2>2 DEF BuildCount, LoadCount, Left
  <2>4. pc \in {"task", "directory", "table", "chunk", "link"} => BuildCount'
    BY <1>2, <1>6, <2>1, <2>2 DEF BuildCount, LoadCount, Left, Mapping
  <2>5. pc \in Mapping /\ procs[ld.p].task # ERR => BuildCount'
    BY <1>2, <1>7, <2>1, <2>2 DEF BuildCount, LoadCount, Left, Mapping
  <2>. QED
    BY <2>2, <2>3, <2>4, <2>5 DEF BuildCount, Mapping
<1>. QED
  BY <1>5, <1>8 DEF Count

(* The count is inductive, next to the invariant of the loads.             *)
LEMMA NextCounted ==
    ASSUME LInv, Count, [LoadNext]_allVars
    PROVE  Count'
<1>1. CASE Publish
  BY <1>1 DEF Publish, Count, OpenCount, BuildCount, Mapping
<1>. QED
  BY <1>1, BeginLoadCounted, AllocProcessCounted, OpenFileCounted, FopenRunsCounted,
     StatFileCounted, AllocDataCounted, ReadFileCounted, CloseFileCounted, AllocStackCounted,
     AllocTaskCounted, AllocDirectoryCounted, AllocTableCounted, AllocChunkCounted,
     LinkTaskCounted, UnwindTaskCounted, MappingCounted, StutterCounted DEF LoadNext

(* Of every load that gets to its end nothing is left over.                *)
THEOREM CountInvariant == LoadSpec => [](LInv /\ Count)
<1>1. LoadInit => LInv /\ Count
  BY InitLInv DEF LoadInit, Count, OpenCount, BuildCount, Mapping
<1>2. LInv /\ Count /\ [LoadNext]_allVars => (LInv /\ Count)'
  BY NextLInv, NextCounted
<1>. QED
  BY <1>1, <1>2, PTL DEF LoadSpec

(* No load takes anything from what was there before it, and one that      *)
(* succeeds leaves its process and the path (process.c, task.c, file.c,    *)
(* pparser.c): all else that was allocated for it has been given back.     *)
THEOREM LoadsKeepTheirOwn == LoadSpec => []LoadKeepsOnlyItsOwn
<1>1. LInv /\ Count => LoadKeepsOnlyItsOwn
  <2>. SUFFICES ASSUME LInv, Count, ~wild PROVE LoadKeepsOnlyItsOwn
    BY DEF LoadKeepsOnlyItsOwn
  <2>1. before \subseteq LiveStarts
    BY DEF LInv, BeforeKept, Others, Held, LiveStarts
  <2>2. ASSUME pc = "publish", NEW own,
               own = Structures(ld.p) \cup {procs[ld.p].ptr, procs[ld.p].stack}
        PROVE  /\ own \subseteq LiveStarts \ before
               /\ \E i \in Used :
                     /\ Root[i].name = ld.path.parts[1] /\ Root[i].size = procs[ld.p].size
                     /\ ~Root[i].dir =>
                           Cardinality(LiveStarts \ (before \cup own))
                             = 1 + 2 * Len(ld.path.parts)
    <3>1. procs[ld.p].task # ERR
      BY <2>2 DEF LInv, ErrorIsWild
    <3>2. Finished(ld.p) /\ ld.p \in Owners
      BY <2>2, <3>1 DEF Finished, Own, Owners, Building, Mapping
    <3>3. ASSUME NEW b \in own PROVE \E r \in Parts : b = Part(ld.p, r)
      BY <2>2, <3>2, <3>3, StructuresAreParts, FinishedParts
    <3>4. ASSUME NEW r \in Parts PROVE Part(ld.p, r) \in LiveStarts \ before
      BY <3>2, <3>4, FinishedParts DEF LInv, BeforeKept, Held, LiveStarts
    <3>5. LoadCount(own)
      BY <2>2, <3>1 DEF Count, BuildCount, Mapping
    <3>. QED
      BY <3>3, <3>4, <3>5 DEF LoadCount, Left, PathBlocks
  <2>. QED
    BY <2>1, <2>2 DEF LoadKeepsOnlyItsOwn
<1>. QED
  BY <1>1, CountInvariant, PTL
=============================================================================
