----------------------------- MODULE TrapProofs -----------------------------
(***************************************************************************)
(* What holds of traps and kernel commands for every program, stack page,  *)
(* word, string and height of the heap.                                    *)
(*                                                                         *)
(* Up to the start of the program the system is that of Process, and its   *)
(* invariants hold. What the start needs from them is that the task at the *)
(* head of the list is the one of a process whose image is right. From     *)
(* there on the structures of the load never change, and what does change  *)
(* is told by where the processor is: which directory is loaded, whether   *)
(* the page of the command's buffer is mapped in the program's tables,     *)
(* whether the buffer is allocated, and how far the string has come.       *)
(***************************************************************************)
EXTENDS Trap, ProcessProofs

(* The first load. Only with it can the program start.                     *)

(* The one process there is then, and its task, when it has one, are those *)
(* that the list begins with; without one the list stays empty.            *)
FirstOf(p) ==
    IF procs[p].task = ERR THEN head = NULL /\ current = NULL
    ELSE ~wild /\ procs[p].task = head /\ tasks[head].process = p

FirstLoad ==
    /\ loads \in Nat
    /\ loads <= 1 =>
          /\ loads = 0 => pc = "idle" /\ ~wild
          /\ loads = 0 \/ pc # "idle" => Published = {}
          /\ pc \notin Mapping /\ Published = {} => head = NULL /\ current = NULL
          /\ pc \in {"process"} \cup Building => ~wild
          /\ pc \in HasTask => tasks[ld.task].process = ld.p
          /\ pc \in Mapping => FirstOf(ld.p)
          /\ \A p \in Published : FirstOf(p)
          /\ \A p, q \in Published : p = q

BootSound == LInv /\ Images /\ FirstLoad

-----------------------------------------------------------------------------
(* From the start of the program on.                                       *)

(* Where the processor is in a handler: behind the frame, in a command, in *)
(* copy_string_from_task.                                                  *)
Entering == {"int80", "keyboard", "other_irq"}
Copying == {"copy", "copy_map", "copy_read", "copy_restore", "copy_free"}
Serving == Commands \cup Copying \cup {"show", "leave_int80"}
OnDuty == {"user", "leave_irq"} \cup Entering \cup Serving

(* The command holds its buffer, and the program's directory maps it.      *)
Holding == {"copy_map", "copy_read", "copy_restore", "copy_free"}
Borrowing == {"copy_read", "copy_restore"}

(* What process_load has left, and nobody changes any more.                *)
TableAt(i) == dirs[Directory][i]
ProgramBlocks == BlocksOf(procs[Running].size)

Loaded ==
    /\ ~wild
    /\ \A p \in Published : p = Running /\ procs[p].task = current
    /\ procs[Running].ptr \in Blocks /\ procs[Running].stack \in Blocks
    /\ ProgramBlocks \in Nat /\ ProgramPage + ProgramBlocks <= HeapPage
    /\ \A i \in 0 .. (Tables - 1) :
          TableAt(i) \in DOMAIN tabs /\ DOMAIN tabs[TableAt(i)] = 0 .. (PagesPerTable - 1)
    /\ \A i, j \in 0 .. (Tables - 1) : TableAt(i) = TableAt(j) => i = j

(* The entry that process_load has made for a page, and where it leads.    *)
UserEntry(v) ==
    IF InProgram(Running, v) THEN Entry(PageOf(procs[Running].ptr) + v - ProgramPage, TRUE)
    ELSE IF InStack(v) THEN Entry(PageOf(procs[Running].stack) + v - StackPage, TRUE)
    ELSE Entry(v, FALSE)

Physical(v) == UserEntry(v).to

(* The tables are those of the load, but for the page of the buffer while  *)
(* it is mapped; the entry to put back is the one that was there.          *)
Mapped ==
    /\ \A v \in Pages :
          PagingGet(Directory, v) = IF at \in Borrowing /\ v = PageOf(call.tmp)
                                    THEN Entry(v, TRUE) ELSE UserEntry(v)
    /\ at \in Borrowing => call.old = Entry(PageOf(call.tmp), FALSE)

(* The allocations are those at the start, and the buffer while there is.  *)
HeapSound ==
    /\ IInv
    /\ IF at \in Holding
       THEN /\ call.tmp \in Blocks /\ boot_live[call.tmp] = 0
            /\ boot_live \in [Blocks -> Nat] /\ live = [boot_live EXCEPT ![call.tmp] = 1]
       ELSE live = boot_live

(* The directory loaded, the segments, and the stack pointer kept.         *)
CpuSound ==
    /\ at = "user" => cr3 = "task" /\ ds = "user"
    /\ at \in Entering => cr3 = "task" /\ frame.page = Physical(KernelStackPage)
    /\ at \in Serving => cr3 = IF at = "copy_read" THEN "task" ELSE "kernel"
    /\ at \in Serving \cup {"int80"} => frame.esp = esp
    /\ at \in Serving => saved_esp = esp

(* The top of the program's stack; the page that the word on it names,     *)
(* where it leads and the string there; the string that print is to show,  *)
(* once it has its buffer; and the sum of the two words on the stack.      *)
TopPage == Physical(StackTopPage)
TopWords == stack[TopPage]
Named == ProgramPage + TopWords[esp]
NamedAt == Physical(Named)
Wished == TextAt(NamedAt)
Awaited == IF NamedAt = PageOf(call.tmp) THEN Empty ELSE call.asked
Summed == (TopWords[esp] + TopWords[esp + 1]) % WordMod

Asking == {"int80", "copy"} \cup Commands

CallSound ==
    /\ TopPage \in DOMAIN stack
    /\ at = "int80" => call.command \in Commands
    /\ at \in Commands => call.command = at
    /\ at \in Copying \cup {"show"} => call.command = "print"
    /\ at \in {"int80", "copy"} \cup Commands => call.tmp = NULL
    /\ at \in Asking => call.asked = Wished
    /\ at \in {"copy", "copy_map", "copy_read"} => call.page = Named
    /\ at \in {"copy_map", "copy_read"} => Wished = Awaited
    /\ at = "copy_restore" => TextAt(PageOf(call.tmp)) = Awaited
    /\ at = "copy_free" => call.buff = Awaited
    /\ at = "show" => \/ call.tmp # NULL /\ call.buff = Awaited
                      \/ call.tmp = NULL /\ Full
    /\ at = "leave_int80" /\ call.command = "sum" => call.res = Summed

(* Types, with the locals of the commands.                                 *)
Calls80 == [command : Commands \cup {"none"}, res : 0 .. (WordMod - 1), page : Int, tmp : Pointers,
            old : [to : Int, w : BOOLEAN], buff : Strings \cup {Garbage, Empty},
            asked : Strings \cup {Garbage, Empty}]

TrapTyped == TrapTypeOK /\ call \in Calls80 /\ frame.esp \in {0, 1}

Sound ==
    /\ TrapTyped /\ LostOnlyIf
    /\ at = "boot" => BootSound
    /\ at \in OnDuty => Loaded /\ Mapped /\ HeapSound /\ CpuSound /\ CallSound

-----------------------------------------------------------------------------
(* The first load.                                                         *)

Unfinished == {"process"} \cup Building

(* A step of a load, but for the ones that begin, link, map and publish,   *)
(* is far from the list: pc stays before the mapping, or the load is over. *)
LEMMA QuietKeepsFirstLoad ==
    ASSUME FirstLoad, pc \in Unfinished, pc' \in Unfinished \cup {"idle", "lost"},
           UNCHANGED <<head, current, processes, loads>>,
           pc' # "lost" => wild' = wild,
           pc' \in HasTask => (tasks[ld.task].process = ld.p)'
    PROVE  FirstLoad'
<1>1. Published' = Published
  BY DEF Published
<1>2. pc # "idle" /\ pc \notin Mapping /\ pc' \notin Mapping
  BY DEF Unfinished, Building, Mapping
<1>3. loads \in Nat /\ loads' = loads
  BY DEF FirstLoad
<1>4. CASE loads <= 1
  <2>1. /\ Published = {} /\ head = NULL /\ current = NULL /\ ~wild /\ loads # 0
    BY <1>2, <1>4 DEF FirstLoad, Unfinished
  <2>2. pc' \in {"process"} \cup Building => pc' # "lost"
    BY DEF Building
  <2>. QED
    BY <1>1, <1>2, <1>3, <2>1, <2>2 DEF FirstLoad
<1>5. CASE ~(loads <= 1)
  BY <1>3, <1>5 DEF FirstLoad
<1>. QED
  BY <1>4, <1>5

(* BeginLoad keeps what is said of the first load.                         *)
LEMMA BeginKeepsFirstLoad ==
    ASSUME FirstLoad, NEW path \in Calls, BeginLoad(path)
    PROVE  FirstLoad'
<1>1. /\ pc = "idle" /\ loads' = loads + 1 /\ loads \in Nat
      /\ UNCHANGED <<head, current, processes, wild, procs, tasks>>
      /\ pc' \in {"process", "idle"}
  BY DEF BeginLoad, listVars, procVars, FirstLoad
<1>2. Published' = Published
  BY <1>1 DEF Published
<1>3. loads' \in Nat /\ (loads' <= 1 => loads = 0) /\ loads' # 0
  BY <1>1, SMT
<1>4. CASE loads = 0
  <2>1. Published = {} /\ head = NULL /\ current = NULL /\ ~wild
    <3>1. loads <= 1
      BY <1>4
    <3>. QED
      BY <1>1, <1>4, <3>1 DEF FirstLoad, Mapping
  <2>2. pc' \notin Mapping /\ pc' \notin HasTask
    BY <1>1 DEF Mapping, HasTask
  <2>. QED
    BY <1>1, <1>2, <1>3, <2>1, <2>2 DEF FirstLoad
<1>5. CASE loads # 0
  BY <1>3, <1>5 DEF FirstLoad
<1>. QED
  BY <1>4, <1>5

(* Up to the chunk, a load does not touch the list.                        *)
LEMMA BuildingKeepsFirstLoad ==
    ASSUME LInv, FirstLoad,
           \/ AllocProcess \/ OpenFile \/ FopenRuns \/ StatFile \/ AllocData \/ ReadFile
           \/ CloseFile \/ AllocStack
    PROVE  FirstLoad'
<1>1. UNCHANGED <<head, current, processes, loads, wild>>
  BY DEF AllocProcess, OpenFile, FopenRuns, StatFile, AllocData, ReadFile, CloseFile, AllocStack,
         listVars, procVars, loadVars, countVars
<1>2. pc \in Unfinished
  BY DEF AllocProcess, OpenFile, FopenRuns, StatFile, AllocData, ReadFile, CloseFile, AllocStack,
         Unfinished, Building
<1>3. pc' \in {"idle", "open", "opening", "data", "read", "close", "stack", "task"}
  BY DEF AllocProcess, OpenFile, FopenRuns, StatFile, AllocData, ReadFile, CloseFile, AllocStack,
         Fail, loadVars
<1>4. pc' \notin HasTask /\ pc' \in Unfinished \cup {"idle", "lost"} /\ pc' # "lost"
  BY <1>3 DEF HasTask, Unfinished, Building
<1>. QED
  BY <1>1, <1>2, <1>4, QuietKeepsFirstLoad

(* The new task is given its process, and keeps it.                        *)
LEMMA TaskKeepsFirstLoad ==
    ASSUME LInv, FirstLoad, AllocTask \/ AllocDirectory \/ AllocTable \/ AllocChunk
    PROVE  FirstLoad'
<1>1. UNCHANGED <<head, current, processes, loads>> /\ (pc' # "lost" => wild' = wild)
  BY DEF AllocTask, AllocDirectory, AllocTable, AllocChunk, listVars, procVars, countVars
<1>2. pc \in {"task", "directory", "table", "chunk"} /\ pc \in Unfinished
  BY DEF AllocTask, AllocDirectory, AllocTable, AllocChunk, Unfinished, Building
<1>3. pc' \in {"lost", "directory", "table", "chunk", "unwind", "link"}
  BY DEF AllocTask, AllocDirectory, AllocTable, AllocChunk
<1>4. pc' \in Unfinished \cup {"idle", "lost"}
  BY <1>3 DEF Unfinished, Building
<1>5. ld \in LoadLocals
  BY DEF LInv, LoadTyped
<1>6. CASE loads <= 1
  <2>1. pc \in HasTask => tasks[ld.task].process = ld.p
    BY <1>6 DEF FirstLoad
  <2>2. CASE AllocTask
    <3>1. pc' # "lost" => /\ tasks' = Put(tasks, ret', [dir |-> NULL, next |-> NULL, prev |-> NULL,
                                                       process |-> ld.p])
                          /\ ld' = [ld EXCEPT !.task = ret']
      BY <2>2 DEF AllocTask
    <3>2. pc' # "lost" => ld'.task = ret' /\ ld'.p = ld.p
      BY <1>5, <3>1 DEF LoadLocals
    <3>3. pc' # "lost" => (tasks[ld.task].process = ld.p)'
      BY <3>1, <3>2 DEF Put
    <3>4. pc' \in HasTask => pc' # "lost"
      BY DEF HasTask
    <3>. QED
      BY <1>1, <1>2, <1>4, <3>3, <3>4, QuietKeepsFirstLoad
  <2>3. CASE AllocDirectory \/ AllocTable
    <3>1. tasks' = tasks /\ ld'.task = ld.task /\ ld'.p = ld.p /\ pc \in HasTask
      BY <1>5, <2>3 DEF AllocDirectory, AllocTable, listVars, LoadLocals, HasTask
    <3>. QED
      BY <1>1, <1>2, <1>4, <2>1, <3>1, QuietKeepsFirstLoad
  <2>4. CASE AllocChunk
    <3>1. /\ pc \in HasTask /\ ld' = ld
          /\ tasks' = tasks \/ tasks' = [tasks EXCEPT ![ld.task].dir = ret']
      BY <2>4 DEF AllocChunk, HasTask
    <3>2. tasks[ld.task] \in TaskRecord /\ ld.task \in DOMAIN tasks
      <4>1. ld.p \in Owners /\ Own(ld.p)
        BY <1>2 DEF Owners, Own, Building
      <4>2. TASK \in Has(ld.p) /\ Part(ld.p, TASK) = ld.task
        <5>1. TASK \in Parts
          BY PagingAssumption, SMT DEF Parts, TASK
        <5>. QED
          BY <3>1, <4>1, <5>1 DEF Has, Built, Part, TaskOf, TASK, STRUCT, DATA, STACK
      <4>3. ld.task \in DOMAIN tasks
        BY <4>1, <4>2 DEF LInv, PartsExist, InMemory
      <4>. QED
        BY <4>3 DEF LInv, LoadTyped, MemoryTyped
    <3>3. tasks'[ld.task].process = tasks[ld.task].process
      <4>1. [tasks[ld.task] EXCEPT !.dir = ret'].process = tasks[ld.task].process
        BY <3>2 DEF TaskRecord
      <4>2. tasks' = tasks \/ tasks'[ld.task] = [tasks[ld.task] EXCEPT !.dir = ret']
        BY <3>1, <3>2
      <4>. QED
        BY <4>1, <4>2
    <3>. QED
      BY <1>1, <1>2, <1>4, <2>1, <3>1, <3>3, QuietKeepsFirstLoad
  <2>. QED
    BY <2>2, <2>3, <2>4
<1>7. CASE ~(loads <= 1)
  BY <1>1, <1>7 DEF FirstLoad
<1>. QED
  BY <1>6, <1>7

(* The process under way, and its task, are neither ERR nor null.          *)
LEMMA ErrorIsNoBlock ==
    ASSUME NEW b \in Pointers
    PROVE  b # ERR
  BY ProcessAssumption, TotalAssumption, SMT DEF Pointers, Blocks

(* LinkTask makes the first task the head; UnwindTask leaves the list      *)
(* empty, and an error pointer for the task.                               *)
LEMMA LinkKeepsFirstLoad ==
    ASSUME LInv, FirstLoad, LinkTask \/ UnwindTask
    PROVE  FirstLoad'
<1>1. /\ pc \in Building /\ pc # "idle" /\ pc \in HasTask
      /\ UNCHANGED <<processes, loads, ld>>
      /\ pc' \in {"map_program", "lost"}
  BY DEF LinkTask, UnwindTask, Building, HasTask, countVars
<1>2. Published' = Published
  BY <1>1 DEF Published
<1>3. ld \in LoadLocals /\ ld.p \in DOMAIN procs /\ procs[ld.p] \in Record
  BY <1>1, OwnProcess DEF LInv, LoadTyped, MemoryTyped
<1>4. ld.task # ERR
  BY <1>3, ErrorIsNoBlock DEF LoadLocals
<1>5. CASE loads <= 1
  <2>1. /\ Published = {} /\ head = NULL /\ current = NULL /\ ~wild /\ loads # 0
        /\ tasks[ld.task].process = ld.p
    <3>1. pc \notin Mapping
      BY <1>1 DEF Building, Mapping
    <3>. QED
      BY <1>1, <1>5, <3>1 DEF FirstLoad
  <2>2. CASE LinkTask
    <3>1. /\ head' = ld.task /\ tasks' = tasks /\ wild' = wild /\ pc' = "map_program"
          /\ procs' = [procs EXCEPT ![ld.p].task = ld.task]
      BY <2>1, <2>2 DEF LinkTask
    <3>2. procs'[ld.p].task = ld.task
      BY <1>3, <3>1 DEF Record
    <3>3. FirstOf(ld.p)'
      BY <1>1, <1>4, <2>1, <3>1, <3>2 DEF FirstOf
    <3>4. pc' \in Mapping /\ pc' \notin HasTask /\ pc' \notin {"process"} \cup Building
      BY <3>1 DEF Mapping, HasTask, Building
    <3>. QED
      BY <1>1, <1>2, <2>1, <3>3, <3>4 DEF FirstLoad
  <2>3. CASE UnwindTask
    <3>1. /\ UNCHANGED <<head, current>>
          /\ pc' = "map_program" => procs' = [procs EXCEPT ![ld.p].task = ERR]
      BY <2>3 DEF UnwindTask, listVars
    <3>2. pc' = "map_program" => procs'[ld.p].task = ERR
      BY <1>3, <3>1 DEF Record
    <3>3. pc' \in Mapping => FirstOf(ld.p)'
      <4>1. pc' \in Mapping => pc' = "map_program"
        BY <1>1 DEF Mapping
      <4>. QED
        BY <1>1, <2>1, <3>1, <3>2, <4>1 DEF FirstOf
    <3>4. pc' \notin HasTask /\ pc' \notin {"process"} \cup Building /\ pc' # "idle"
      BY <1>1 DEF HasTask, Building
    <3>. QED
      BY <1>1, <1>2, <2>1, <3>1, <3>3, <3>4 DEF FirstLoad
  <2>. QED
    BY <2>2, <2>3
<1>6. CASE ~(loads <= 1)
  BY <1>1, <1>6 DEF FirstLoad
<1>. QED
  BY <1>5, <1>6

(* Mapping goes wild only with an error pointer for the task.              *)
LEMMA MappingKeepsFirstLoad ==
    ASSUME LInv, FirstLoad, MapProgram \/ MapStack
    PROVE  FirstLoad'
<1>1. /\ pc \in Mapping /\ pc # "idle" /\ UNCHANGED <<processes, loads, ld, head, current>>
      /\ UNCHANGED <<procs, tasks>>
      /\ pc' \in {"map_stack", "publish", "lost"}
      /\ procs[ld.p].task # ERR => wild' = wild
  BY DEF MapProgram, MapStack, Mapping, countVars, listVars, procVars
<1>2. Published' = Published
  BY <1>1 DEF Published
<1>3. /\ pc' \notin HasTask /\ pc' \notin {"process"} \cup Building /\ pc' # "idle"
      /\ pc' = "lost" => procs[ld.p].task = ERR
  BY <1>1 DEF HasTask, Building, MapProgram, MapStack
<1>4. CASE loads <= 1
  <2>1. Published = {} /\ FirstOf(ld.p) /\ loads # 0
    BY <1>1, <1>4 DEF FirstLoad
  <2>2. FirstOf(ld.p)'
    BY <1>1, <2>1 DEF FirstOf
  <2>3. pc' \notin Mapping => head = NULL /\ current = NULL
    BY <1>1, <1>3, <2>1 DEF FirstOf, Mapping
  <2>. QED
    BY <1>1, <1>2, <1>3, <2>1, <2>2, <2>3 DEF FirstLoad
<1>5. CASE ~(loads <= 1)
  BY <1>1, <1>5 DEF FirstLoad
<1>. QED
  BY <1>4, <1>5

(* The process published first is the one that was mapped.                 *)
LEMMA PublishKeepsFirstLoad ==
    ASSUME LInv, FirstLoad, Publish
    PROVE  FirstLoad'
<1>1. /\ pc \in Mapping /\ pc # "idle" /\ pc' = "idle"
      /\ UNCHANGED <<loads, head, current, procs, tasks, wild>>
      /\ processes' = [processes EXCEPT ![ld.slot] = ld.p]
  BY DEF Publish, Mapping, listVars, countVars
<1>2. processes \in [Slots -> Pointers] /\ ld.slot \in Slots
  BY DEF LInv, LoadTyped, LoadLocals
<1>3. ld.p # NULL
  <2>1. ld.p \in Blocks
    BY <1>1, OwnProcess
  <2>. QED
    BY <2>1, NULLAssumption, TotalAssumption, SMT DEF Blocks
<1>4. CASE loads <= 1
  <2>1. Published = {} /\ FirstOf(ld.p) /\ loads # 0
    BY <1>1, <1>4 DEF FirstLoad
  <2>2. Published' = {ld.p}
    <3>1. \A s \in Slots : processes[s] = NULL
      BY <2>1 DEF Published
    <3>. QED
      BY <1>1, <1>2, <1>3, <3>1 DEF Published
  <2>3. \A p \in Published' : FirstOf(p)'
    BY <1>1, <2>1, <2>2 DEF FirstOf
  <2>4. pc' \notin HasTask /\ pc' \notin {"process"} \cup Building /\ pc' \notin Mapping
    BY <1>1 DEF HasTask, Building, Mapping
  <2>. QED
    BY <1>1, <2>1, <2>2, <2>3, <2>4 DEF FirstLoad
<1>5. CASE ~(loads <= 1)
  BY <1>1, <1>5 DEF FirstLoad
<1>. QED
  BY <1>4, <1>5

(* Every step of the boot keeps the invariants of the load.                *)
LEMMA BootStepSound ==
    ASSUME BootSound, [LoadNext]_allVars
    PROVE  BootSound'
<1>1. LInv' /\ Images'
  BY NextLInv, NextImages DEF BootSound
<1>2. CASE UNCHANGED allVars
  <2>1. UNCHANGED <<loads, pc, ld, wild, head, current, tasks, procs, processes>>
    BY <1>2 DEF allVars, loadVars, countVars, listVars, procVars
  <2>2. Published' = Published
    BY <2>1 DEF Published
  <2>3. \A p : FirstOf(p)' = FirstOf(p)
    BY <2>1 DEF FirstOf
  <2>. QED
    BY <1>1, <2>1, <2>2, <2>3 DEF BootSound, FirstLoad
<1>3. CASE LoadNext
  BY <1>1, <1>3, BeginKeepsFirstLoad, BuildingKeepsFirstLoad, TaskKeepsFirstLoad,
     LinkKeepsFirstLoad, MappingKeepsFirstLoad, PublishKeepsFirstLoad DEF BootSound, LoadNext
<1>. QED
  BY <1>2, <1>3

(* They hold when the kernel starts.                                       *)
LEMMA BootStartsSound ==
    ASSUME LoadInit
    PROVE  BootSound
<1>1. pc = "idle" /\ loads = 0 /\ ~wild /\ head = NULL /\ current = NULL /\ Published = {}
  BY DEF LoadInit, Published
<1>2. FirstLoad
  BY <1>1 DEF FirstLoad, Building, HasTask, Mapping
<1>3. Images
  BY <1>1 DEF Images, TablesFilled, HasDirectory, Owners, Building, Mapping
<1>. QED
  BY <1>2, <1>3, InitLInv DEF BootSound

-----------------------------------------------------------------------------
(* Where things are in the program's address space.                        *)

(* The program, its stack and the heap follow each other.                  *)
LEMMA PagesInOrder ==
    ASSUME Loaded
    PROVE  /\ ProgramPage \in Nat /\ StackPage \in Nat /\ HeapPage \in Nat
           /\ BlocksOf(StackSize) \in Nat /\ BlocksOf(StackSize) > 0
           /\ StackPage + BlocksOf(StackSize) <= ProgramPage /\ ProgramPage <= HeapPage
           /\ ProgramBlocks \in Nat /\ ProgramPage + ProgramBlocks <= HeapPage
           /\ procs[Running].ptr \in Nat /\ procs[Running].stack \in Nat
           /\ HeapPage + Total <= PagesPerTable * Tables /\ PagesPerTable * Tables \in Nat
           /\ Total \in Nat
<1>1. /\ BlocksOf(StackSize) \in Nat /\ BlocksOf(StackSize) > 0
      /\ StackPage + BlocksOf(StackSize) <= ProgramPage
      /\ ProgramPage \in Nat /\ StackPage \in Nat
  BY KernelSizes, ProcessAssumption
<1>2. ProgramBlocks \in Nat /\ ProgramPage + ProgramBlocks <= HeapPage /\ HeapPage \in Nat
  BY AddressAssumption DEF Loaded
<1>3. ProgramPage <= HeapPage
  BY <1>1, <1>2
<1>4. procs[Running].ptr \in Nat /\ procs[Running].stack \in Nat /\ Total \in Nat
  BY TotalAssumption, SMT DEF Loaded, Blocks
<1>5. PagesPerTable * Tables \in Nat
  BY PagingAssumption, SMT
<1>. QED
  BY <1>1, <1>2, <1>3, <1>4, <1>5, PagingAssumption

(* What the entries of process_load are.                                   *)
LEMMA EntriesTyped ==
    ASSUME Loaded, NEW v \in Pages
    PROVE  UserEntry(v) \in [to : Int, w : BOOLEAN] /\ Physical(v) \in Int /\ v \in Int
<1>1. v \in Int
  BY PageIndexes
<1>2. /\ PageOf(procs[Running].ptr) + v - ProgramPage \in Int
      /\ PageOf(procs[Running].stack) + v - StackPage \in Int
  BY <1>1, PagesInOrder, SMT DEF PageOf
<1>3. UserEntry(v) \in [to : Int, w : BOOLEAN]
  BY <1>1, <1>2 DEF UserEntry, Entry
<1>. QED
  BY <1>1, <1>3 DEF Physical

(* The heap is above the program: its pages are mapped to themselves, for  *)
(* reading.                                                                *)
LEMMA HeapIsItself ==
    ASSUME Loaded, NEW b \in Blocks
    PROVE  /\ PageOf(b) \in Pages /\ UserEntry(PageOf(b)) = Entry(PageOf(b), FALSE)
           /\ Physical(PageOf(b)) = PageOf(b)
<1>1. PICK v : v = HeapPage + b
  OBVIOUS
<1>2. b \in Nat /\ b < Total
  BY TotalAssumption, SMT DEF Blocks
<1>3. v \in Nat /\ v >= HeapPage /\ v < PagesPerTable * Tables
  BY <1>1, <1>2, PagesInOrder, SMT
<1>4. v \in Pages
  BY <1>3, PagesInOrder, SMT DEF Pages
<1>5. ~(v < ProgramPage + BlocksOf(procs[Running].size))
  BY <1>3, PagesInOrder, SMT DEF ProgramBlocks
<1>6. ~(v < StackPage + BlocksOf(StackSize))
  BY <1>3, PagesInOrder, SMT
<1>7. UserEntry(v) = Entry(v, FALSE)
  BY <1>5, <1>6 DEF UserEntry, InProgram, InStack
<1>. QED
  BY <1>1, <1>4, <1>7 DEF PageOf, Physical, Entry

(* The page of the top of the stack.                                       *)
LEMMA StackTopIs ==
    ASSUME Loaded
    PROVE  /\ StackTopPage \in Pages
           /\ TopPage = PageOf(procs[Running].stack) + BlocksOf(StackSize) - 1
<1>1. PICK n, v : n = BlocksOf(StackSize) /\ v = StackPage + n - 1
  OBVIOUS
<1>2. n \in Nat /\ n > 0 /\ StackPage + n <= ProgramPage
  BY <1>1, PagesInOrder
<1>3. v \in Nat /\ v < ProgramPage /\ StackPage <= v /\ v < StackPage + n
  BY <1>1, <1>2, PagesInOrder, SMT
<1>4. v < PagesPerTable * Tables
  BY <1>3, PagesInOrder, SMT
<1>5. v \in Pages
  BY <1>3, <1>4, PagesInOrder, SMT DEF Pages
<1>6. ~(ProgramPage <= v)
  BY <1>3, PagesInOrder, SMT
<1>7. UserEntry(v) = Entry(PageOf(procs[Running].stack) + v - StackPage, TRUE)
  BY <1>1, <1>3, <1>6 DEF UserEntry, InProgram, InStack
<1>8. PageOf(procs[Running].stack) + v - StackPage = PageOf(procs[Running].stack) + n - 1
  BY <1>1, <1>2, <1>3, PagesInOrder, SMT DEF PageOf
<1>9. StackTopPage = v
  BY <1>1 DEF StackTopPage
<1>. QED
  BY <1>1, <1>5, <1>7, <1>8, <1>9 DEF TopPage, Physical, Entry

(* As a formula, for the state after a step.                               *)
LEMMA StackTop ==
    Loaded => TopPage = PageOf(procs[Running].stack) + BlocksOf(StackSize) - 1
  BY StackTopIs

(* Whatever is mapped for the moment, an address leads where process_load  *)
(* had it lead: the buffer's page is mapped to itself before and after.    *)
LEMMA AddressesLead ==
    ASSUME Loaded, Mapped, at \in Borrowing => call.tmp \in Blocks, NEW v \in Pages
    PROVE  PhysOf("task", v) = Physical(v) /\ PhysOf("kernel", v) = v
<1>1. CASE at \in Borrowing /\ v = PageOf(call.tmp)
  <2>1. PagingGet(Directory, v) = Entry(v, TRUE)
    BY <1>1 DEF Mapped
  <2>2. Physical(v) = v
    BY <1>1, HeapIsItself
  <2>. QED
    BY <2>1, <2>2 DEF PhysOf, Entry
<1>2. CASE ~(at \in Borrowing /\ v = PageOf(call.tmp))
  <2>1. PagingGet(Directory, v) = UserEntry(v)
    BY <1>2 DEF Mapped
  <2>. QED
    BY <2>1 DEF PhysOf, Physical
<1>. QED
  BY <1>1, <1>2

(* What the kernel reads at the program's stack pointer.                   *)
LEMMA StackReads ==
    ASSUME Loaded, Mapped, HeapSound, TrapTyped, TopPage \in DOMAIN stack
    PROVE  /\ StackAt("task") = TopWords /\ TopWords \in [StackSlots -> Words \cup {0}]
           /\ esp \in StackSlots /\ esp + 1 \in StackSlots
           /\ TopWords[esp] \in Nat /\ TopWords[esp + 1] \in Nat
           /\ Named \in Pages /\ PhysOf("task", Named) = NamedAt /\ NamedPage = NamedAt
           /\ PhysOf("task", StackTopPage) = TopPage
           /\ PhysOf("task", KernelStackPage) = Physical(KernelStackPage)
<1>1. at \in Borrowing => call.tmp \in Blocks
  BY DEF HeapSound, Borrowing, Holding
<1>2. PhysOf("task", StackTopPage) = TopPage
  BY <1>1, StackTopIs, AddressesLead DEF TopPage
<1>3. StackAt("task") = TopWords
  BY <1>2 DEF StackAt, TopWords
<1>4. TopWords \in [StackSlots -> Words \cup {0}]
  BY DEF TrapTyped, TrapTypeOK, TopWords
<1>5. esp \in StackSlots /\ esp + 1 \in StackSlots
  BY DEF TrapTyped, TrapTypeOK, StackSlots
<1>6. TopWords[esp] \in Words \cup {0} /\ TopWords[esp + 1] \in Words \cup {0}
  BY <1>4, <1>5
<1>7. TopWords[esp] \in Nat /\ TopWords[esp + 1] \in Nat
  <2>1. Words \cup {0} \subseteq Nat
    BY TrapAssumption
  <2>. QED
    BY <1>6, <2>1
<1>8. ProgramPage + 0 \in Pages
  <2>1. ProgramPage < PagesPerTable * Tables
    <3>1. HeapPage < PagesPerTable * Tables
      BY PagesInOrder, TotalAssumption, SMT
    <3>. QED
      BY <3>1, PagesInOrder, SMT
  <2>. QED
    BY <2>1, PagesInOrder, SMT DEF Pages
<1>9. Named \in Pages
  BY <1>6, <1>8, TrapAssumption DEF Named
<1>10. PhysOf("task", Named) = NamedAt /\ NamedPage = NamedAt
  <2>1. PhysOf("task", Named) = NamedAt
    BY <1>1, <1>9, AddressesLead DEF NamedAt
  <2>. QED
    BY <1>3, <2>1 DEF NamedPage, Named
<1>11. PhysOf("task", KernelStackPage) = Physical(KernelStackPage)
  BY <1>1, AddressesLead, TrapAssumption
<1>. QED
  BY <1>2, <1>3, <1>4, <1>5, <1>7, <1>9, <1>10, <1>11

-----------------------------------------------------------------------------
(* What stays.                                                             *)

loadedVars == <<dirs, chunks, listVars, procVars, wild, boot_live>>

(* The structures of the load lead where they did.                         *)
LEMMA LeadsStay ==
    ASSUME UNCHANGED loadedVars
    PROVE  /\ Running' = Running /\ Directory' = Directory
           /\ \A v : UserEntry(v)' = UserEntry(v) /\ Physical(v)' = Physical(v)
           /\ TopPage' = TopPage
           /\ stack' = stack => TopWords' = TopWords
           /\ UNCHANGED <<stack, esp>> => Named' = Named /\ Summed' = Summed /\ NamedAt' = NamedAt
           /\ UNCHANGED <<stack, esp, text>> => Wished' = Wished
<1>1. UNCHANGED <<dirs, chunks, tasks, current, procs>>
  BY DEF loadedVars, listVars, procVars
<1>2. Running' = Running /\ Directory' = Directory
  BY <1>1 DEF Running, Directory
<1>3. \A v : UserEntry(v)' = UserEntry(v) /\ Physical(v)' = Physical(v)
  BY <1>1 DEF UserEntry, Physical, InProgram, InStack, Running
<1>4. TopPage' = TopPage
  BY <1>1 DEF TopPage, Physical, UserEntry, InProgram, InStack, Running
<1>5. stack' = stack => TopWords' = TopWords
  BY <1>4 DEF TopWords
<1>6. UNCHANGED <<stack, esp>> => Named' = Named /\ Summed' = Summed /\ NamedAt' = NamedAt
  <2>1. UNCHANGED <<stack, esp>> => Named' = Named /\ Summed' = Summed
    BY <1>5 DEF Named, Summed
  <2>. QED
    BY <1>1, <2>1 DEF NamedAt, Physical, UserEntry, InProgram, InStack, Running
<1>7. ASSUME UNCHANGED <<stack, esp, text>> PROVE Wished' = Wished
  BY <1>6, <1>7 DEF Wished, TextAt
<1>. QED
  BY <1>2, <1>3, <1>4, <1>5, <1>6, <1>7

(* Loaded is kept as long as no table comes or goes.                       *)
LEMMA LoadedStays ==
    ASSUME Loaded, UNCHANGED loadedVars, DOMAIN tabs' = DOMAIN tabs,
           \A t \in DOMAIN tabs : DOMAIN tabs'[t] = DOMAIN tabs[t]
    PROVE  Loaded'
<1>1. UNCHANGED <<dirs, chunks, tasks, current, procs, processes, wild>>
  BY DEF loadedVars, listVars, procVars
<1>2. Running' = Running /\ Directory' = Directory /\ Published' = Published
      /\ ProgramBlocks' = ProgramBlocks
  BY <1>1 DEF Running, Directory, Published, ProgramBlocks
<1>3. \A i : TableAt(i)' = TableAt(i)
  BY <1>1, <1>2 DEF TableAt
<1>. QED
  BY <1>1, <1>2, <1>3 DEF Loaded

(* A step that leaves the tables, the heap and the structures alone.       *)
LEMMA QuietStep ==
    ASSUME Loaded, Mapped, HeapSound, UNCHANGED <<allVars, boot_live>>,
           (at \in Borrowing) = (at' \in Borrowing), (at \in Holding) = (at' \in Holding),
           at \in Holding => call'.tmp = call.tmp /\ call'.old = call.old
    PROVE  Loaded' /\ Mapped' /\ HeapSound' /\ UNCHANGED loadedVars
<1>1. UNCHANGED loadedVars /\ UNCHANGED <<vars, dirs, chunks, tabs, tasks, current, procs, live>>
  BY DEF allVars, loadedVars, loadVars, vars, pagingVars, listVars, procVars
<1>2. Loaded'
  BY <1>1, LoadedStays
<1>3. Mapped'
  <2>1. \A v : PagingGet(Directory, v)' = PagingGet(Directory, v)
    BY <1>1, LeadsStay DEF PagingGet, TableOf
  <2>2. at \in Borrowing => at \in Holding
    BY DEF Borrowing, Holding
  <2>3. \A v \in Pages :
          PagingGet(Directory, v)' = IF at' \in Borrowing /\ v = PageOf(call'.tmp)
                                     THEN Entry(v, TRUE) ELSE UserEntry(v)'
    BY <1>1, <2>1, <2>2, LeadsStay DEF Mapped
  <2>4. at' \in Borrowing => call'.old = Entry(PageOf(call'.tmp), FALSE)
    BY <2>2 DEF Mapped
  <2>. QED
    BY <2>3, <2>4 DEF Mapped
<1>4. IInv'
  BY <1>1, NextIInv DEF HeapSound
<1>5. HeapSound'
  BY <1>1, <1>4 DEF HeapSound
<1>. QED
  BY <1>1, <1>2, <1>3, <1>5

-----------------------------------------------------------------------------
(* The start of the program.                                               *)

(* What the kernel starts is the process that was loaded, with its image.  *)
LEMMA StartFindsProcess ==
    ASSUME BootSound, RunFirstTask
    PROVE  /\ ~wild /\ Running' \in Published /\ Running' = tasks[head].process
           /\ procs[Running'].task = head
           /\ \A p \in Published : p = Running'
<1>1. pc = "idle" /\ loads = 1 /\ current # NULL /\ current' = head /\ tasks' = tasks
  BY DEF RunFirstTask
<1>2. /\ \A p \in Published : FirstOf(p)
      /\ \A p, q \in Published : p = q
      /\ Published # {}
  BY <1>1 DEF BootSound, FirstLoad, Mapping
<1>3. PICK p \in Published : FirstOf(p)
  BY <1>2
<1>4. ~wild /\ procs[p].task = head /\ tasks[head].process = p
  BY <1>1, <1>3 DEF FirstOf
<1>5. Running' = p
  BY <1>1, <1>4 DEF Running
<1>. QED
  BY <1>2, <1>3, <1>4, <1>5

(* Its tables are those of its image.                                      *)
LEMMA StartIsLoaded ==
    ASSUME BootSound, RunFirstTask
    PROVE  Loaded' /\ Mapped'
<1>1. PICK p \in Published : p = Running' /\ procs[p].task = head /\ \A q \in Published : q = p
  BY StartFindsProcess
<1>2. /\ ~wild /\ current' = head /\ at' = "user"
      /\ UNCHANGED <<procs, processes, tasks, dirs, chunks, tabs, wild>>
  BY StartFindsProcess DEF RunFirstTask, pagingVars, procVars, loadVars
<1>3. LInv /\ Images
  BY DEF BootSound
<1>4. Finished(p)
  BY <1>2, <1>3, PublishedFinished
<1>5. Directory' = DirOf(p)
  BY <1>1, <1>2 DEF Directory, DirOf
<1>6. Published' = Published
  BY <1>2 DEF Published
<1>7. procs[p].ptr \in Blocks /\ procs[p].stack \in Blocks
  BY <1>2, <1>3, PublishedNumbers
<1>8. /\ BlocksOf(procs[p].size) \in Nat
      /\ ProgramPage + BlocksOf(procs[p].size) <= HeapPage
  <2>1. /\ Has(p) = Parts /\ DATA \in Parts /\ Held(Part(p, DATA)) /\ InMemory(p, DATA)
        /\ SizeOf(p) = procs[p].size
    BY <1>3, <1>4, FinishedParts DEF Finished, SizeOf
  <2>2. procs[p].size \in Sizes /\ live[Part(p, DATA)] = BlocksOf(procs[p].size)
    BY <2>1 DEF InMemory
  <2>3. BlocksOf(procs[p].size) \in Nat /\ BlocksOf(procs[p].size) > 0
    BY <2>1, <2>2, FileSizes DEF Held
  <2>4. procs[p].size # 0
    <3>1. BlocksOf(0) = 0
      BY BlockSizeAssumption, SMT DEF BlocksOf, AlignUp
    <3>. QED
      BY <2>3, <3>1
  <2>. QED
    BY <2>2, <2>3, <2>4, FileSizes
<1>9. \A i \in 0 .. (Tables - 1) :
         /\ dirs[DirOf(p)][i] = Part(p, i) /\ i \in Has(p)
         /\ dirs[DirOf(p)][i] \in DOMAIN tabs
         /\ DOMAIN tabs[dirs[DirOf(p)][i]] = 0 .. (PagesPerTable - 1)
  <2>. SUFFICES ASSUME NEW i \in 0 .. (Tables - 1)
                PROVE  /\ dirs[DirOf(p)][i] = Part(p, i) /\ i \in Has(p)
                       /\ dirs[DirOf(p)][i] \in DOMAIN tabs
                       /\ DOMAIN tabs[dirs[DirOf(p)][i]] = 0 .. (PagesPerTable - 1)
    OBVIOUS
  <2>1. i \in Has(p) /\ Part(p, i) = dirs[DirOf(p)][i] /\ InMemory(p, i)
    BY <1>3, <1>4, FinishedParts
  <2>2. Part(p, i) \in DOMAIN tabs
    BY <2>1 DEF InMemory
  <2>3. MemoryTyped
    BY <1>3 DEF LInv, LoadTyped
  <2>. QED
    BY <2>1, <2>2, <2>3 DEF MemoryTyped
<1>10. \A i, j \in 0 .. (Tables - 1) : dirs[DirOf(p)][i] = dirs[DirOf(p)][j] => i = j
  BY <1>3, <1>4, <1>9 DEF LInv, PartsStandAlone, Finished
<1>11. \A i : TableAt(i)' = dirs[DirOf(p)][i]
  BY <1>2, <1>5 DEF TableAt
<1>12. ProgramBlocks' = BlocksOf(procs[p].size)
  BY <1>1, <1>2 DEF ProgramBlocks
<1>13. Loaded'
  BY <1>1, <1>2, <1>6, <1>7, <1>8, <1>9, <1>10, <1>11, <1>12 DEF Loaded
<1>14. \A v \in Pages : PagingGet(Directory, v)' = PagingGet(DirOf(p), v)
  BY <1>2, <1>5 DEF PagingGet, TableOf
<1>15. \A v \in Pages : PagingGet(DirOf(p), v) = UserEntry(v)'
  <2>. SUFFICES ASSUME NEW v \in Pages PROVE PagingGet(DirOf(p), v) = UserEntry(v)'
    OBVIOUS
  <2>1. UserEntry(v)' =
          IF InProgram(p, v) THEN Entry(PageOf(procs[p].ptr) + v - ProgramPage, TRUE)
          ELSE IF InStack(v) THEN Entry(PageOf(procs[p].stack) + v - StackPage, TRUE)
          ELSE Entry(v, FALSE)
    BY <1>1, <1>2 DEF UserEntry, InProgram, InStack
  <2>. QED
    BY <1>2, <1>3, <2>1, PublishedImage
<1>16. Mapped'
  BY <1>2, <1>14, <1>15 DEF Mapped, Borrowing
<1>. QED
  BY <1>13, <1>16

(* The program starts in its own address space, on its own stack.          *)
LEMMA StartIsSound ==
    ASSUME Sound, RunFirstTask
    PROVE  Sound'
<1>1. BootSound /\ TrapTyped
  BY DEF Sound, RunFirstTask
<1>2. Loaded' /\ Mapped'
  BY <1>1, StartIsLoaded
<1>3. /\ at' = "user" /\ cr3' = "task" /\ ds' = "user" /\ ring' = 3
      /\ UNCHANGED <<vars, live, procs, esp, eax, frame, saved_esp, call>> /\ boot_live' = live
      /\ stack' = Put(stack, PageOf(procs[tasks[head].process].stack) + BlocksOf(StackSize) - 1,
                      [i \in StackSlots |-> 0])
  BY DEF RunFirstTask, procVars, vars
<1>4. PICK s \in Strings :
          text' = [page \in {PageOf(b) : b \in DataRange(tasks[head].process)} |-> s]
  BY DEF RunFirstTask
<1>5. HeapSound'
  <2>1. IInv'
    BY <1>1, <1>3, NextIInv DEF BootSound, LInv, FileSoFar, FInv
  <2>. QED
    BY <1>3, <2>1 DEF HeapSound, Holding
<1>6. CpuSound'
  BY <1>3 DEF CpuSound, Entering, Serving, Commands, Copying
<1>7. CallSound'
  <2>1. TopPage' = PageOf(procs[tasks[head].process].stack) + BlocksOf(StackSize) - 1
    <3>1. Running' = tasks[head].process
      BY <1>1, StartFindsProcess
    <3>2. (TopPage = PageOf(procs[Running].stack) + BlocksOf(StackSize) - 1)'
      BY <1>2, StackTop, PTL
    <3>. QED
      BY <1>3, <3>1, <3>2
  <2>2. TopPage' \in DOMAIN stack'
    BY <1>3, <2>1 DEF Put
  <2>. QED
    BY <1>3, <2>2 DEF CallSound, Commands, Copying, Asking
<1>8. TrapTyped'
  <2>1. \A page \in DOMAIN stack' : stack'[page] \in [StackSlots -> Words \cup {0}]
    BY <1>1, <1>3 DEF Put, TrapTyped, TrapTypeOK
  <2>2. \A page \in DOMAIN text' : text'[page] \in Strings \cup {Garbage, Empty}
    BY <1>4
  <2>. QED
    BY <1>1, <1>3, <2>1, <2>2 DEF TrapTyped, TrapTypeOK
<1>9. LostOnlyIf'
  BY <1>3 DEF LostOnlyIf
<1>. QED
  BY <1>2, <1>3, <1>5, <1>6, <1>7, <1>8, <1>9 DEF Sound

(* The kernel before that.                                                 *)
LEMMA BootKeepsSound ==
    ASSUME Sound, Boot \/ Panic
    PROVE  Sound'
<1>1. at = "boot" /\ BootSound /\ TrapTyped
  BY DEF Sound, Boot, Panic
<1>2. CASE Boot
  <2>1. UNCHANGED <<at, cr3, ring, ds, esp, eax, stack, text, frame, saved_esp, call>>
    BY <1>2 DEF Boot, trapVars, cpuVars, userVars
  <2>2. BootSound'
    BY <1>1, <1>2, BootStepSound DEF Boot
  <2>3. TrapTyped'
    BY <1>1, <2>1 DEF TrapTyped, TrapTypeOK
  <2>. QED
    BY <1>1, <2>1, <2>2, <2>3 DEF Sound, LostOnlyIf, OnDuty, Entering, Serving, Commands, Copying
<1>3. CASE Panic
  <2>1. at' = "halted" /\ UNCHANGED <<cr3, ring, ds, esp, eax, stack, text, frame, saved_esp, call>>
    BY <1>3 DEF Panic, cpuVars, userVars
  <2>2. TrapTyped'
    BY <1>1, <2>1 DEF TrapTyped, TrapTypeOK
  <2>. QED
    BY <2>1, <2>2 DEF Sound, LostOnlyIf, OnDuty, Entering, Serving, Commands, Copying
<1>. QED
  BY <1>2, <1>3

-----------------------------------------------------------------------------
(* The program between traps, and the traps.                               *)

(* What the invariant says while the system runs.                          *)
LEMMA SoundOnDuty ==
    ASSUME Sound, at \in OnDuty
    PROVE  /\ Loaded /\ Mapped /\ HeapSound /\ CpuSound /\ CallSound /\ TrapTyped
           /\ StackAt("task") = TopWords /\ TopWords \in [StackSlots -> Words \cup {0}]
           /\ esp \in StackSlots /\ esp + 1 \in StackSlots
           /\ TopWords[esp] \in Nat /\ TopWords[esp + 1] \in Nat
           /\ Named \in Pages /\ PhysOf("task", Named) = NamedAt /\ NamedPage = NamedAt
           /\ PhysOf("task", StackTopPage) = TopPage
           /\ PhysOf("task", KernelStackPage) = Physical(KernelStackPage)
           /\ TopPage \in DOMAIN stack
<1>1. Loaded /\ Mapped /\ HeapSound /\ CpuSound /\ CallSound /\ TrapTyped
  BY DEF Sound
<1>2. TopPage \in DOMAIN stack
  BY <1>1 DEF CallSound
<1>. QED
  BY <1>1, <1>2, StackReads

(* The places are different.                                               *)
LEMMA PlacesDiffer ==
    /\ {"user", "leave_irq"} \cap (Entering \cup Serving) = {}
    /\ Entering \cap (Serving \cup Holding \cup Borrowing) = {}
    /\ "user" \notin Holding \cup Borrowing \cup Asking
    /\ "leave_irq" \notin Holding \cup Borrowing \cup Asking
    /\ Borrowing \subseteq Holding /\ Holding \subseteq Copying /\ Copying \subseteq Serving
    /\ Commands \cap (Copying \cup {"show", "leave_int80"}) = {}
    /\ {"show", "leave_int80"} \cap (Copying \cup Asking) = {}
    /\ "boot" \notin OnDuty /\ "lost" \notin OnDuty /\ "halted" \notin OnDuty
  BY DEF Entering, Serving, Holding, Borrowing, Asking, Copying, Commands, OnDuty

(* It writes its stack and moves its stack pointer.                        *)
LEMMA UserStackSound ==
    ASSUME Sound, UserStack
    PROVE  Sound'
<1>1. /\ at = "user" /\ at' = "user" /\ at \in OnDuty /\ esp' \in {0, 1}
      /\ UNCHANGED <<allVars, boot_live, cr3, ring, ds, eax, text, frame, saved_esp, call>>
  BY DEF UserStack, InUserLand, cpuVars, OnDuty
<1>2. Loaded' /\ Mapped' /\ HeapSound' /\ TopPage' = TopPage
  BY <1>1, SoundOnDuty, QuietStep, LeadsStay
<1>3. PICK i \in StackSlots, w \in Words : stack' = [stack EXCEPT ![TopPage][i] = w]
  <2>1. cr3 = "task"
    BY <1>1, SoundOnDuty DEF CpuSound
  <2>. QED
    BY <1>1, <2>1, SoundOnDuty DEF UserStack
<1>4. /\ DOMAIN stack' = DOMAIN stack
      /\ \A page \in DOMAIN stack' : stack'[page] \in [StackSlots -> Words \cup {0}]
  BY <1>1, <1>3, SoundOnDuty DEF TrapTyped, TrapTypeOK
<1>5. TrapTyped'
  BY <1>1, <1>4, SoundOnDuty DEF TrapTyped, TrapTypeOK
<1>6. CpuSound'
  BY <1>1, SoundOnDuty, PlacesDiffer DEF CpuSound
<1>7. CallSound'
  BY <1>1, <1>2, <1>4, SoundOnDuty, PlacesDiffer DEF CallSound, Commands, Copying
<1>8. LostOnlyIf'
  BY <1>1 DEF LostOnlyIf
<1>. QED
  BY <1>1, <1>2, <1>5, <1>6, <1>7, <1>8 DEF Sound

(* It writes its pages.                                                    *)
LEMMA UserWriteSound ==
    ASSUME Sound, UserWrite
    PROVE  Sound'
<1>1. /\ at = "user" /\ at' = "user" /\ at \in OnDuty
      /\ UNCHANGED <<allVars, boot_live, cr3, ring, ds, esp, eax, stack, frame, saved_esp, call>>
  BY DEF UserWrite, InUserLand, cpuVars, OnDuty
<1>2. Loaded' /\ Mapped' /\ HeapSound' /\ TopPage' = TopPage
  BY <1>1, SoundOnDuty, QuietStep, LeadsStay
<1>3. \A page \in DOMAIN text' : text'[page] \in Strings \cup {Garbage, Empty}
  <2>1. PICK v \in Pages, s \in Strings : text' = Put(text, PhysOf(cr3, v), s)
    BY DEF UserWrite
  <2>. QED
    BY <1>1, <2>1, SoundOnDuty DEF TrapTyped, TrapTypeOK, Put
<1>4. TrapTyped'
  BY <1>1, <1>3, SoundOnDuty DEF TrapTyped, TrapTypeOK
<1>5. CpuSound'
  BY <1>1, SoundOnDuty, PlacesDiffer DEF CpuSound
<1>6. CallSound'
  BY <1>1, <1>2, SoundOnDuty, PlacesDiffer DEF CallSound, Commands, Copying
<1>7. LostOnlyIf'
  BY <1>1 DEF LostOnlyIf
<1>. QED
  BY <1>1, <1>2, <1>4, <1>5, <1>6, <1>7 DEF Sound

(* A step that leaves the structures alone, and the program's registers,   *)
(* stack and text.                                                         *)
LEMMA TrapStep ==
    ASSUME Sound, at \in OnDuty \ Holding, at' \notin Holding,
           UNCHANGED <<allVars, boot_live, esp, stack, text>>
    PROVE  /\ Loaded' /\ Mapped' /\ HeapSound'
           /\ TopPage' = TopPage /\ TopPage' \in DOMAIN stack' /\ TopWords' = TopWords
           /\ Named' = Named /\ Summed' = Summed /\ Wished' = Wished /\ NamedAt' = NamedAt
           /\ \A v : Physical(v)' = Physical(v)
<1>1. at \notin Borrowing /\ at' \notin Borrowing
  BY PlacesDiffer
<1>2. Loaded' /\ Mapped' /\ HeapSound' /\ UNCHANGED loadedVars
  BY <1>1, SoundOnDuty, QuietStep
<1>. QED
  BY <1>2, SoundOnDuty, LeadsStay

(* A call before its command runs.                                         *)
LEMMA CallTyped ==
    ASSUME NEW c \in Commands \cup {"none"}, NEW a \in Strings \cup {Garbage, Empty}
    PROVE  [command |-> c, res |-> 0, page |-> 0, tmp |-> NULL, old |-> Entry(0, FALSE),
            buff |-> Garbage, asked |-> a] \in Calls80
<1>1. 0 \in 0 .. (WordMod - 1) /\ 0 \in Int
  BY TrapAssumption, SMT
<1>2. Entry(0, FALSE) \in [to : Int, w : BOOLEAN]
  BY DEF Entry
<1>3. NULL \in Pointers
  BY DEF Pointers
<1>4. Garbage \in Strings \cup {Garbage, Empty}
  OBVIOUS
<1>. QED
  BY <1>1, <1>2, <1>3, <1>4, Zenon DEF Calls80

(* int 0x80: what is asked for is what the pointer on the stack names.     *)
LEMMA Int80Sound ==
    ASSUME Sound, NEW command \in Commands, Int80(command)
    PROVE  Sound'
<1>1. /\ at = "user" /\ at' = "int80" /\ at \in OnDuty \ Holding /\ at' \in OnDuty \ Holding
      /\ UNCHANGED <<allVars, boot_live, cr3, ds, esp, eax, stack, text, saved_esp>>
      /\ frame' = [esp |-> esp, page |-> PhysOf(cr3, KernelStackPage)] /\ ring' = 0
  BY DEF Int80, InUserLand, PushFrame, userVars, OnDuty, Entering, Holding
<1>2. /\ Loaded' /\ Mapped' /\ HeapSound' /\ TopPage' \in DOMAIN stack'
      /\ Wished' = Wished /\ \A v : Physical(v)' = Physical(v)
  BY <1>1, TrapStep
<1>3. cr3 = "task"
  BY <1>1, SoundOnDuty DEF CpuSound
<1>4. call' = [NoCall EXCEPT !.command = command, !.asked = Wished]
  BY <1>1, SoundOnDuty DEF Int80, Wished
<1>5. Wished \in Strings \cup {Garbage, Empty}
  BY <1>1, SoundOnDuty DEF Wished, TextAt, TrapTyped, TrapTypeOK
<1>6. /\ call'.command = command /\ call'.tmp = NULL /\ call'.asked = Wished
      /\ call' \in Calls80
  <2>1. PICK a \in Strings \cup {Garbage, Empty} : a = Wished
    BY <1>5
  <2>2. call' = [command |-> command, res |-> 0, page |-> 0, tmp |-> NULL,
                 old |-> Entry(0, FALSE), buff |-> Garbage, asked |-> a]
    BY <1>4, <2>1 DEF NoCall
  <2>3. command \in Commands \cup {"none"}
    OBVIOUS
  <2>4. call' \in Calls80
    BY <2>2, <2>3, CallTyped
  <2>5. call'.command = command /\ call'.tmp = NULL /\ call'.asked = a
    BY <2>2
  <2>. QED
    BY <2>1, <2>4, <2>5
<1>7. TrapTyped'
  BY <1>1, <1>6, SoundOnDuty DEF TrapTyped, TrapTypeOK
<1>8. CpuSound'
  <2>1. frame'.page = Physical(KernelStackPage)' /\ frame'.esp = esp
    BY <1>1, <1>2, <1>3, SoundOnDuty
  <2>. QED
    BY <1>1, <1>3, <2>1 DEF CpuSound, Entering, Serving, Commands, Copying
<1>9. CallSound'
  BY <1>1, <1>2, <1>6 DEF CallSound, Commands, Copying, Asking
<1>10. LostOnlyIf'
  BY <1>1 DEF LostOnlyIf
<1>. QED
  BY <1>1, <1>2, <1>7, <1>8, <1>9, <1>10 DEF Sound

(* An interrupt, while the program runs.                                   *)
LEMMA InterruptSound ==
    ASSUME Sound, Interrupt
    PROVE  Sound'
<1>1. /\ at = "user" /\ at' \in {"keyboard", "other_irq"}
      /\ at \in OnDuty \ Holding /\ at' \in OnDuty \ Holding
      /\ UNCHANGED <<allVars, boot_live, cr3, ds, esp, eax, stack, text, saved_esp, call>>
      /\ frame' = [esp |-> esp, page |-> PhysOf(cr3, KernelStackPage)] /\ ring' = 0
  BY DEF Interrupt, InUserLand, PushFrame, userVars, OnDuty, Entering, Holding
<1>2. /\ Loaded' /\ Mapped' /\ HeapSound' /\ TopPage' \in DOMAIN stack'
      /\ \A v : Physical(v)' = Physical(v)
  BY <1>1, TrapStep
<1>3. cr3 = "task"
  BY <1>1, SoundOnDuty DEF CpuSound
<1>4. TrapTyped'
  BY <1>1, SoundOnDuty DEF TrapTyped, TrapTypeOK
<1>5. CpuSound'
  <2>1. frame'.page = Physical(KernelStackPage)' /\ frame'.esp = esp
    BY <1>1, <1>2, <1>3, SoundOnDuty
  <2>. QED
    BY <1>1, <1>3, <2>1 DEF CpuSound, Entering, Serving, Commands, Copying
<1>6. CallSound'
  BY <1>1, <1>2 DEF CallSound, Commands, Copying, Asking
<1>7. LostOnlyIf'
  BY <1>1 DEF LostOnlyIf
<1>. QED
  BY <1>1, <1>2, <1>4, <1>5, <1>6, <1>7 DEF Sound

(* The exceptions: one goes on in ring 0, the other loses the processor    *)
(* while the program's directory is loaded.                                *)
LEMMA ExceptionSound ==
    ASSUME Sound, DivideError \/ FaultWithCode
    PROVE  Sound'
<1>1. /\ at = "user" /\ at \in OnDuty \ Holding /\ ring' = 0
      /\ UNCHANGED <<allVars, boot_live, cr3, ds, esp, eax, stack, text, frame, saved_esp, call>>
      /\ at' \in {"user", "lost"}
  BY DEF DivideError, FaultWithCode, InUserLand, userVars, OnDuty, Holding
<1>2. TrapTyped'
  BY <1>1, SoundOnDuty DEF TrapTyped, TrapTypeOK
<1>3. cr3 = "task" /\ ds = "user"
  BY <1>1, SoundOnDuty DEF CpuSound
<1>4. LostOnlyIf'
  BY <1>1, <1>3 DEF LostOnlyIf
<1>5. CASE at' = "lost"
  BY <1>2, <1>4, <1>5, PlacesDiffer DEF Sound
<1>6. CASE at' = "user"
  <2>1. at' \notin Holding /\ at' \in OnDuty
    BY <1>1, <1>6
  <2>2. Loaded' /\ Mapped' /\ HeapSound' /\ TopPage' \in DOMAIN stack'
    BY <1>1, <2>1, TrapStep
  <2>3. CpuSound'
    BY <1>1, <1>3, <1>6, PlacesDiffer DEF CpuSound
  <2>4. CallSound'
    BY <1>6, <2>2, PlacesDiffer DEF CallSound, Commands, Copying
  <2>. QED
    BY <1>2, <1>4, <1>6, <2>2, <2>3, <2>4 DEF Sound
<1>. QED
  BY <1>1, <1>5, <1>6

(* A frame that is not where the kernel reads it is on a page of the       *)
(* program.                                                                *)
LEMMA LoseFrameSound ==
    ASSUME Sound, LoseFrame
    PROVE  Sound'
<1>1. /\ at \in Entering /\ at \in OnDuty /\ at' = "lost" /\ frame.page # KernelStackPage
      /\ cr3' = "kernel" /\ ds' = "kernel"
      /\ UNCHANGED <<allVars, ring, esp, eax, stack, text, frame, saved_esp, call>>
  BY DEF LoseFrame, FrameThere, KernelPage, userVars, OnDuty, Entering
<1>2. TrapTyped'
  BY <1>1, SoundOnDuty DEF TrapTyped, TrapTypeOK
<1>3. InProgram(Running, KernelStackPage)
  <2>1. Physical(KernelStackPage) # KernelStackPage
    BY <1>1, SoundOnDuty DEF CpuSound
  <2>2. ~InStack(KernelStackPage)
    <3>1. KernelStackPage \in Int /\ ProgramPage <= KernelStackPage
      BY TrapAssumption, PageIndexes
    <3>2. ~(KernelStackPage < StackPage + BlocksOf(StackSize))
      BY <1>1, <3>1, SoundOnDuty, PagesInOrder, SMT
    <3>. QED
      BY <3>2 DEF InStack
  <2>. QED
    BY <2>1, <2>2 DEF Physical, UserEntry, Entry
<1>4. KernelStackPage - ProgramPage \in 0 .. (BlocksOf(procs[Running].size) - 1)
  <2>1. KernelStackPage \in Int
    BY TrapAssumption, PageIndexes
  <2>2. ProgramPage \in Nat /\ BlocksOf(procs[Running].size) \in Nat
    BY <1>1, SoundOnDuty, PagesInOrder DEF ProgramBlocks
  <2>. QED
    BY <1>3, <2>1, <2>2, SMT DEF InProgram
<1>5. UNCHANGED <<procs, tasks, current>>
  BY <1>1 DEF allVars, listVars, procVars
<1>6. LostOnlyIf'
  BY <1>4, <1>5 DEF LostOnlyIf, Running
<1>. QED
  BY <1>1, <1>2, <1>6, PlacesDiffer DEF Sound

-----------------------------------------------------------------------------
(* The commands.                                                           *)

(* Setting the result of a command.                                        *)
LEMMA ResultTyped ==
    ASSUME call \in Calls80, NEW r \in 0 .. (WordMod - 1), call' = [call EXCEPT !.res = r]
    PROVE  /\ call' \in Calls80 /\ call'.res = r
           /\ call'.command = call.command /\ call'.tmp = call.tmp /\ call'.asked = call.asked
  BY DEF Calls80

(* int80h, up to the command.                                              *)
LEMMA EnterInt80Sound ==
    ASSUME Sound, EnterInt80
    PROVE  Sound'
<1>1. /\ at = "int80" /\ at \in OnDuty \ Holding /\ at' = call.command
      /\ cr3' = "kernel" /\ ds' = "kernel" /\ saved_esp' = frame.esp
      /\ UNCHANGED <<allVars, boot_live, ring, esp, eax, stack, text, frame, call>>
  BY DEF EnterInt80, KernelPage, userVars, OnDuty, Entering, Holding
<1>2. at' \in Commands
  BY <1>1, SoundOnDuty DEF CallSound
<1>3. at' \in Serving /\ at' \notin Holding /\ at' \in OnDuty
  BY <1>2, PlacesDiffer DEF Serving, OnDuty, Commands, Holding
<1>4. /\ Loaded' /\ Mapped' /\ HeapSound' /\ TopPage' \in DOMAIN stack' /\ Wished' = Wished
  BY <1>1, <1>3, TrapStep
<1>5. frame.esp = esp
  BY <1>1, SoundOnDuty DEF CpuSound
<1>6. TrapTyped'
  BY <1>1, <1>2, SoundOnDuty DEF TrapTyped, TrapTypeOK
<1>7. CpuSound'
  BY <1>1, <1>2, <1>3, <1>5 DEF CpuSound, Entering, Serving, Commands
<1>8. CallSound'
  <2>1. call.tmp = NULL /\ call.asked = Wished
    BY <1>1, SoundOnDuty DEF CallSound, Asking
  <2>. QED
    BY <1>1, <1>2, <1>4, <2>1 DEF CallSound, Commands, Copying
<1>9. LostOnlyIf'
  BY <1>2 DEF LostOnlyIf, Commands
<1>. QED
  BY <1>2, <1>4, <1>6, <1>7, <1>8, <1>9 DEF Sound, Commands

(* A command other than print returns its result.                          *)
LEMMA ComputeSound ==
    ASSUME Sound, Unknown \/ Sum
    PROVE  Sound'
<1>1. /\ at \in {"unknown", "sum"} /\ at \in Commands /\ at \in OnDuty \ Holding
      /\ at' = "leave_int80" /\ at' \notin Holding
      /\ UNCHANGED <<allVars, boot_live, cr3, ring, ds, esp, eax, stack, text, frame, saved_esp>>
  BY DEF Unknown, Sum, userVars, cpuVars, OnDuty, Serving, Commands, Holding
<1>2. /\ Loaded' /\ Mapped' /\ HeapSound' /\ TopPage' \in DOMAIN stack' /\ Summed' = Summed
  BY <1>1, TrapStep
<1>3. /\ cr3 = "kernel" /\ frame.esp = esp /\ saved_esp = esp /\ call.command = at
      /\ call \in Calls80
  BY <1>1, SoundOnDuty DEF CpuSound, CallSound, Serving, Commands, TrapTyped
<1>4. Summed \in 0 .. (WordMod - 1) /\ 0 \in 0 .. (WordMod - 1)
  <2>1. PICK a, b : a = TopWords[esp] /\ b = TopWords[esp + 1]
    OBVIOUS
  <2>2. a \in Nat /\ b \in Nat
    BY <1>1, <2>1, SoundOnDuty
  <2>3. WordMod \in Nat /\ WordMod > 0
    BY TrapAssumption
  <2>4. (a + b) % WordMod \in 0 .. (WordMod - 1) /\ 0 \in 0 .. (WordMod - 1)
    BY <2>2, <2>3, SMT
  <2>. QED
    BY <2>1, <2>4 DEF Summed
<1>5. \E r \in 0 .. (WordMod - 1) : /\ call' = [call EXCEPT !.res = r]
                                    /\ at = "sum" => r = Summed
  <2>1. CASE Unknown
    BY <1>4, <2>1 DEF Unknown
  <2>2. CASE Sum
    <3>1. StackItem(1) = TopWords[esp + 1] /\ StackItem(0) = TopWords[esp]
      <4>1. esp + 0 = esp
        BY <1>1, SoundOnDuty DEF StackSlots
      <4>. QED
        BY <1>1, <1>3, <4>1, SoundOnDuty DEF StackItem
    <3>2. StackItem(1) + StackItem(0) = TopWords[esp] + TopWords[esp + 1]
      BY <1>1, <3>1, SoundOnDuty
    <3>3. call' = [call EXCEPT !.res = Summed]
      BY <2>2, <3>2 DEF Sum, Summed
    <3>. QED
      BY <1>4, <3>3
  <2>. QED
    BY <2>1, <2>2
<1>6. /\ call' \in Calls80 /\ call'.command = call.command
      /\ at = "sum" => call'.res = Summed
  BY <1>3, <1>5, ResultTyped
<1>7. TrapTyped'
  BY <1>1, <1>6, SoundOnDuty DEF TrapTyped, TrapTypeOK
<1>8. CpuSound'
  BY <1>1, <1>3 DEF CpuSound, Entering, Serving, Commands
<1>9. CallSound'
  BY <1>1, <1>2, <1>3, <1>6 DEF CallSound, Commands, Copying, Asking
<1>10. LostOnlyIf'
  BY <1>1 DEF LostOnlyIf
<1>. QED
  BY <1>1, <1>2, <1>7, <1>8, <1>9, <1>10 DEF Sound

(* isr80h_command1_print reads its argument.                               *)
LEMMA PrintStringSound ==
    ASSUME Sound, PrintString
    PROVE  Sound'
<1>1. /\ at = "print" /\ at \in OnDuty \ Holding /\ at' = "copy" /\ at' \notin Holding
      /\ UNCHANGED <<allVars, boot_live, cr3, ring, ds, esp, eax, stack, text, frame, saved_esp>>
      /\ call' = [call EXCEPT !.page = ProgramPage + StackItem(0)]
  BY DEF PrintString, userVars, cpuVars, OnDuty, Serving, Commands, Holding
<1>2. /\ Loaded' /\ Mapped' /\ HeapSound' /\ TopPage' \in DOMAIN stack'
      /\ Named' = Named /\ Wished' = Wished
  BY <1>1, TrapStep
<1>3. /\ cr3 = "kernel" /\ frame.esp = esp /\ saved_esp = esp /\ call.command = "print"
      /\ call.tmp = NULL /\ call.asked = Wished /\ call \in Calls80
  BY <1>1, SoundOnDuty DEF CpuSound, CallSound, Serving, Commands, Asking, TrapTyped
<1>4. PICK n : n = Named /\ n \in Int
  BY <1>1, SoundOnDuty, EntriesTyped
<1>5. ProgramPage + StackItem(0) = n
  <2>1. esp + 0 = esp
    BY <1>1, SoundOnDuty DEF StackSlots
  <2>. QED
    BY <1>1, <1>3, <1>4, <2>1, SoundOnDuty DEF StackItem, Named
<1>6. /\ call' \in Calls80 /\ call'.page = n /\ call'.command = "print"
      /\ call'.tmp = NULL /\ call'.asked = Wished
  <2>1. call' = [call EXCEPT !.page = n]
    BY <1>1, <1>5
  <2>. QED
    BY <1>3, <1>4, <2>1 DEF Calls80
<1>7. TrapTyped'
  BY <1>1, <1>6, SoundOnDuty DEF TrapTyped, TrapTypeOK
<1>8. CpuSound'
  BY <1>1, <1>3 DEF CpuSound, Entering, Serving, Commands
<1>9. CallSound'
  BY <1>1, <1>2, <1>4, <1>6 DEF CallSound, Commands, Copying
<1>10. LostOnlyIf'
  BY <1>1 DEF LostOnlyIf
<1>. QED
  BY <1>1, <1>2, <1>7, <1>8, <1>9, <1>10 DEF Sound, OnDuty, Serving, Copying

(* What is shown is what was asked for, or an unwritten buffer.            *)
LEMMA ShowSound ==
    ASSUME Sound, Show
    PROVE  Sound'
<1>1. /\ at = "show" /\ at \in OnDuty \ Holding /\ at' = "leave_int80" /\ at' \notin Holding
      /\ UNCHANGED <<allVars, boot_live, cr3, ring, ds, esp, eax, stack, text, frame, saved_esp>>
      /\ call' = [call EXCEPT !.res = 0]
  BY DEF Show, userVars, cpuVars, OnDuty, Serving, Holding
<1>2. /\ Loaded' /\ Mapped' /\ HeapSound' /\ TopPage' \in DOMAIN stack'
  BY <1>1, TrapStep
<1>3. /\ cr3 = "kernel" /\ frame.esp = esp /\ saved_esp = esp /\ call.command = "print"
      /\ call \in Calls80
  BY <1>1, SoundOnDuty DEF CpuSound, CallSound, Serving, TrapTyped
<1>4. call' \in Calls80 /\ call'.command = "print"
  <2>1. 0 \in 0 .. (WordMod - 1)
    BY TrapAssumption, SMT
  <2>. QED
    BY <1>1, <1>3, <2>1, ResultTyped
<1>5. TrapTyped'
  BY <1>1, <1>4, SoundOnDuty DEF TrapTyped, TrapTypeOK
<1>6. CpuSound'
  BY <1>1, <1>3 DEF CpuSound, Entering, Serving, Commands
<1>7. CallSound'
  BY <1>1, <1>2, <1>4 DEF CallSound, Commands, Copying, Asking
<1>8. LostOnlyIf'
  BY <1>1 DEF LostOnlyIf
<1>. QED
  BY <1>1, <1>2, <1>5, <1>6, <1>7, <1>8 DEF Sound

(* The handlers of interrupts keep the frame and let the directory be      *)
(* either one.                                                             *)
LEMMA InterruptHandlersSound ==
    ASSUME Sound, Keyboard \/ OtherInterrupt
    PROVE  Sound'
<1>1. /\ at \in {"keyboard", "other_irq"} /\ at \in OnDuty \ Holding
      /\ at' = "leave_irq" /\ at' \notin Holding
      /\ cr3' \in {"kernel", "task"} /\ ds' \in {"kernel", "user"}
      /\ saved_esp' \in {saved_esp, frame.esp}
      /\ UNCHANGED <<allVars, boot_live, ring, esp, eax, stack, text, frame, call>>
  BY DEF Keyboard, OtherInterrupt, KernelPage, userVars, OnDuty, Entering, Holding
<1>2. /\ Loaded' /\ Mapped' /\ HeapSound' /\ TopPage' \in DOMAIN stack'
  BY <1>1, TrapStep
<1>3. TrapTyped'
  BY <1>1, SoundOnDuty DEF TrapTyped, TrapTypeOK
<1>4. CpuSound'
  BY <1>1 DEF CpuSound, Entering, Serving, Commands, Copying
<1>5. CallSound'
  BY <1>1, <1>2 DEF CallSound, Commands, Copying, Asking
<1>6. LostOnlyIf'
  BY <1>1 DEF LostOnlyIf
<1>. QED
  BY <1>1, <1>2, <1>3, <1>4, <1>5, <1>6 DEF Sound

(* task_page and iret: the program goes on under its own directory.        *)
LEMMA LeaveSound ==
    ASSUME Sound, LeaveIrq \/ LeaveInt80
    PROVE  Sound'
<1>1. /\ at \in {"leave_irq", "leave_int80"} /\ at \in OnDuty \ Holding
      /\ at' = "user" /\ at' \notin Holding
      /\ cr3' = "task" /\ ds' = "user" /\ ring' = 3 /\ esp' = frame.esp
      /\ UNCHANGED <<allVars, boot_live, stack, text, frame, saved_esp>>
      /\ \/ UNCHANGED <<eax, call>>
         \/ eax' = call.res /\ call' = NoCall
  BY DEF LeaveIrq, LeaveInt80, Leave, OnDuty, Serving, Holding
<1>2. /\ Loaded' /\ Mapped' /\ HeapSound' /\ UNCHANGED loadedVars
  BY <1>1, SoundOnDuty, QuietStep, PlacesDiffer
<1>3. TopPage' \in DOMAIN stack'
  BY <1>1, <1>2, SoundOnDuty, LeadsStay
<1>4. call \in Calls80 /\ NoCall \in Calls80
  <2>3. NoCall \in Calls80
    BY CallTyped DEF NoCall
  <2>. QED
    BY <1>1, <2>3, SoundOnDuty DEF TrapTyped
<1>5. TrapTyped'
  <2>1. call' \in Calls80 /\ eax' \in 0 .. (WordMod - 1)
    <3>1. call.res \in 0 .. (WordMod - 1)
      BY <1>4 DEF Calls80
    <3>2. eax \in 0 .. (WordMod - 1)
      BY <1>1, SoundOnDuty DEF TrapTyped, TrapTypeOK
    <3>. QED
      BY <1>1, <1>4, <3>1, <3>2
  <2>. QED
    BY <1>1, <2>1, SoundOnDuty DEF TrapTyped, TrapTypeOK
<1>6. CpuSound'
  BY <1>1, PlacesDiffer DEF CpuSound
<1>7. CallSound'
  BY <1>1, <1>3 DEF CallSound, Commands, Copying, Asking
<1>8. LostOnlyIf'
  BY <1>1 DEF LostOnlyIf
<1>. QED
  BY <1>1, <1>2, <1>5, <1>6, <1>7, <1>8 DEF Sound

-----------------------------------------------------------------------------
(* copy_string_from_task.                                                  *)

(* The indexes of a page name an entry of a table of the program.          *)
LEMMA UserIndexes ==
    ASSUME Loaded, NEW v \in Pages
    PROVE  /\ TableOf(Directory, v) \in DOMAIN tabs
           /\ TabIndex(v) \in DOMAIN tabs[TableOf(Directory, v)]
           /\ \A u \in Pages : /\ TableOf(Directory, u) = TableOf(Directory, v)
                               /\ TabIndex(u) = TabIndex(v)
                               => u = v
<1>1. DirIndex(v) \in 0 .. (Tables - 1) /\ TabIndex(v) \in 0 .. (PagesPerTable - 1)
  BY PageIndexes
<1>2. /\ TableOf(Directory, v) \in DOMAIN tabs
      /\ TabIndex(v) \in DOMAIN tabs[TableOf(Directory, v)]
  BY <1>1 DEF Loaded, TableAt, TableOf
<1>3. ASSUME NEW u \in Pages, TableOf(Directory, u) = TableOf(Directory, v),
             TabIndex(u) = TabIndex(v)
      PROVE  u = v
  <2>1. DirIndex(u) \in 0 .. (Tables - 1)
    BY PageIndexes
  <2>2. DirIndex(u) = DirIndex(v)
    BY <1>1, <1>3, <2>1 DEF Loaded, TableAt, TableOf
  <2>. QED
    BY <1>3, <2>2, PagesDiffer
<1>. QED
  BY <1>2, <1>3

(* paging_map of one page to itself.                                       *)
LEMMA MapOne ==
    ASSUME Loaded, NEW v \in Pages, NEW u \in Pages
    PROVE  MapTo(Directory, v, v, 1)[TableOf(Directory, u)][TabIndex(u)] =
             IF u = v THEN Entry(v, TRUE) ELSE PagingGet(Directory, u)
<1>1. PICK d, t, j : d = Directory /\ t = TableOf(d, u) /\ j = TabIndex(u)
  OBVIOUS
<1>2. t \in DOMAIN tabs /\ j \in DOMAIN tabs[t]
  BY <1>1, UserIndexes
<1>3. u \in Int /\ v \in Int
  BY PageIndexes
<1>4. {w \in Pages : v <= w /\ w < v + 1} = {v}
  <2>1. ASSUME NEW w \in Pages PROVE v <= w /\ w < v + 1 <=> w = v
    <3>1. w \in Int
      BY PageIndexes
    <3>. QED
      BY <1>3, <3>1, SMT
  <2>. QED
    BY <2>1
<1>5. MapTo(d, v, v, 1)[t][j] =
        IF \E w \in {v} : TableOf(d, w) = t /\ TabIndex(w) = j
        THEN Entry(v + (CHOOSE w \in {v} : TableOf(d, w) = t /\ TabIndex(w) = j) - v, TRUE)
        ELSE tabs[t][j]
  BY <1>2, <1>4 DEF MapTo
<1>6. CASE u = v
  <2>1. (CHOOSE w \in {v} : TableOf(d, w) = t /\ TabIndex(w) = j) = v
    BY <1>1, <1>6
  <2>2. v + v - v = v
    BY <1>3, SMT
  <2>. QED
    BY <1>1, <1>5, <1>6, <2>1, <2>2
<1>7. CASE u # v
  <2>1. ~(TableOf(d, v) = t /\ TabIndex(v) = j)
    BY <1>1, <1>7, UserIndexes
  <2>. QED
    BY <1>1, <1>5, <1>7, <2>1 DEF PagingGet
<1>. QED
  BY <1>6, <1>7

(* A step that leaves the tables alone, whatever it does to the heap.      *)
LEMMA TablesStay ==
    ASSUME Loaded, Mapped, UNCHANGED <<loadedVars, tabs>>,
           at \notin Borrowing, at' \notin Borrowing
    PROVE  Loaded' /\ Mapped'
<1>1. UNCHANGED <<loadedVars, tabs, dirs>>
  BY DEF loadedVars
<1>2. Loaded'
  BY <1>1, LoadedStays
<1>3. \A v : PagingGet(Directory, v)' = PagingGet(Directory, v) /\ UserEntry(v)' = UserEntry(v)
  BY <1>1, LeadsStay DEF PagingGet, TableOf
<1>4. \A v \in Pages : PagingGet(Directory, v)' = UserEntry(v)'
  BY <1>3 DEF Mapped
<1>. QED
  BY <1>2, <1>4 DEF Mapped

(* What the copying steps have in common.                                  *)
LEMMA CopyingOnDuty ==
    ASSUME Sound, at \in Copying
    PROVE  /\ at \in OnDuty /\ at \in Serving
           /\ frame.esp = esp /\ saved_esp = esp /\ call.command = "print" /\ call \in Calls80
           /\ cr3 = IF at = "copy_read" THEN "task" ELSE "kernel"
           /\ at \in Holding => call.tmp \in Blocks
<1>1. at \in OnDuty /\ at \in Serving
  BY DEF OnDuty, Serving
<1>. QED
  BY <1>1, SoundOnDuty DEF CpuSound, CallSound, TrapTyped, HeapSound

(* kzalloc of the buffer.                                                  *)
LEMMA CopyAllocSound ==
    ASSUME Sound, CopyAlloc
    PROVE  Sound'
<1>1. /\ at = "copy" /\ at \in OnDuty /\ at \in Copying
      /\ UNCHANGED <<tabs, cr3, ring, ds, esp, eax, stack, frame, saved_esp>>
      /\ UNCHANGED loadedVars /\ boot_live' = boot_live
      /\ KZalloc(TmpSize) /\ at' \in {"show", "copy_map"}
  BY DEF CopyAlloc, pagingVars, loadVars, cpuVars, userVars, loadedVars, OnDuty, Serving, Copying
<1>2. /\ at \notin Holding \cup Borrowing /\ at' \notin Borrowing
      /\ at' \in OnDuty /\ at' \in Serving
  BY <1>1 DEF Holding, Borrowing, OnDuty, Serving, Copying
<1>3. Loaded' /\ Mapped'
  BY <1>1, <1>2, SoundOnDuty, TablesStay
<1>4. /\ TopPage' \in DOMAIN stack' /\ Named' = Named /\ NamedAt' = NamedAt
  BY <1>1, SoundOnDuty, LeadsStay
<1>5. /\ frame.esp = esp /\ saved_esp = esp /\ call.command = "print" /\ call \in Calls80
      /\ cr3 = "kernel"
  BY <1>1, CopyingOnDuty
<1>6. call.tmp = NULL /\ call.asked = Wished /\ call.page = Named
  BY <1>1, SoundOnDuty DEF CallSound, Asking
<1>7. live = boot_live /\ IInv /\ boot_live \in [Blocks -> Nat]
  BY <1>1, <1>2, SoundOnDuty DEF HeapSound, IInv, TypeOK
<1>8. /\ IInv' /\ ret' \in Pointers
      /\ ret' = NULL => entries' = entries /\ live' = live /\ Full
      /\ ret' # NULL => /\ ret' \in Blocks /\ live[ret'] = 0
                        /\ live' = [live EXCEPT ![ret'] = 1]
  BY <1>1, <1>7, Granted, TrapAssumption
<1>9. /\ ret' = NULL => at' = "show" /\ call' = call /\ text' = text
      /\ ret' # NULL => /\ at' = "copy_map" /\ call' = [call EXCEPT !.tmp = ret']
                        /\ text' = Put(text, PageOf(ret'), Empty)
  BY DEF CopyAlloc
<1>10. /\ call' \in Calls80 /\ call'.command = "print" /\ call'.tmp = ret'
       /\ call'.asked = call.asked /\ call'.page = call.page
  BY <1>5, <1>6, <1>8, <1>9 DEF Calls80
<1>11. HeapSound'
  <2>1. CASE ret' = NULL
    BY <1>1, <1>7, <1>8, <1>9, <2>1 DEF HeapSound, Holding
  <2>2. CASE ret' # NULL
    BY <1>1, <1>7, <1>8, <1>9, <1>10, <2>2 DEF HeapSound, Holding
  <2>. QED
    BY <2>1, <2>2
<1>12. TrapTyped'
  <2>1. \A page \in DOMAIN text' : text'[page] \in Strings \cup {Garbage, Empty}
    BY <1>1, <1>9, SoundOnDuty DEF Put, TrapTyped, TrapTypeOK
  <2>. QED
    BY <1>1, <1>10, <2>1, SoundOnDuty DEF TrapTyped, TrapTypeOK
<1>13. CpuSound'
  BY <1>1, <1>5 DEF CpuSound, Entering, Serving, Commands
<1>14. CallSound'
  <2>1. CASE ret' = NULL
    <3>1. Full'
      BY <1>8, <2>1 DEF Full, Free, Blocks
    <3>. QED
      BY <1>4, <1>9, <1>10, <2>1, <3>1 DEF CallSound, Commands, Copying, Asking
  <2>2. CASE ret' # NULL
    <3>1. PICK b : b = ret'
      OBVIOUS
    <3>2. text' = Put(text, PageOf(b), Empty) /\ call'.tmp = b /\ PageOf(call'.tmp) = PageOf(b)
      BY <1>9, <1>10, <2>2, <3>1
    <3>3. Wished' = IF NamedAt = PageOf(b) THEN Empty ELSE Wished
      <4>1. Wished' = IF NamedAt \in DOMAIN text' THEN text'[NamedAt] ELSE Garbage
        BY <1>4 DEF Wished, TextAt
      <4>. QED
        BY <3>2, <4>1 DEF Put, Wished, TextAt
    <3>4. PageOf(call.tmp)' = PageOf(b)
      BY <3>2 DEF PageOf
    <3>5. Wished' = Awaited'
      BY <1>4, <1>6, <1>10, <3>3, <3>4 DEF Awaited
    <3>. QED
      BY <1>4, <1>6, <1>9, <1>10, <2>2, <3>5 DEF CallSound, Commands, Copying, Asking
  <2>. QED
    BY <2>1, <2>2
<1>15. LostOnlyIf'
  BY <1>1 DEF LostOnlyIf
<1>. QED
  BY <1>1, <1>2, <1>3, <1>11, <1>12, <1>13, <1>14, <1>15 DEF Sound

(* paging_map of the buffer into the program's directory, which is loaded. *)
LEMMA CopyMapSound ==
    ASSUME Sound, CopyMap
    PROVE  Sound'
<1>1. /\ at = "copy_map" /\ at \in OnDuty /\ at \in Copying /\ at \in Holding /\ at \notin Borrowing
      /\ at' = "copy_read" /\ at' \in OnDuty /\ at' \in Borrowing /\ at' \in Holding
      /\ UNCHANGED <<vars, live, ring, ds, esp, eax, stack, text, frame, saved_esp>>
      /\ UNCHANGED loadedVars /\ boot_live' = boot_live /\ cr3' = "task"
      /\ UNCHANGED <<dirs, chunks, procs, tasks, current>>
  BY DEF CopyMap, vars, listVars, procVars, loadVars, userVars, loadedVars, OnDuty, Serving,
         Copying, Holding, Borrowing
<1>2. PICK b \in Blocks : b = call.tmp
  BY <1>1, CopyingOnDuty
<1>3. PICK v \in Pages : v = PageOf(b) /\ UserEntry(v) = Entry(v, FALSE)
  BY <1>1, SoundOnDuty, HeapIsItself
<1>4. /\ frame.esp = esp /\ saved_esp = esp /\ call.command = "print" /\ call \in Calls80
  BY <1>1, CopyingOnDuty
<1>5. Wished = Awaited /\ call.page = Named
  BY <1>1, SoundOnDuty DEF CallSound
<1>6. \A u \in Pages : PagingGet(Directory, u) = UserEntry(u)
  BY <1>1, SoundOnDuty DEF Mapped
<1>7. call' = [call EXCEPT !.old = Entry(v, FALSE)] /\ tabs' = MapTo(Directory, v, v, 1)
  BY <1>2, <1>3, <1>6 DEF CopyMap
<1>8. /\ call' \in Calls80 /\ call'.command = "print" /\ call'.tmp = b
      /\ call'.asked = call.asked /\ call'.page = call.page /\ call'.old = Entry(v, FALSE)
  <2>1. Entry(v, FALSE) \in [to : Int, w : BOOLEAN]
    BY PageIndexes DEF Entry
  <2>. QED
    BY <1>2, <1>4, <1>7, <2>1 DEF Calls80
<1>9. DOMAIN tabs' = DOMAIN tabs /\ \A t \in DOMAIN tabs : DOMAIN tabs'[t] = DOMAIN tabs[t]
  BY <1>7, MapKeepsTables
<1>10. Loaded'
  BY <1>1, <1>9, SoundOnDuty, LoadedStays
<1>11. /\ TopPage' \in DOMAIN stack' /\ Named' = Named /\ Wished' = Wished /\ NamedAt' = NamedAt
       /\ \A u : UserEntry(u)' = UserEntry(u)
  BY <1>1, SoundOnDuty, LeadsStay
<1>12. Mapped'
  <2>1. \A u \in Pages : PagingGet(Directory, u)' = IF u = v THEN Entry(v, TRUE)
                                                   ELSE PagingGet(Directory, u)
    <3>. SUFFICES ASSUME NEW u \in Pages
                  PROVE  PagingGet(Directory, u)' = IF u = v THEN Entry(v, TRUE)
                                                    ELSE PagingGet(Directory, u)
      OBVIOUS
    <3>1. PagingGet(Directory, u)' = tabs'[TableOf(Directory, u)][TabIndex(u)]
      BY <1>1 DEF PagingGet, TableOf, Directory
    <3>. QED
      BY <1>1, <1>7, <3>1, SoundOnDuty, MapOne
  <2>2. PageOf(call'.tmp) = v
    BY <1>3, <1>8
  <2>3. \A u \in Pages : PagingGet(Directory, u)' = IF u = v THEN Entry(u, TRUE)
                                                   ELSE UserEntry(u)'
    BY <1>6, <1>11, <2>1
  <2>. QED
    BY <1>1, <1>8, <2>2, <2>3 DEF Mapped
<1>13. HeapSound'
  <2>1. IInv'
    BY <1>1, SoundOnDuty, NextIInv DEF HeapSound
  <2>. QED
    BY <1>1, <1>2, <1>8, <2>1, SoundOnDuty DEF HeapSound
<1>14. TrapTyped'
  BY <1>1, <1>8, SoundOnDuty DEF TrapTyped, TrapTypeOK
<1>15. CpuSound'
  BY <1>1, <1>4 DEF CpuSound, Entering, Serving, Commands
<1>16. CallSound'
  <2>1. Awaited' = Awaited
    BY <1>2, <1>8, <1>11 DEF Awaited, PageOf
  <2>. QED
    BY <1>1, <1>5, <1>8, <1>11, <2>1 DEF CallSound, Commands, Copying, Asking
<1>17. LostOnlyIf'
  BY <1>1 DEF LostOnlyIf
<1>. QED
  BY <1>1, <1>10, <1>12, <1>13, <1>14, <1>15, <1>16, <1>17, PlacesDiffer DEF Sound

(* strncpy under the program's directory: both the string and the buffer   *)
(* are where the kernel takes them to be.                                  *)
LEMMA CopyReadSound ==
    ASSUME Sound, CopyRead
    PROVE  Sound'
<1>1. /\ at = "copy_read" /\ at \in OnDuty /\ at \in Copying /\ at \in Holding /\ at \in Borrowing
      /\ at' = "copy_restore" /\ at' \in OnDuty /\ at' \in Borrowing /\ at' \in Holding
      /\ UNCHANGED <<allVars, ring, esp, eax, stack, frame, saved_esp, call, boot_live>>
      /\ cr3' = "kernel" /\ ds' = "kernel"
  BY DEF CopyRead, KernelPage, OnDuty, Serving, Copying, Holding, Borrowing
<1>2. PICK b \in Blocks : b = call.tmp
  BY <1>1, CopyingOnDuty
<1>3. frame.esp = esp /\ saved_esp = esp /\ call.command = "print" /\ cr3 = "task"
  BY <1>1, CopyingOnDuty
<1>4. Wished = Awaited /\ call.page = Named
  BY <1>1, SoundOnDuty DEF CallSound
<1>5. PhysOf("task", PageOf(b)) = PageOf(b)
  BY <1>1, <1>2, SoundOnDuty, HeapIsItself, AddressesLead
<1>6. text' = Put(text, PageOf(b), Awaited)
  BY <1>1, <1>2, <1>3, <1>4, <1>5, SoundOnDuty DEF CopyRead, Wished
<1>7. TextAt(PageOf(b))' = Awaited
  <2>1. TextAt(PageOf(b))' = IF PageOf(b) \in DOMAIN text' THEN text'[PageOf(b)] ELSE Garbage
    BY DEF TextAt, PageOf
  <2>. QED
    BY <1>6, <2>1 DEF Put
<1>8. Loaded' /\ Mapped' /\ HeapSound' /\ UNCHANGED loadedVars
  BY <1>1, SoundOnDuty, QuietStep
<1>9. TopPage' \in DOMAIN stack' /\ NamedAt' = NamedAt
  BY <1>1, <1>8, SoundOnDuty, LeadsStay
<1>10. TrapTyped'
  <2>1. Awaited \in Strings \cup {Garbage, Empty}
    BY <1>1, SoundOnDuty DEF TrapTyped, Calls80, Awaited
  <2>2. \A page \in DOMAIN text' : text'[page] \in Strings \cup {Garbage, Empty}
    BY <1>1, <1>6, <2>1, SoundOnDuty DEF Put, TrapTyped, TrapTypeOK
  <2>. QED
    BY <1>1, <2>2, SoundOnDuty DEF TrapTyped, TrapTypeOK
<1>11. CpuSound'
  BY <1>1, <1>3 DEF CpuSound, Entering, Serving, Commands
<1>12. CallSound'
  <2>1. TextAt(PageOf(call.tmp))' = Awaited'
    <3>0. Awaited' = Awaited
      BY <1>1, <1>9 DEF Awaited, PageOf
    <3>1. TextAt(PageOf(call.tmp))' =
            IF PageOf(b) \in DOMAIN text' THEN text'[PageOf(b)] ELSE Garbage
      BY <1>1, <1>2 DEF TextAt, PageOf
    <3>. QED
      BY <1>1, <1>7, <3>0, <3>1 DEF TextAt, PageOf
  <2>. QED
    BY <1>1, <1>3, <1>9, <2>1 DEF CallSound, Commands, Copying, Asking
<1>13. LostOnlyIf'
  BY <1>1 DEF LostOnlyIf
<1>. QED
  BY <1>1, <1>8, <1>10, <1>11, <1>12, <1>13, PlacesDiffer DEF Sound

(* paging_set puts the entry back that was there.                          *)
LEMMA CopyRestoreSound ==
    ASSUME Sound, CopyRestore
    PROVE  Sound'
<1>1. /\ at = "copy_restore" /\ at \in OnDuty /\ at \in Copying
      /\ at \in Holding /\ at \in Borrowing
      /\ at' = "copy_free" /\ at' \in OnDuty /\ at' \notin Borrowing /\ at' \in Holding
      /\ UNCHANGED <<vars, live, cr3, ring, ds, esp, eax, stack, text, frame, saved_esp>>
      /\ UNCHANGED loadedVars /\ boot_live' = boot_live
      /\ UNCHANGED <<dirs, chunks, procs, tasks, current>>
  BY DEF CopyRestore, vars, listVars, procVars, loadVars, cpuVars, userVars, loadedVars, OnDuty,
         Serving, Copying, Holding, Borrowing
<1>2. PICK b \in Blocks : b = call.tmp
  BY <1>1, CopyingOnDuty
<1>3. PICK v \in Pages : v = PageOf(b) /\ UserEntry(v) = Entry(v, FALSE)
  BY <1>1, SoundOnDuty, HeapIsItself
<1>4. /\ frame.esp = esp /\ saved_esp = esp /\ call.command = "print" /\ call \in Calls80
      /\ cr3 = "kernel"
  BY <1>1, CopyingOnDuty
<1>5. TextAt(v) = Awaited
  BY <1>1, <1>2, <1>3, SoundOnDuty DEF CallSound
<1>6. /\ call.old = UserEntry(v)
      /\ \A u \in Pages : u # v => PagingGet(Directory, u) = UserEntry(u)
  BY <1>1, <1>2, <1>3, SoundOnDuty DEF Mapped
<1>7. PICK t, j : t = TableOf(Directory, v) /\ j = TabIndex(v)
  OBVIOUS
<1>8. tabs' = [tabs EXCEPT ![t][j] = UserEntry(v)]
  BY <1>2, <1>3, <1>6, <1>7 DEF CopyRestore
<1>9. call' = [call EXCEPT !.buff = Awaited]
  BY <1>2, <1>3, <1>4, <1>5 DEF CopyRestore, PhysOf
<1>10. /\ call' \in Calls80 /\ call'.command = "print" /\ call'.tmp = b
       /\ call'.asked = call.asked /\ call'.buff = Awaited
  <2>1. Awaited \in Strings \cup {Garbage, Empty}
    BY <1>4 DEF Calls80, Awaited
  <2>. QED
    BY <1>2, <1>4, <1>9, <2>1 DEF Calls80
<1>11. t \in DOMAIN tabs /\ j \in DOMAIN tabs[t]
  BY <1>1, <1>7, SoundOnDuty, UserIndexes
<1>12. /\ DOMAIN tabs' = DOMAIN tabs /\ \A s \in DOMAIN tabs : DOMAIN tabs'[s] = DOMAIN tabs[s]
       /\ tabs'[t][j] = UserEntry(v)
       /\ \A s \in DOMAIN tabs : \A i : s # t \/ i # j => tabs'[s][i] = tabs[s][i]
  BY <1>8, <1>11
<1>13. Loaded'
  BY <1>1, <1>12, SoundOnDuty, LoadedStays
<1>14. TopPage' \in DOMAIN stack' /\ NamedAt' = NamedAt /\ \A u : UserEntry(u)' = UserEntry(u)
  BY <1>1, SoundOnDuty, LeadsStay
<1>15. Mapped'
  <2>. SUFFICES ASSUME NEW u \in Pages PROVE PagingGet(Directory, u)' = UserEntry(u)'
    BY <1>1 DEF Mapped
  <2>1. PagingGet(Directory, u)' = tabs'[TableOf(Directory, u)][TabIndex(u)]
    BY <1>1 DEF PagingGet, TableOf, Directory
  <2>2. CASE u = v
    BY <1>7, <1>12, <1>14, <2>1, <2>2
  <2>3. CASE u # v
    <3>1. /\ TableOf(Directory, u) \in DOMAIN tabs
          /\ TableOf(Directory, u) # t \/ TabIndex(u) # j
      BY <1>1, <1>7, <2>3, SoundOnDuty, UserIndexes
    <3>2. tabs'[TableOf(Directory, u)][TabIndex(u)] = tabs[TableOf(Directory, u)][TabIndex(u)]
      BY <1>12, <3>1
    <3>. QED
      BY <1>6, <1>14, <2>1, <2>3, <3>2 DEF PagingGet
  <2>. QED
    BY <2>2, <2>3
<1>16. HeapSound'
  <2>1. IInv'
    BY <1>1, SoundOnDuty, NextIInv DEF HeapSound
  <2>. QED
    BY <1>1, <1>2, <1>10, <2>1, SoundOnDuty DEF HeapSound
<1>17. TrapTyped'
  BY <1>1, <1>10, SoundOnDuty DEF TrapTyped, TrapTypeOK
<1>18. CpuSound'
  BY <1>1, <1>4 DEF CpuSound, Entering, Serving, Commands
<1>19. CallSound'
  <2>1. Awaited' = Awaited
    BY <1>2, <1>10, <1>14 DEF Awaited, PageOf
  <2>. QED
    BY <1>1, <1>10, <1>14, <2>1 DEF CallSound, Commands, Copying, Asking
<1>20. LostOnlyIf'
  BY <1>1 DEF LostOnlyIf
<1>. QED
  BY <1>1, <1>13, <1>15, <1>16, <1>17, <1>18, <1>19, <1>20, PlacesDiffer DEF Sound

(* kfree of the buffer: the heap is as it was when the program started.    *)
LEMMA CopyFreeSound ==
    ASSUME Sound, CopyFree
    PROVE  Sound'
<1>1. /\ at = "copy_free" /\ at \in OnDuty /\ at \in Copying
      /\ at \in Holding /\ at \notin Borrowing
      /\ at' = "show" /\ at' \in OnDuty /\ at' \notin Borrowing /\ at' \notin Holding
      /\ UNCHANGED <<tabs, cr3, ring, ds, esp, eax, stack, text, frame, saved_esp, call>>
      /\ UNCHANGED loadedVars /\ boot_live' = boot_live /\ KFree(call.tmp)
  BY DEF CopyFree, pagingVars, loadVars, cpuVars, userVars, loadedVars, OnDuty, Serving, Copying,
         Holding, Borrowing
<1>2. PICK b \in Blocks : b = call.tmp
  BY <1>1, CopyingOnDuty
<1>3. /\ frame.esp = esp /\ saved_esp = esp /\ call.command = "print" /\ cr3 = "kernel"
  BY <1>1, CopyingOnDuty
<1>4. call.buff = Awaited
  BY <1>1, SoundOnDuty DEF CallSound
<1>5. Loaded' /\ Mapped'
  BY <1>1, SoundOnDuty, TablesStay
<1>6. TopPage' \in DOMAIN stack' /\ NamedAt' = NamedAt
  BY <1>1, SoundOnDuty, LeadsStay
<1>7. HeapSound'
  <2>1. IInv /\ boot_live \in [Blocks -> Nat] /\ boot_live[b] = 0
        /\ live = [boot_live EXCEPT ![b] = 1]
    BY <1>1, <1>2, SoundOnDuty DEF HeapSound
  <2>2. IInv'
    BY <1>1, <1>2, <2>1, KFreeKeepsIInv
  <2>3. live' = [live EXCEPT ![b] = 0]
    BY <1>1, <1>2 DEF KFree
  <2>4. live' = boot_live
    BY <2>1, <2>3
  <2>. QED
    BY <1>1, <2>2, <2>4 DEF HeapSound
<1>8. b # NULL
  BY NULLAssumption, TotalAssumption, SMT DEF Blocks
<1>9. TrapTyped'
  BY <1>1, SoundOnDuty DEF TrapTyped, TrapTypeOK
<1>10. CpuSound'
  BY <1>1, <1>3 DEF CpuSound, Entering, Serving, Commands
<1>11. CallSound'
  <2>1. Awaited' = Awaited
    BY <1>1, <1>6 DEF Awaited, PageOf
  <2>. QED
    BY <1>1, <1>2, <1>3, <1>4, <1>6, <1>8, <2>1 DEF CallSound, Commands, Copying, Asking
<1>12. LostOnlyIf'
  BY <1>1 DEF LostOnlyIf
<1>. QED
  BY <1>1, <1>5, <1>7, <1>9, <1>10, <1>11, <1>12, PlacesDiffer DEF Sound

-----------------------------------------------------------------------------
(* The theorems.                                                           *)

(* No step of the system breaks the invariant.                             *)
LEMMA NextSound == Sound /\ [TrapNext]_systemVars => Sound'
<1>. SUFFICES ASSUME Sound, [TrapNext]_systemVars PROVE Sound'
  OBVIOUS
<1>1. CASE Boot \/ Panic
  BY <1>1, BootKeepsSound
<1>2. CASE RunFirstTask
  BY <1>2, StartIsSound
<1>3. CASE Program
  BY <1>3, UserStackSound, UserWriteSound, Int80Sound, InterruptSound, ExceptionSound DEF Program
<1>4. CASE Handler
  BY <1>4, LoseFrameSound, EnterInt80Sound, ComputeSound, PrintStringSound, CopyAllocSound,
     CopyMapSound, CopyReadSound, CopyRestoreSound, CopyFreeSound, ShowSound, LeaveSound,
     InterruptHandlersSound DEF Handler
<1>5. CASE UNCHANGED systemVars
  <2>1. /\ UNCHANGED <<allVars, boot_live, at, cr3, ring, ds, esp, eax, stack, text>>
        /\ UNCHANGED <<frame, saved_esp, call>>
    BY <1>5 DEF systemVars, trapVars, cpuVars, userVars
  <2>2. TrapTyped'
    BY <2>1 DEF Sound, TrapTyped, TrapTypeOK
  <2>3. LostOnlyIf'
    BY <2>1 DEF Sound, LostOnlyIf, Running, allVars, listVars, procVars
  <2>4. ASSUME at = "boot" PROVE BootSound'
    BY <2>1, <2>4, BootStepSound DEF Sound
  <2>5. ASSUME at \in OnDuty
        PROVE  Loaded' /\ Mapped' /\ HeapSound' /\ CpuSound' /\ CallSound'
    <3>1. Loaded' /\ Mapped' /\ HeapSound' /\ UNCHANGED loadedVars
      BY <2>1, <2>5, SoundOnDuty, QuietStep
    <3>2. /\ TopPage' = TopPage /\ Named' = Named /\ Summed' = Summed /\ Wished' = Wished
          /\ NamedAt' = NamedAt /\ Physical(KernelStackPage)' = Physical(KernelStackPage)
      BY <2>1, <3>1, LeadsStay
    <3>3. CpuSound'
      BY <2>1, <2>5, <3>2, SoundOnDuty DEF CpuSound
    <3>4. (Full)' = Full
      BY <2>1 DEF Full, Free, allVars, vars
    <3>5. Awaited' = Awaited
      BY <2>1, <3>2 DEF Awaited, PageOf
    <3>6. TextAt(PageOf(call.tmp))' = TextAt(PageOf(call.tmp))
      BY <2>1 DEF TextAt, PageOf
    <3>7. CallSound'
      BY <2>1, <2>5, <3>2, <3>4, <3>5, <3>6, SoundOnDuty DEF CallSound
    <3>. QED
      BY <3>1, <3>3, <3>7
  <2>. QED
    BY <2>1, <2>2, <2>3, <2>4, <2>5 DEF Sound
<1>. QED
  BY <1>1, <1>2, <1>3, <1>4, <1>5 DEF TrapNext

(* It holds where kernel_main begins to load the program.                  *)
LEMMA InitSound == TrapInit => Sound
<1>. SUFFICES ASSUME TrapInit PROVE Sound
  OBVIOUS
<1>1. /\ at = "boot" /\ cr3 = "kernel" /\ ring = 0 /\ ds = "kernel" /\ LoadInit
      /\ esp = 0 /\ eax = 0 /\ frame.esp = 0 /\ saved_esp = 0
      /\ stack = <<>> /\ text = <<>> /\ call = NoCall
  BY DEF TrapInit
<1>2. BootSound
  BY <1>1, BootStartsSound
<1>3. 0 \in 0 .. (WordMod - 1)
  BY TrapAssumption, SMT
<1>4. NoCall \in Calls80
  BY CallTyped DEF NoCall
<1>5. DOMAIN stack = {} /\ DOMAIN text = {}
  BY <1>1
<1>6. TrapTyped
  BY <1>1, <1>3, <1>4, <1>5 DEF TrapTyped, TrapTypeOK
<1>. QED
  BY <1>1, <1>2, <1>6, PlacesDiffer DEF Sound, LostOnlyIf

(* Every state of the system satisfies the invariant.                      *)
THEOREM TrapInvariant == TrapSpec => []Sound
  BY InitSound, NextSound, PTL DEF TrapSpec

(* The processor, the program's registers and the words on its stack have  *)
(* their types; a result of a command has 32 bits (idt.c, isr80h).         *)
THEOREM TrapTyping == TrapSpec => []TrapTypeOK
<1>1. Sound => TrapTypeOK
  BY DEF Sound, TrapTyped
<1>. QED
  BY <1>1, TrapInvariant, PTL

(* Whenever the program runs it runs under its own directory, which leads  *)
(* to its own program and stack and lets it write nothing else: after any  *)
(* command, whose copy_string_from_task has edited that directory, and any *)
(* interrupt, whose handler may or may not have called task_page.          *)
THEOREM ProgramKeepsItsImage == TrapSpec => []ProgramSeesItself
<1>1. Sound => ProgramSeesItself
  <2>. SUFFICES ASSUME Sound, at = "user"
                PROVE  UserImage /\ cr3 = "task" /\ ds = "user"
    BY DEF ProgramSeesItself
  <2>1. Loaded /\ Mapped /\ CpuSound /\ at \notin Borrowing
    BY PlacesDiffer DEF Sound, OnDuty
  <2>2. cr3 = "task" /\ ds = "user"
    BY <2>1 DEF CpuSound
  <2>3. UserImage
    <3>. SUFFICES ASSUME NEW p \in Published, NEW v \in Pages
                  PROVE  PagingGet(DirOf(p), v) =
                           IF v - ProgramPage \in 0 .. (BlocksOf(procs[p].size) - 1)
                           THEN Entry(PageOf(procs[p].ptr) + (v - ProgramPage), TRUE)
                           ELSE IF v - StackPage \in 0 .. (BlocksOf(StackSize) - 1)
                           THEN Entry(PageOf(procs[p].stack) + (v - StackPage), TRUE)
                           ELSE Entry(v, FALSE)
      BY DEF UserImage
    <3>1. p = Running /\ DirOf(p) = Directory
      BY <2>1 DEF Loaded, DirOf, Directory
    <3>2. PagingGet(DirOf(p), v) = UserEntry(v)
      BY <2>1, <3>1 DEF Mapped
    <3>3. v \in Int
      BY PageIndexes
    <3>4. /\ v - ProgramPage \in 0 .. (BlocksOf(procs[p].size) - 1) <=> InProgram(p, v)
          /\ v - StackPage \in 0 .. (BlocksOf(StackSize) - 1) <=> InStack(v)
      <4>1. BlocksOf(procs[p].size) \in Nat
        BY <2>1, <3>1, PagesInOrder DEF ProgramBlocks
      <4>. QED
        BY <2>1, <3>3, <4>1, PagesInOrder, SMT DEF InProgram, InStack
    <3>5. /\ PageOf(procs[p].ptr) + (v - ProgramPage) = PageOf(procs[p].ptr) + v - ProgramPage
          /\ PageOf(procs[p].stack) + (v - StackPage) = PageOf(procs[p].stack) + v - StackPage
      BY <2>1, <3>1, <3>3, PagesInOrder, SMT DEF PageOf
    <3>. QED
      BY <3>1, <3>2, <3>4, <3>5 DEF UserEntry
  <2>. QED
    BY <2>2, <2>3
<1>. QED
  BY <1>1, TrapInvariant, PTL

(* isr80h_command1_print shows the string that the program's pointer       *)
(* designated when it asked, two directories and a temporary mapping       *)
(* later: except that it shows the empty string if the pointer leads to    *)
(* the very block that kzalloc granted and cleared for the buffer, and a   *)
(* buffer that nobody has written if the heap was full.                    *)
THEOREM PrintShowsWhatWasAsked == TrapSpec => []PrintsUserString
<1>1. Sound => PrintsUserString
  <2>. SUFFICES ASSUME Sound, at = "show" PROVE PrintsUserString
    BY DEF PrintsUserString
  <2>1. CallSound /\ at \in OnDuty
    BY DEF Sound, OnDuty, Serving
  <2>2. NamedPage = NamedAt
    BY <2>1, SoundOnDuty
  <2>. QED
    BY <2>1, <2>2 DEF CallSound, PrintsUserString, Awaited, Full
<1>. QED
  BY <1>1, TrapInvariant, PTL

(* isr80h_command0_sum leaves with the sum of the two words on top of the  *)
(* stack the program had when it asked: task_get_stack_item reads at the   *)
(* stack pointer that was saved, through the program's directory.          *)
THEOREM SumAddsTheArguments == TrapSpec => []SumIsRight
<1>1. Sound => SumIsRight
  <2>. SUFFICES ASSUME Sound, at = "leave_int80", call.command = "sum"
                PROVE  call.res = (StackAt("task")[esp] + StackAt("task")[esp + 1]) % WordMod
    BY DEF SumIsRight
  <2>1. at \in OnDuty
    BY DEF OnDuty, Serving
  <2>2. call.res = Summed /\ StackAt("task") = TopWords
    BY <2>1, SoundOnDuty DEF CallSound
  <2>. QED
    BY <2>2 DEF Summed
<1>. QED
  BY <1>1, TrapInvariant, PTL

(* Between two traps the heap has the allocations that it had at the start *)
(* of the program: copy_string_from_task frees its buffer on every path.   *)
THEOREM CommandsGiveBack == TrapSpec => []CommandsDoNotLeak
<1>1. Sound => CommandsDoNotLeak
  BY PlacesDiffer DEF Sound, CommandsDoNotLeak, HeapSound, OnDuty
<1>. QED
  BY <1>1, TrapInvariant, PTL

(* A trap that the kernel loses under its own directory pushed its frame   *)
(* to a page of the program: the program reaches up to 0x600000, where     *)
(* tss.esp0 points (kernel.c), and its pages hide the kernel's stack.      *)
THEOREM OnlyHugeProgramsAreLost == TrapSpec => []LostOnlyIf
<1>1. Sound => LostOnlyIf
  BY DEF Sound
<1>. QED
  BY <1>1, TrapInvariant, PTL
=============================================================================
