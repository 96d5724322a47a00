------------------------------ MODULE Process -------------------------------
(***************************************************************************)
(* Loading processes: src/src/task/process.c and task.c, over the heap,    *)
(* the page tables and the open files.                                     *)
(*                                                                         *)
(* process_load_switch is taken allocation by allocation, in its order,    *)
(* because each allocation may find the heap exhausted and the code treats *)
(* each of them differently. Processes, tasks, directories, tables and     *)
(* chunks are the heap blocks they live in. The program file is opened and *)
(* closed by the steps of Files, with what these take and lose; whether    *)
(* its data can be read is left open (module Fat16).                       *)
(*                                                                         *)
(* Page 0, where null pointers lead, is memory like any other. Once the    *)
(* kernel maps through an error pointer, or frees what it finds at page 0, *)
(* the content of memory is no longer known ("wild"): the properties speak *)
(* of the states before that, but for LoadTypeOK, which types the model's  *)
(* own variables. Control goes on as the code's does.                      *)
(***************************************************************************)
EXTENDS Paging, Files

CONSTANTS
    MaxProcesses,   \* GUAVAOS_MAX_PROCESSES
    MaxLoads,       \* bound: the number of process_load_switch calls
    ProcessSize,    \* sizeof(struct process), more than one block
    StackSize,      \* GUAVAOS_USER_PROGRAM_STACK_SIZE
    ProgramPage,    \* GUAVAOS_PROGRAM_VIRTUAL_ADDRESS, as a page
    StackPage,      \* GUAVAOS_PROGRAM_VIRTUAL_STACK_ADDRESS_END, as a page
    ERR             \* ERROR(-EIO): a negative number cast to a pointer

ASSUME ProcessAssumption ==
    /\ MaxProcesses \in Nat \ {0} /\ MaxLoads \in Nat /\ MaxDescriptors > 1
    /\ {ProcessSize, StackSize, BlockSize} \subseteq Requests
    /\ BlocksOf(ProcessSize) > 0 /\ StackSize > 0 /\ StackSize % BlockSize = 0
    /\ StackPage \in Nat /\ ProgramPage \in Nat
    /\ StackPage + StackSize \div BlockSize <= ProgramPage
    /\ \A i \in DOMAIN Root : /\ Root[i].size \in Requests
                              /\ Root[i].size + BlockSize <= SizeMod
                              /\ ProgramPage + BlocksOf(Root[i].size) <= HeapPage
    /\ ERR \notin Int /\ ERR # NULL

VARIABLES
    procs,      \* procs[p]: ptr, size, stack and task of the struct process at p
    tasks,      \* tasks[t]: page_directory, next, prev and process of that task
    head, tail, current,    \* task_head, task_tail, current_task
    processes,  \* the slots: processes[slot] is a struct process, or NULL
    current_process,
    pc, ld,     \* where process_load_for_slot stands, and its locals
    loads,      \* how many loads have started
    result,     \* what the last load returned: "none", "ok" or "error"
    wild,       \* memory has been written through a bad pointer
    before      \* the allocations when the last load began (ghost)

listVars == <<tasks, head, tail, current>>
countVars == <<loads, before>>
loadVars == <<pc, ld, result, wild, countVars>>
procVars == <<procs, processes, current_process>>
allVars == <<vars, fileVars, pagingVars, listVars, loadVars, procVars>>

Slots == 0 .. (MaxProcesses - 1)

NoLoad == [slot |-> 0, path |-> NoOpen.path, p |-> NULL, fd |-> 0, size |-> 0, data |-> NULL,
           task |-> NULL, dir |-> NULL, i |-> 0]

LiveStarts == {b \in Blocks : live[b] > 0}

LoadInit ==
    /\ FilesInit
    /\ dirs = <<>> /\ tabs = <<>> /\ chunks = <<>>
    /\ procs = <<>> /\ tasks = <<>>
    /\ head = NULL /\ tail = NULL /\ current = NULL
    /\ processes = [s \in Slots |-> NULL] /\ current_process = NULL
    /\ pc = "idle" /\ ld = NoLoad /\ loads = 0
    /\ result = "none" /\ wild = FALSE /\ before = {}

-----------------------------------------------------------------------------
(* process_load: the first free slot, or -EISTKN.                          *)
FreeSlot == {s \in Slots : processes[s] = NULL /\ \A r \in 0 .. (s - 1) : processes[r] # NULL}

BeginLoad(path) ==
    /\ pc = "idle" /\ loads < MaxLoads
    /\ loads' = loads + 1 /\ before' = LiveStarts
    /\ \/ \E s \in FreeSlot :
            /\ ld' = [NoLoad EXCEPT !.slot = s, !.path = path]
            /\ pc' = "process" /\ result' = "none"
       \/ /\ FreeSlot = {}
          /\ result' = "error" /\ UNCHANGED <<pc, ld>>
    /\ UNCHANGED <<vars, fileVars, pagingVars, listVars, procVars, wild>>

(* goto out with a negative result, before the process has a task: nothing *)
(* that was allocated is given back.                                       *)
Fail == pc' = "idle" /\ result' = "error" /\ ld' = NoLoad

AllocProcess ==
    /\ pc = "process"
    /\ KZalloc(ProcessSize)
    /\ IF ret' = NULL THEN Fail /\ UNCHANGED procs
       ELSE /\ procs' = Put(procs, ret', [ptr |-> NULL, size |-> 0, stack |-> NULL,
                                          task |-> NULL])
            /\ ld' = [ld EXCEPT !.p = ret'] /\ pc' = "open" /\ UNCHANGED result
    /\ UNCHANGED <<fileVars, pagingVars, listVars, countVars, wild, processes, current_process>>

-----------------------------------------------------------------------------
(* process_load_binary. The steps of fopen are those of Files.             *)
OpenFile ==
    /\ pc = "open"
    /\ BeginOpen(ld.path)
    /\ pc' = "opening"
    /\ UNCHANGED <<pagingVars, listVars, procVars, ld, result, wild, countVars>>

FopenRuns ==
    /\ pc = "opening" /\ FopenStep
    /\ UNCHANGED <<pagingVars, listVars, procVars, loadVars>>

(* fstat. Where fopen has failed, or its number leads to an empty slot,    *)
(* fclose refuses the number as fstat does.                                *)
StatFile ==
    /\ pc = "opening" /\ step = "idle"
    /\ IF Get(res) = NULL THEN Fail
       ELSE /\ ld' = [ld EXCEPT !.fd = res, !.size = Root[FileOf(Get(res))].size]
            /\ pc' = "data" /\ UNCHANGED result
    /\ UNCHANGED <<vars, fileVars, pagingVars, listVars, procVars, wild, countVars>>

AllocData_FileStaysOpen ==
    /\ pc = "data"
    /\ KZalloc(ld.size)
    /\ IF ret' = NULL THEN Fail
       ELSE ld' = [ld EXCEPT !.data = ret'] /\ pc' = "read" /\ UNCHANGED result
    /\ UNCHANGED <<fileVars, pagingVars, listVars, procVars, wild, countVars>>

AllocData ==
    /\ pc = "data"
    /\ KZalloc(ld.size)
    /\ ld' = [ld EXCEPT !.data = ret'] /\ pc' = IF ret' = NULL THEN "close" ELSE "read"
    /\ UNCHANGED <<fileVars, pagingVars, listVars, procVars, result, wild, countVars>>

(* fread refuses an empty file; any other it reads, or fails to.           *)
ReadFile ==
    /\ pc = "read"
    /\ \/ /\ ld.size > 0
          /\ procs' = [procs EXCEPT ![ld.p].ptr = ld.data, ![ld.p].size = ld.size]
       \/ UNCHANGED procs
    /\ pc' = "close"
    /\ UNCHANGED <<vars, fileVars, pagingVars, listVars, processes, current_process,
                   ld, result, wild, countVars>>

CloseFile ==
    /\ pc = "close"
    /\ Close(ld.fd)
    /\ IF procs[ld.p].ptr = NULL THEN Fail ELSE pc' = "stack" /\ UNCHANGED <<ld, result>>
    /\ UNCHANGED <<pagingVars, listVars, procVars, wild, countVars>>

AllocStack ==
    /\ pc = "stack"
    /\ KZalloc(StackSize)
    /\ IF ret' = NULL THEN Fail /\ UNCHANGED procs
       ELSE /\ procs' = [procs EXCEPT ![ld.p].stack = ret']
            /\ pc' = "task" /\ UNCHANGED <<ld, result>>
    /\ UNCHANGED <<fileVars, pagingVars, listVars, countVars, wild, processes, current_process>>

-----------------------------------------------------------------------------
(* task_new, with task_init and paging_new_4gb inside it.                  *)

(* Without a task, task_free(NULL) reads a directory from address 0 and    *)
(* frees what it finds there: the machine is lost.                         *)
AllocTask ==
    /\ pc = "task"
    /\ KZalloc(BlockSize)
    /\ IF ret' = NULL
       THEN pc' = "lost" /\ wild' = TRUE /\ UNCHANGED <<ld, tasks>>
       ELSE /\ tasks' = Put(tasks, ret', [dir |-> NULL, next |-> NULL, prev |-> NULL,
                                          process |-> ld.p])
            /\ ld' = [ld EXCEPT !.task = ret'] /\ pc' = "directory" /\ UNCHANGED wild
    /\ UNCHANGED <<fileVars, pagingVars, head, tail, current, procVars, countVars, result>>

AllocDirectory ==
    /\ pc = "directory"
    /\ NewDirectory
    /\ ld' = [ld EXCEPT !.dir = ret'] /\ pc' = "table"
    /\ UNCHANGED <<fileVars, listVars, procVars, countVars, result, wild>>

AllocTable_OneMore ==
    /\ pc = "table"
    /\ NewTable(ld.dir, ld.i)
    /\ ld' = [ld EXCEPT !.i = @ + 1]
    /\ pc' = IF ld.i = Tables THEN "chunk" ELSE "table"
    /\ UNCHANGED <<fileVars, listVars, procVars, countVars, result, wild>>

AllocTable ==
    /\ pc = "table"
    /\ NewTable(ld.dir, ld.i)
    /\ ld' = [ld EXCEPT !.i = @ + 1]
    /\ pc' = IF ld.i + 1 = Tables THEN "chunk" ELSE "table"
    /\ UNCHANGED <<fileVars, listVars, procVars, countVars, result, wild>>

(* paging_4gb_chunk, and task_init's test of it.                           *)
AllocChunk ==
    /\ pc = "chunk"
    /\ NewChunk(ld.dir)
    /\ IF ret' = NULL THEN pc' = "unwind" /\ UNCHANGED tasks
       ELSE tasks' = [tasks EXCEPT ![ld.task].dir = ret'] /\ pc' = "link"
    /\ UNCHANGED <<fileVars, head, tail, current, procVars, countVars, result, ld, wild>>

(* The end of task_new: the task goes to the tail of the list.             *)
LinkTask_NoBackLink ==
    /\ pc = "link"
    /\ IF head = NULL
       THEN head' = ld.task /\ tail' = ld.task /\ current' = ld.task /\ UNCHANGED tasks
       ELSE /\ tasks' = [tasks EXCEPT ![tail].next = ld.task]
            /\ tail' = ld.task /\ UNCHANGED <<head, current>>
    /\ procs' = [procs EXCEPT ![ld.p].task = ld.task]
    /\ pc' = "map_program"
    /\ UNCHANGED <<vars, fileVars, pagingVars, processes, current_process, ld, countVars, result,
                   wild>>

LinkTask ==
    /\ pc = "link"
    /\ IF head = NULL
       THEN head' = ld.task /\ tail' = ld.task /\ current' = ld.task /\ UNCHANGED tasks
       ELSE /\ tasks' = [tasks EXCEPT ![tail].next = ld.task, ![ld.task].prev = tail]
            /\ tail' = ld.task /\ UNCHANGED <<head, current>>
    /\ procs' = [procs EXCEPT ![ld.p].task = ld.task]
    /\ pc' = "map_program"
    /\ UNCHANGED <<vars, fileVars, pagingVars, processes, current_process, ld, countVars, result,
                   wild>>

(* task_free of a task without a chunk. paging_free_4gb reads the address  *)
(* of the directory at address 0, where paging_new_4gb has just put it, so *)
(* the directory and its tables are freed, then the null chunk and the     *)
(* task, which is on no list. kfree of the null pointer clears a byte far  *)
(* below the table and stops before the table (0x6E00, boot sector, then   *)
(* 0x7E00). The directory may itself be at address 0: what is freed then   *)
(* is unknown.                                                             *)
UnwindTask_FreesTail ==
    /\ pc = "unwind"
    /\ IF ld.dir = NULL
       THEN pc' = "lost" /\ wild' = TRUE /\ UNCHANGED <<vars, procs>>
       ELSE /\ FreeAll((ChunkBlocks(NULL) \cup {tail}) \ {NULL})
            /\ procs' = [procs EXCEPT ![ld.p].task = ERR]
            /\ pc' = "map_program" /\ UNCHANGED wild
    /\ UNCHANGED <<fileVars, pagingVars, listVars, processes, current_process, ld, result,
                   countVars>>

UnwindTask ==
    /\ pc = "unwind"
    /\ IF ld.dir = NULL
       THEN pc' = "lost" /\ wild' = TRUE /\ UNCHANGED <<vars, procs>>
       ELSE /\ FreeAll((ChunkBlocks(NULL) \cup {ld.task}) \ {NULL})
            /\ procs' = [procs EXCEPT ![ld.p].task = ERR]
            /\ pc' = "map_program" /\ UNCHANGED wild
    /\ UNCHANGED <<fileVars, pagingVars, listVars, processes, current_process, ld, result,
                   countVars>>

-----------------------------------------------------------------------------
(* process_map_memory. With ERR for a task the directory is read near the  *)
(* top of the address space and the mapping lands anywhere, or faults.     *)
DirOf(p) == chunks[tasks[procs[p].task].dir]

MapProgram ==
    /\ pc = "map_program"
    /\ \/ /\ procs[ld.p].task # ERR
          /\ tabs' = MapTo(DirOf(ld.p), ProgramPage, PageOf(procs[ld.p].ptr),
                           BlocksOf(procs[ld.p].size))
          /\ pc' = "map_stack" /\ UNCHANGED wild
       \/ /\ procs[ld.p].task = ERR
          /\ pc' \in {"map_stack", "lost"} /\ wild' = TRUE /\ UNCHANGED tabs
    /\ UNCHANGED <<vars, fileVars, dirs, chunks, listVars, procVars, ld, countVars, result>>

MapStack ==
    /\ pc = "map_stack"
    /\ \/ /\ procs[ld.p].task # ERR
          /\ tabs' = MapTo(DirOf(ld.p), StackPage, PageOf(procs[ld.p].stack),
                           BlocksOf(StackSize))
       \/ procs[ld.p].task = ERR /\ UNCHANGED tabs
    /\ pc' = "publish"
    /\ UNCHANGED <<vars, fileVars, dirs, chunks, listVars, procVars, ld, countVars, result, wild>>

(* processes[process_slot] = _process, and process_load_switch's switch.   *)
Publish ==
    /\ pc = "publish"
    /\ processes' = [processes EXCEPT ![ld.slot] = ld.p]
    /\ current_process' = ld.p
    /\ pc' = "idle" /\ result' = "ok" /\ ld' = NoLoad
    /\ UNCHANGED <<vars, fileVars, pagingVars, listVars, procs, countVars, wild>>

LoadNext ==
    \/ \E path \in Calls : BeginLoad(path)
    \/ AllocProcess
    \/ OpenFile \/ FopenRuns \/ StatFile \/ AllocData \/ ReadFile \/ CloseFile
    \/ AllocStack
    \/ AllocTask \/ AllocDirectory \/ AllocTable \/ AllocChunk
    \/ LinkTask \/ UnwindTask
    \/ MapProgram \/ MapStack \/ Publish

LoadSpec == LoadInit /\ [][LoadNext]_allVars

-----------------------------------------------------------------------------
Published == {processes[s] : s \in Slots} \ {NULL}

(* The heap blocks that make up a process, apart from its data and stack.  *)
ChunkOf(p) == tasks[procs[p].task].dir
Structures(p) == {p, procs[p].task} \cup ChunkBlocks(ChunkOf(p))

(* The stretch of blocks a process may write: its program and its stack.   *)
DataRange(p) == Run(procs[p].ptr, BlocksOf(procs[p].size))
StackRange(p) == Run(procs[p].stack, BlocksOf(StackSize))

WritablePages(p) ==
    {PagingGet(DirOf(p), v).to : v \in {u \in Pages : PagingGet(DirOf(p), u).w}}

Record == [ptr : Places, size : Nat, stack : Places, task : Places \cup {ERR}]
TaskRecord == [dir : Places, next : Places, prev : Places, process : Places]

(* Pointers are null or the start of an allocation, and locals in range.   *)
LoadTypeOK ==
    /\ FilesTypeOK
    /\ \A d \in DOMAIN dirs : d \in Places /\ dirs[d] \in [0 .. (Tables - 1) -> Places]
    /\ \A t \in DOMAIN tabs : t \in Places /\ DOMAIN tabs[t] = 0 .. (PagesPerTable - 1)
    /\ \A p \in DOMAIN procs : p \in Blocks /\ procs[p] \in Record
    /\ \A t \in DOMAIN tasks : t \in Blocks /\ tasks[t] \in TaskRecord
    /\ {head, tail, current, current_process} \subseteq Places
    /\ processes \in [Slots -> Places]
    /\ ld.slot \in Slots /\ ld.i \in 0 .. Tables

(* A published process sees its program from ProgramPage on and its stack  *)
(* below it, page by page and writable, and every other address as itself  *)
(* and read-only (paging_new_4gb, paging_map_to, paging_get_indexes).      *)
UserImage ==
    ~wild => \A p \in Published, v \in Pages :
        LET program == v - ProgramPage
            stack   == v - StackPage
        IN  PagingGet(DirOf(p), v) =
              IF program \in 0 .. (BlocksOf(procs[p].size) - 1)
              THEN Entry(PageOf(procs[p].ptr) + program, TRUE)
              ELSE IF stack \in 0 .. (BlocksOf(StackSize) - 1)
              THEN Entry(PageOf(procs[p].stack) + stack, TRUE)
              ELSE Entry(v, FALSE)

(* What a process may write is written by no other process, and holds no   *)
(* page table, task or process structure of any process, no part of a file *)
(* that is open for another load, nor anything of the kernel below the     *)
(* heap.                                                                   *)
Isolation ==
    ~wild => \A p \in Published :
        /\ \A q \in Published \ {p} : WritablePages(p) \cap WritablePages(q) = {}
        /\ \A q \in Published : WritablePages(p) \cap {PageOf(b) : b \in Structures(q)} = {}
        /\ \A d \in OpenFiles : WritablePages(p) \cap {PageOf(b) : b \in PartsOf(d)} = {}
        /\ \A page \in WritablePages(p) : page >= HeapPage

(* Nothing a published process is made of has been released, and no two    *)
(* processes share a task, a directory, a table or a structure: the error  *)
(* paths of a later load never free what an earlier one uses.              *)
StructuresAlive ==
    ~wild => \A p \in Published :
        /\ \A b \in Structures(p) : live[b] > 0
        /\ \A q \in Published \ {p} : Structures(p) \cap Structures(q) = {}
        /\ DataRange(p) \subseteq Owned(procs[p].ptr)
        /\ StackRange(p) \subseteq Owned(procs[p].stack)

(* However a load ends, process_load_binary has closed its file: between   *)
(* loads, and past the reading, every descriptor slot is empty.            *)
NoFileLeftOpen ==
    ~wild /\ pc \notin {"opening", "data", "read", "close"} => OpenFiles = {}

(* No error path of a load gives back a block that was in use before it.   *)
(* A load that succeeds adds to them the process, whose size is that of    *)
(* the file named by the path, its data, stack, task and tables, and, as   *)
(* nobody frees paths, the root and the parts of the path: fopen and       *)
(* fclose give back everything else they take. They do so for a file; what *)
(* fat16_load_fat_directory allocates for a directory nobody frees, but a  *)
(* directory has size 0 on disk and is no program.                         *)
LoadKeepsOnlyItsOwn ==
    ~wild =>
        /\ before \subseteq LiveStarts
        /\ pc = "publish" =>
              LET own == Structures(ld.p) \cup {procs[ld.p].ptr, procs[ld.p].stack}
              IN  /\ own \subseteq LiveStarts \ before
                  /\ \E i \in Used :
                        /\ Root[i].name = ld.path.parts[1] /\ Root[i].size = procs[ld.p].size
                        /\ ~Root[i].dir =>
                              Cardinality(LiveStarts \ (before \cup own))
                                = 1 + 2 * Len(ld.path.parts)

(* The tasks met along next from the head, and only they, lead to the tail *)
(* and back along prev; the current task is one of them; all are alive.    *)
Reached ==
    LET upto[n \in 0 .. MaxLoads] ==
            IF n = 0 THEN {head} \ {NULL}
            ELSE upto[n - 1] \cup ({tasks[t].next : t \in upto[n - 1]} \ {NULL})
    IN  upto[MaxLoads]

TaskListSound ==
    ~wild =>
        /\ (head = NULL) = (tail = NULL) /\ (head = NULL) = (current = NULL)
        /\ head # NULL => /\ tasks[head].prev = NULL /\ tasks[tail].next = NULL
                          /\ {tail, current} \subseteq Reached
        /\ \A t \in Reached : /\ live[t] > 0
                              /\ t # tail => tasks[t].next \in Reached
                              /\ t # head => tasks[tasks[t].prev].next = t
                              /\ t # tail => tasks[tasks[t].next].prev = t

(* process.h:15 calls the task field of a process its main task: a process *)
(* in the process array has a task that is on the task list.               *)
PublishedHasTask == \A p \in Published : procs[p].task \in Reached
=============================================================================
