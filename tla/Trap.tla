-------------------------------- MODULE Trap --------------------------------
(***************************************************************************)
(* From the boot to the running program and back into the kernel: the end  *)
(* of kernel_main, the interrupt and int 0x80 paths (src/src/idt), the two *)
(* kernel commands (src/src/isr80h) and copy_string_from_task (task.c).    *)
(*                                                                         *)
(* One processor runs either the program or a handler; every gate is an    *)
(* interrupt gate, so a handler is never interrupted. What makes the path  *)
(* delicate is which page directory is loaded when memory is read: each    *)
(* access goes through PhysOf, the tables are those process_load built,    *)
(* and copy_string_from_task edits the program's own directory on the way. *)
(***************************************************************************)
EXTENDS Process

CONSTANTS
    KernelStackPage,    \* the page the CPU pushes to at tss.esp0, as a page
    TmpSize,            \* the size of isr80h_command1_print's buffer
    Words,              \* the values of a word of the program's stack
    WordMod,            \* 2^32 in the code
    Strings,            \* what the program writes at the start of a page
    Garbage,            \* the content of a buffer nobody has written
    Empty               \* the string that a cleared page holds

ASSUME TrapAssumption ==
    /\ KernelStackPage \in Pages /\ ProgramPage <= KernelStackPage
    /\ TmpSize \in Requests /\ BlocksOf(TmpSize) = 1
    /\ Words \subseteq Nat /\ WordMod \in Nat \ {0}
    /\ \A w \in Words : ProgramPage + w \in Pages
    /\ Garbage \notin Strings /\ Empty \notin Strings /\ Empty # Garbage

VARIABLES
    at,         \* where the processor is
    cr3,        \* the loaded directory: the kernel's, or the current task's
    ring, ds,   \* privilege level, and whose data segments are loaded
    esp, eax,   \* the program's stack pointer (a slot) and result register
    frame,      \* esp in the interrupt frame, and the page the frame is on
    saved_esp,  \* current_task->registers.esp
    stack,      \* stack[page]: the words on a page used as program stack
    text,       \* text[page]: the string at the start of a physical page
    call,       \* the running command, its result, and print's locals
    boot_live   \* the allocations when the program started (ghost)

cpuVars == <<cr3, ring, ds>>
userVars == <<esp, eax, stack, text>>
trapVars == <<at, cpuVars, userVars, frame, saved_esp, call, boot_live>>
systemVars == <<allVars, trapVars>>

(* The words at the top of the stack page that the program moves esp over. *)
StackSlots == 0 .. 2
Commands == {"sum", "print", "unknown"}
NoCall == [command |-> "none", res |-> 0, page |-> 0, tmp |-> NULL,
           old |-> Entry(0, FALSE), buff |-> Garbage, asked |-> Garbage]

TrapInit ==
    /\ LoadInit
    /\ at = "boot" /\ cr3 = "kernel" /\ ring = 0 /\ ds = "kernel"
    /\ esp = 0 /\ eax = 0 /\ frame = [esp |-> 0, page |-> 0] /\ saved_esp = 0
    /\ stack = <<>> /\ text = <<>> /\ call = NoCall
    /\ boot_live = live

-----------------------------------------------------------------------------
(* Memory as the processor sees it.                                        *)
Directory == chunks[tasks[current].dir]
Running == tasks[current].process

PhysOf(cr, v) == IF cr = "task" THEN PagingGet(Directory, v).to ELSE v

StackTopPage == StackPage + BlocksOf(StackSize) - 1

StackAt(cr) ==
    LET page == PhysOf(cr, StackTopPage)
    IN  IF page \in DOMAIN stack THEN stack[page] ELSE [i \in StackSlots |-> 0]

TextAt(page) == IF page \in DOMAIN text THEN text[page] ELSE Garbage

(* The page that the word on top of the program's stack points to.         *)
NamedPage == PhysOf("task", ProgramPage + StackAt("task")[esp])

-----------------------------------------------------------------------------
(* kernel_main from the loading of the program on.                         *)
Boot == at = "boot" /\ LoadNext /\ UNCHANGED trapVars

(* A failed load panics, and so does task_run_first_ever_task with no      *)
(* current task; otherwise the first task of the list starts in user land. *)
Panic ==
    /\ at = "boot" /\ pc = "idle" /\ loads = 1
    /\ result = "error" \/ (result = "ok" /\ current = NULL)
    /\ at' = "halted"
    /\ UNCHANGED <<allVars, cpuVars, userVars, frame, saved_esp, call, boot_live>>

RunFirstTask ==
    /\ at = "boot" /\ pc = "idle" /\ loads = 1 /\ result = "ok" /\ current # NULL
    /\ current' = head
    /\ at' = "user" /\ cr3' = "task" /\ ring' = 3 /\ ds' = "user"
    /\ boot_live' = live
    /\ stack' = Put(stack, PageOf(procs[tasks[head].process].stack) + BlocksOf(StackSize) - 1,
                    [i \in StackSlots |-> 0])
    /\ \E s \in Strings :
          text' = [page \in {PageOf(b) : b \in DataRange(tasks[head].process)} |-> s]
    /\ UNCHANGED <<vars, fileVars, pagingVars, tasks, head, tail, loadVars, procVars,
                   esp, eax, frame, saved_esp, call>>

-----------------------------------------------------------------------------
(* What the program does between traps: it moves its stack pointer, writes *)
(* its stack and its memory.                                               *)
InUserLand == at = "user" /\ ring = 3

UserStack ==
    /\ InUserLand
    /\ esp' \in {0, 1}
    /\ \E i \in StackSlots, w \in Words :
          stack' = [stack EXCEPT ![PhysOf(cr3, StackTopPage)][i] = w]
    /\ UNCHANGED <<allVars, at, cpuVars, eax, text, frame, saved_esp, call, boot_live>>

UserWrite ==
    /\ InUserLand
    /\ \E v \in Pages, s \in Strings :
          /\ v # StackTopPage /\ PagingGet(Directory, v).w
          /\ text' = Put(text, PhysOf(cr3, v), s)
    /\ UNCHANGED <<allVars, at, cpuVars, esp, eax, stack, frame, saved_esp, call, boot_live>>

-----------------------------------------------------------------------------
(* Traps. The processor pushes the frame to the kernel stack through the   *)
(* directory that is loaded, the program's.                                *)
PushFrame ==
    /\ frame' = [esp |-> esp, page |-> PhysOf(cr3, KernelStackPage)]
    /\ ring' = 0

Int80(command) ==
    /\ InUserLand
    /\ PushFrame
    /\ at' = "int80"
    /\ call' = [NoCall EXCEPT !.command = command, !.asked = TextAt(NamedPage)]
    /\ UNCHANGED <<allVars, cr3, ds, userVars, saved_esp, boot_live>>

Interrupt ==
    /\ InUserLand
    /\ PushFrame
    /\ at' \in {"keyboard", "other_irq"}
    /\ UNCHANGED <<allVars, cr3, ds, userVars, saved_esp, call, boot_live>>

(* The gate of exception 0 is the C function idt_zero itself. It returns   *)
(* with ret: the program goes on, in ring 0. We follow it no further.      *)
DivideError ==
    /\ InUserLand
    /\ ring' = 0
    /\ UNCHANGED <<allVars, at, cr3, ds, userVars, frame, saved_esp, call, boot_live>>

(* The stubs do not know that a page fault pushes an error code: iret      *)
(* takes it for the address to return to.                                  *)
FaultWithCode ==
    /\ InUserLand
    /\ ~PagingGet(Directory, 0).w     \* it writes to page 0, say
    /\ at' = "lost" /\ ring' = 0
    /\ UNCHANGED <<allVars, cr3, ds, userVars, frame, saved_esp, call, boot_live>>

(* kernel_page, then task_current_save_state reads the frame where the     *)
(* kernel's directory has the kernel stack.                                *)
KernelPage == cr3' = "kernel" /\ ds' = "kernel"

FrameThere == frame.page = KernelStackPage

LoseFrame ==
    /\ at \in {"int80", "keyboard", "other_irq"} /\ ~FrameThere
    /\ KernelPage
    /\ at' = "lost"
    /\ UNCHANGED <<allVars, ring, userVars, frame, saved_esp, call, boot_live>>

EnterInt80_NoSave ==
    /\ at = "int80" /\ FrameThere
    /\ KernelPage
    /\ at' = call.command
    /\ UNCHANGED <<allVars, ring, userVars, frame, saved_esp, call, boot_live>>

EnterInt80 ==
    /\ at = "int80" /\ FrameThere
    /\ KernelPage
    /\ saved_esp' = frame.esp
    /\ at' = call.command
    /\ UNCHANGED <<allVars, ring, userVars, frame, call, boot_live>>

-----------------------------------------------------------------------------
(* isr80h_handle_command. task_get_stack_item loads the task's directory,  *)
(* reads at the saved stack pointer, and loads the kernel's again.         *)
StackItem(i) == StackAt("task")[saved_esp + i]

Unknown ==
    /\ at = "unknown"
    /\ call' = [call EXCEPT !.res = 0]
    /\ at' = "leave_int80"
    /\ UNCHANGED <<allVars, cpuVars, userVars, frame, saved_esp, boot_live>>

Sum_NoWrap ==
    /\ at = "sum"
    /\ call' = [call EXCEPT !.res = StackItem(1) + StackItem(0)]
    /\ at' = "leave_int80"
    /\ UNCHANGED <<allVars, cpuVars, userVars, frame, saved_esp, boot_live>>

Sum ==
    /\ at = "sum"
    /\ call' = [call EXCEPT !.res = (StackItem(1) + StackItem(0)) % WordMod]
    /\ at' = "leave_int80"
    /\ UNCHANGED <<allVars, cpuVars, userVars, frame, saved_esp, boot_live>>

PrintString ==
    /\ at = "print"
    /\ call' = [call EXCEPT !.page = ProgramPage + StackItem(0)]
    /\ at' = "copy"
    /\ UNCHANGED <<allVars, cpuVars, userVars, frame, saved_esp, boot_live>>

(* copy_string_from_task. A failed allocation ends it with -ENOMEM, which  *)
(* the command does not look at: it shows its uninitialized buffer. What   *)
(* kzalloc grants it clears, and the program may be pointing right there.  *)
CopyAlloc_Retry ==
    /\ at = "copy"
    /\ KZalloc(TmpSize)
    /\ IF ret' = NULL THEN UNCHANGED <<at, call, text>>
       ELSE /\ at' = "copy_map" /\ call' = [call EXCEPT !.tmp = ret']
            /\ text' = Put(text, PageOf(ret'), Empty)
    /\ UNCHANGED <<fileVars, pagingVars, listVars, loadVars, procVars, cpuVars, esp, eax, stack,
                   frame, saved_esp, boot_live>>

CopyAlloc ==
    /\ at = "copy"
    /\ KZalloc(TmpSize)
    /\ IF ret' = NULL THEN at' = "show" /\ UNCHANGED <<call, text>>
       ELSE /\ at' = "copy_map" /\ call' = [call EXCEPT !.tmp = ret']
            /\ text' = Put(text, PageOf(ret'), Empty)
    /\ UNCHANGED <<fileVars, pagingVars, listVars, loadVars, procVars, cpuVars, esp, eax, stack,
                   frame, saved_esp, boot_live>>

CopyMap_NoSwitch ==
    /\ at = "copy_map"
    /\ call' = [call EXCEPT !.old = PagingGet(Directory, PageOf(call.tmp))]
    /\ tabs' = MapTo(Directory, PageOf(call.tmp), PageOf(call.tmp), 1)
    /\ at' = "copy_read"
    /\ UNCHANGED <<vars, fileVars, dirs, chunks, listVars, loadVars, procVars, cpuVars, userVars,
                   frame, saved_esp, boot_live>>

CopyMap ==
    /\ at = "copy_map"
    /\ call' = [call EXCEPT !.old = PagingGet(Directory, PageOf(call.tmp))]
    /\ tabs' = MapTo(Directory, PageOf(call.tmp), PageOf(call.tmp), 1)
    /\ cr3' = "task"
    /\ at' = "copy_read"
    /\ UNCHANGED <<vars, fileVars, dirs, chunks, listVars, loadVars, procVars, ring, ds, userVars,
                   frame, saved_esp, boot_live>>

(* strncpy from the program's page to the temporary one, kernel_page.      *)
CopyRead ==
    /\ at = "copy_read"
    /\ text' = Put(text, PhysOf(cr3, PageOf(call.tmp)), TextAt(PhysOf(cr3, call.page)))
    /\ KernelPage
    /\ at' = "copy_restore"
    /\ UNCHANGED <<allVars, ring, esp, eax, stack, frame, saved_esp, call, boot_live>>

(* paging_set of the old entry, strncpy from the temporary page.           *)
CopyRestore_Forgotten ==
    /\ at = "copy_restore"
    /\ call' = [call EXCEPT !.buff = TextAt(PhysOf(cr3, PageOf(call.tmp)))]
    /\ at' = "copy_free"
    /\ UNCHANGED <<vars, fileVars, pagingVars, listVars, loadVars, procVars, cpuVars, userVars,
                   frame, saved_esp, boot_live>>

CopyRestore ==
    /\ at = "copy_restore"
    /\ tabs' = [tabs EXCEPT ![TableOf(Directory, PageOf(call.tmp))]
                                [TabIndex(PageOf(call.tmp))] = call.old]
    /\ call' = [call EXCEPT !.buff = TextAt(PhysOf(cr3, PageOf(call.tmp)))]
    /\ at' = "copy_free"
    /\ UNCHANGED <<vars, fileVars, dirs, chunks, listVars, loadVars, procVars, cpuVars, userVars,
                   frame, saved_esp, boot_live>>

CopyFree_Forgotten ==
    /\ at = "copy_free"
    /\ at' = "show"
    /\ UNCHANGED <<allVars, cpuVars, userVars, frame, saved_esp, call, boot_live>>

CopyFree ==
    /\ at = "copy_free"
    /\ KFree(call.tmp)
    /\ at' = "show"
    /\ UNCHANGED <<fileVars, pagingVars, listVars, loadVars, procVars, cpuVars, userVars,
                   frame, saved_esp, call, boot_live>>

(* print(buff): what is shown is call.buff.                                *)
Show ==
    /\ at = "show"
    /\ call' = [call EXCEPT !.res = 0]
    /\ at' = "leave_int80"
    /\ UNCHANGED <<allVars, cpuVars, userVars, frame, saved_esp, boot_live>>

-----------------------------------------------------------------------------
(* interrupt_handler, with the keyboard's callback, which calls task_page  *)
(* for a key pressed and does not for a key released.                      *)
Keyboard ==
    /\ at = "keyboard" /\ FrameThere
    /\ saved_esp' = frame.esp
    /\ \/ cr3' = "task" /\ ds' = "user"
       \/ KernelPage
    /\ at' = "leave_irq"
    /\ UNCHANGED <<allVars, ring, userVars, frame, call, boot_live>>

OtherInterrupt ==
    /\ at = "other_irq" /\ FrameThere
    /\ KernelPage
    /\ at' = "leave_irq"
    /\ UNCHANGED <<allVars, ring, userVars, frame, saved_esp, call, boot_live>>

(* task_page and iret. The program's registers come from the frame; int    *)
(* 0x80 alone changes one, eax.                                            *)
Leave ==
    /\ cr3' = "task" /\ ds' = "user" /\ ring' = 3
    /\ esp' = frame.esp
    /\ at' = "user"
    /\ UNCHANGED <<allVars, stack, text, frame, saved_esp, boot_live>>

LeaveIrq == at = "leave_irq" /\ Leave /\ UNCHANGED <<eax, call>>

LeaveInt80 == at = "leave_int80" /\ Leave /\ eax' = call.res /\ call' = NoCall

Handler ==
    \/ LoseFrame
    \/ EnterInt80 \/ Unknown \/ Sum \/ PrintString
    \/ CopyAlloc \/ CopyMap \/ CopyRead \/ CopyRestore \/ CopyFree \/ Show
    \/ LeaveInt80
    \/ Keyboard \/ OtherInterrupt \/ LeaveIrq

Program ==
    \/ UserStack \/ UserWrite
    \/ \E command \in Commands : Int80(command)
    \/ Interrupt \/ DivideError \/ FaultWithCode

TrapNext == Boot \/ Panic \/ RunFirstTask \/ Program \/ Handler

(* A handler is straight code that nothing interrupts: the processor       *)
(* executes it.                                                            *)
TrapSpec == TrapInit /\ [][TrapNext]_systemVars /\ WF_systemVars(Handler)

-----------------------------------------------------------------------------
InHandler == at \notin {"boot", "halted", "user", "lost"}

(* Control, the processor and the program's registers have their types.    *)
TrapTypeOK ==
    /\ at \in {"boot", "halted", "user", "lost", "int80", "keyboard", "other_irq",
              "copy", "copy_map", "copy_read", "copy_restore", "copy_free",
              "show", "leave_int80", "leave_irq"} \cup Commands
    /\ cr3 \in {"kernel", "task"} /\ ds \in {"kernel", "user"} /\ ring \in {0, 3}
    /\ esp \in {0, 1} /\ saved_esp \in {0, 1} /\ eax \in 0 .. (WordMod - 1)
    /\ \A page \in DOMAIN stack : stack[page] \in [StackSlots -> Words \cup {0}]
    /\ \A page \in DOMAIN text : text[page] \in Strings \cup {Garbage, Empty}

(* Whenever the program runs it sees exactly the address space that        *)
(* process_load built, with its own directory and segments loaded: no      *)
(* command leaves its temporary mapping behind, no interrupt path returns  *)
(* under the kernel's directory.                                           *)
ProgramSeesItself == at = "user" => UserImage /\ cr3 = "task" /\ ds = "user"

(* print shows the string that the program's pointer designated when it    *)
(* asked, read through the program's directory. It shows the empty string  *)
(* if the pointer leads to the buffer, which kzalloc cleared after the     *)
(* program asked, and with the heap full a buffer nobody has written.      *)
PrintsUserString ==
    at = "show" =>
        \/ /\ call.tmp # NULL
           /\ call.buff = IF NamedPage = PageOf(call.tmp) THEN Empty ELSE call.asked
        \/ call.tmp = NULL /\ \A b \in Blocks : ~Free(b)

(* sum returns the sum of the two words on top of the stack the program    *)
(* had when it asked, in 32 bits.                                          *)
SumIsRight ==
    at = "leave_int80" /\ call.command = "sum" =>
        call.res = (StackAt("task")[esp] + StackAt("task")[esp + 1]) % WordMod

(* A command gives back what it allocates: whatever the program has done,  *)
(* it runs with the allocations it started with.                           *)
CommandsDoNotLeak == at = "user" => live = boot_live

(* The kernel loses its way only after an exception with an error code, or *)
(* when the program is so large that its pages hide the kernel's stack.    *)
LostOnlyIf ==
    at = "lost" /\ cr3 = "kernel" =>
        KernelStackPage - ProgramPage \in 0 .. (BlocksOf(procs[Running].size) - 1)

(* Every trap the kernel does not lose comes back to the program.          *)
TrapsReturn == InHandler ~> at \in {"user", "lost"}

(* task.asm:48 says that the program is started to execute in user land:   *)
(* program code runs in ring 3.                                            *)
ProgramInUserLand == at = "user" => ring = 3
=============================================================================
