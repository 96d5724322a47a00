------------------------------ MODULE Keyboard ------------------------------
(***************************************************************************)
(* From the key to the buffer of a process: src/src/keyboard/ps2.c and     *)
(* keyboard.c.                                                             *)
(*                                                                         *)
(* The controller is external: it holds the bytes of keys pressed and      *)
(* released in order and raises the interrupt while it holds one. The      *)
(* handler reads the port twice, and the second byte, if the controller    *)
(* has it ready by then, is gone. The buffer of the process is a ring      *)
(* whose indices are reduced modulo its size; a 0 in it is an empty slot.  *)
(***************************************************************************)
EXTENDS Integers, Sequences

CONSTANTS
    Keys,       \* characters of the scan code table
    NoKey,      \* 0x00: an empty slot, and a scan code without a character
    Size,       \* GUAVAOS_KEYBOARD_BUFFER_SIZE
    PortSize,   \* bytes the controller and the keyboard hold together
    MaxTail     \* bound: the keys pushed altogether

ASSUME KeyboardAssumption ==
    Size \in Nat \ {0} /\ PortSize \in Nat \ {0} /\ MaxTail \in Nat /\ NoKey \notin Keys

VARIABLES
    port,       \* bytes not yet read: keys pressed and released
    buffer,     \* process->keyboard.buffer
    head, tail, \* process->keyboard.head and tail
    answer,     \* what the last keyboard_pop returned
    overrun     \* a key was pushed into a full buffer (ghost)

vars == <<port, buffer, head, tail, answer, overrun>>

Slot(i) == i % Size
Pressed(c) == [key |-> c, released |-> FALSE]
Released(c) == [key |-> c, released |-> TRUE]
Bytes == {Pressed(c) : c \in Keys \cup {NoKey}} \cup {Released(c) : c \in Keys \cup {NoKey}}

Init ==
    /\ port = <<>>
    /\ buffer = [i \in 0 .. (Size - 1) |-> NoKey]
    /\ head = 0 /\ tail = 0 /\ answer = NoKey /\ overrun = FALSE

(* The controller, external. Keys without a character are NoKey.           *)
Type(byte) ==
    /\ Len(port) < PortSize
    /\ port' = Append(port, byte)
    /\ UNCHANGED <<buffer, head, tail, answer, overrun>>

-----------------------------------------------------------------------------
(* keyboard_push, for the process that process_current() names.            *)
Push_TailFirst(c) ==
    /\ tail' = tail + 1
    /\ buffer' = [buffer EXCEPT ![Slot(tail')] = c]
    /\ overrun' = (overrun \/ tail - head = Size)

Push(c) ==
    /\ buffer' = [buffer EXCEPT ![Slot(tail)] = c]
    /\ tail' = tail + 1
    /\ overrun' = (overrun \/ tail - head = Size)

(* ps2_keyboard_handle_interrupt: a release and a key without a character  *)
(* are dropped; so is the byte that the second read takes.                 *)
HandleInterrupt_PushesScanCode ==
    /\ port # <<>> /\ tail < MaxTail
    /\ \/ port' = Tail(port)
       \/ Len(port) > 1 /\ port' = Tail(Tail(port))
    /\ LET byte == Head(port)
       IN  IF byte.released \/ byte.key = NoKey
           THEN UNCHANGED <<buffer, tail, overrun>>
           ELSE Push(byte)
    /\ UNCHANGED <<head, answer>>

HandleInterrupt ==
    /\ port # <<>> /\ tail < MaxTail
    /\ \/ port' = Tail(port)
       \/ Len(port) > 1 /\ port' = Tail(Tail(port))
    /\ LET byte == Head(port)
       IN  IF byte.released \/ byte.key = NoKey
           THEN UNCHANGED <<buffer, tail, overrun>>
           ELSE Push(byte.key)
    /\ UNCHANGED <<head, answer>>

(* keyboard_pop, for the process of the current task, the same process.    *)
Pop_NotCleared ==
    /\ answer' = buffer[Slot(head)]
    /\ head' = IF buffer[Slot(head)] = NoKey THEN head ELSE head + 1
    /\ UNCHANGED <<port, buffer, tail, overrun>>

Pop ==
    /\ answer' = buffer[Slot(head)]
    /\ IF buffer[Slot(head)] = NoKey THEN UNCHANGED <<buffer, head>>
       ELSE /\ buffer' = [buffer EXCEPT ![Slot(head)] = NoKey]
            /\ head' = head + 1
    /\ UNCHANGED <<port, tail, overrun>>

(* keyboard_backspace tests nothing; with no key waiting it would step     *)
(* back over the head. Its callers are to call it with a key waiting.      *)
Backspace ==
    /\ tail > head
    /\ tail' = tail - 1
    /\ buffer' = [buffer EXCEPT ![Slot(tail')] = NoKey]
    /\ UNCHANGED <<port, head, answer, overrun>>

Next ==
    \/ \E byte \in Bytes : Type(byte)
    \/ HandleInterrupt \/ Pop \/ Backspace

Spec == Init /\ [][Next]_vars

-----------------------------------------------------------------------------
(* The ring, the port and the answers have their types.                    *)
TypeOK ==
    /\ port \in Seq(Bytes) /\ Len(port) <= PortSize
    /\ buffer \in [0 .. (Size - 1) -> Keys \cup {NoKey}]
    /\ head \in Nat /\ tail \in Nat
    /\ answer \in Keys \cup {NoKey} /\ overrun \in BOOLEAN

(* Until a key is pushed into a full buffer, the slots with a key in them  *)
(* are those from head to tail: the zero test of keyboard_pop, the only    *)
(* one there is, tells an empty buffer from a full one.                    *)
KeysBetweenHeadAndTail ==
    ~overrun =>
        /\ head <= tail /\ tail - head <= Size
        /\ \A i \in head .. (head + Size - 1) :
              (buffer[Slot(i)] # NoKey) = (i < tail)

(* The buffer is the queue of KeyQueue until it overruns.                  *)
Waiting == [i \in 1 .. (tail - head) |-> buffer[Slot(head + i - 1)]]

Promise == INSTANCE KeyQueue WITH
    Capacity <- Size, waiting <- IF overrun THEN <<>> ELSE Waiting

KeepsOrder == Promise!Spec
=============================================================================
