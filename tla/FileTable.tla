----------------------------- MODULE FileTable ------------------------------
(***************************************************************************)
(* What a table of open files promises those who call fopen and fclose,    *)
(* with no descriptor, no slot and no memory: a number is given out only   *)
(* while no open file has it, it stands for one file until it is closed,   *)
(* and closing one leaves the others open.                                 *)
(***************************************************************************)
EXTENDS Integers

CONSTANTS
    Numbers,    \* the numbers that may be given out
    Files,      \* what may be opened
    Closed      \* not a file

VARIABLES
    opened,     \* opened[n]: the file that n stands for, or Closed
    answer      \* what the last call returned

vars == <<opened, answer>>

Init == opened = [n \in Numbers |-> Closed] /\ answer = 0

Open(n, f) ==
    /\ opened[n] = Closed
    /\ opened' = [opened EXCEPT ![n] = f]
    /\ answer' = n

(* An fopen that runs out of memory at the very end returns a number that  *)
(* stands for nothing; it is a number that nobody else has.                *)
Hollow(n) == opened[n] = Closed /\ answer' = n /\ UNCHANGED opened

(* A failed fopen, or a call with a number that names no file.             *)
Refuse == answer' \in {0, -1} /\ UNCHANGED opened

Close(n) ==
    /\ opened[n] # Closed
    /\ opened' = [opened EXCEPT ![n] = Closed]
    /\ answer' = 0

Next ==
    \/ \E n \in Numbers, f \in Files : Open(n, f)
    \/ \E n \in Numbers : Hollow(n) \/ Close(n)
    \/ Refuse

Spec == Init /\ [][Next]_vars
=============================================================================
