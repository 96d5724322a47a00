------------------------------ MODULE KeyQueue ------------------------------
(***************************************************************************)
(* What a keyboard buffer promises the program that reads it: keys come    *)
(* out in the order they were put in, each once, a key rubbed out never,   *)
(* and nothing comes out only when nothing is waiting. The promise is off  *)
(* once more keys are waiting than the buffer holds.                       *)
(***************************************************************************)
EXTENDS Integers, Sequences

CONSTANTS
    Keys,       \* the characters
    Capacity,   \* how many may wait
    NoKey       \* what a read returns when none waits

VARIABLES
    waiting,    \* the keys put in and not yet read
    answer,     \* what the last read returned
    overrun     \* the promise is off

vars == <<waiting, answer, overrun>>

Init == waiting = <<>> /\ answer = NoKey /\ overrun = FALSE

Put(c) ==
    /\ ~overrun /\ Len(waiting) < Capacity
    /\ waiting' = Append(waiting, c)
    /\ UNCHANGED <<answer, overrun>>

RubOut ==
    /\ ~overrun /\ waiting # <<>>
    /\ waiting' = SubSeq(waiting, 1, Len(waiting) - 1)
    /\ UNCHANGED <<answer, overrun>>

Read ==
    /\ ~overrun
    /\ IF waiting = <<>> THEN answer' = NoKey /\ UNCHANGED waiting
       ELSE answer' = Head(waiting) /\ waiting' = Tail(waiting)
    /\ UNCHANGED overrun

Overrun == ~overrun /\ Len(waiting) = Capacity /\ overrun' = TRUE

Next == (\E c \in Keys : Put(c)) \/ RubOut \/ Read \/ Overrun

(* Once the promise is off, anything may come out.                         *)
Spec == Init /\ [][Next \/ (overrun /\ overrun')]_vars
=============================================================================
