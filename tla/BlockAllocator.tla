--------------------------- MODULE BlockAllocator ---------------------------
(***************************************************************************)
(* What an allocator of whole blocks promises its callers, with no table   *)
(* and no search: a granted range overlaps no range still held, a held     *)
(* range keeps its length until it is released, and a request is refused   *)
(* only when the heap has no free run of that length.                      *)
(*                                                                         *)
(* The promise says nothing of the upper end of the heap: the kernel's     *)
(* allocator does not keep that one (MCHeapEnd.cfg).                       *)
(***************************************************************************)
EXTENDS Integers

CONSTANTS
    Starts,     \* the block numbers at which a range may start
    Lengths,    \* the numbers of blocks a caller may ask for
    NULL        \* the answer to a refused request

VARIABLES
    held,       \* held[b]: how many blocks, from b on, a caller owns (0: none)
    asked,      \* the length of the last request
    answer      \* the start it returned, or NULL

vars == <<held, asked, answer>>

Range(b, n) == b .. (b + n - 1)

FreeRun(b, n) ==
    /\ Range(b, n) \subseteq Starts
    /\ \A c \in Starts : Range(b, n) \cap Range(c, held[c]) = {}

Init == held = [b \in Starts |-> 0] /\ asked = 0 /\ answer = NULL

Grant(b, n) ==
    /\ held[b] = 0
    /\ \A c \in Starts : Range(b, n) \cap Range(c, held[c]) = {}
    /\ held' = [held EXCEPT ![b] = n]
    /\ asked' = n /\ answer' = b

Refuse(n) ==
    /\ n > 0 => \A b \in Starts : ~FreeRun(b, n)
    /\ asked' = n /\ answer' = NULL
    /\ UNCHANGED held

Release(b) ==
    /\ held[b] > 0
    /\ held' = [held EXCEPT ![b] = 0]
    /\ UNCHANGED <<asked, answer>>

Next ==
    \/ \E b \in Starts, n \in Lengths : Grant(b, n)
    \/ \E n \in Lengths : Refuse(n)
    \/ \E b \in Starts : Release(b)

Spec == Init /\ [][Next]_vars
=============================================================================
