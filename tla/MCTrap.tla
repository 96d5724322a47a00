------------------------------- MODULE MCTrap -------------------------------
(***************************************************************************)
(* One program of one page or three, the last of which lies where the      *)
(* kernel's stack is, or an empty file, which is refused, over a heap that *)
(* the boot code has filled to any height; two strings, and words whose    *)
(* sum wraps: a pointer to the program's second page and one to page 34,   *)
(* the heap's block that most heights leave to print for its buffer.       *)
(***************************************************************************)
EXTENDS Trap

File(name, size) == [name |-> name, dir |-> FALSE, items |-> 0, size |-> size]
MCRoot == << File("small", 3), File("big", 12), File("empty", 0) >>
MCCalls == {[drive |-> 0, parts |-> <<name>>, read |-> TRUE] : name \in {"small", "big", "empty"}}
MCRequests == {0, 1, 3, 4, 5, 8, 12}
MCBootSizes == 0 .. Total
MCWords == {1, 18}
MCStrings == {"text", "data"}
=============================================================================
