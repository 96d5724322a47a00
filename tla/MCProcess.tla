----------------------------- MODULE MCProcess ------------------------------
(***************************************************************************)
(* Two slots and three loads of files of no page, one and two, and of a    *)
(* directory, over a heap of 32 blocks that the boot code has filled to    *)
(* any height, so that each allocation of a load is the one that fails in  *)
(* some behaviour. A load takes 14 or 15 blocks, and four more while its   *)
(* file is open. Tables have 20 entries: the stack is at the end of the    *)
(* first one, the program at the start of the second, the heap spans two.  *)
(***************************************************************************)
EXTENDS Process

File(name, size) == [name |-> name, dir |-> FALSE, items |-> 0, size |-> size]
MCRoot == << File("small", 3), File("big", 8), File("empty", 0),
             [name |-> "d", dir |-> TRUE, items |-> 2, size |-> 0] >>
MCCalls == {[drive |-> 0, parts |-> <<name>>, read |-> TRUE] :
                name \in {"small", "big", "empty", "d"}}
MCRequests == {0, 1, 3, 4, 5, 8}
MCBootSizes == 0 .. Total
=============================================================================
