------------------------------ MODULE MCFiles -------------------------------
(***************************************************************************)
(* A directory with a file, a deleted slot, a subdirectory and a file that *)
(* the search no longer reaches; paths of one part, of two and of none.    *)
(* Four opens, three numbers: the slots run out, a number is used again,   *)
(* and, over a heap that is filled to various heights at the start, each   *)
(* allocation of an fopen is the one that fails in some behaviour.         *)
(***************************************************************************)
EXTENDS Files

MCRequests == {0, 1, 2, 4, 6, 8}
File(name) == [name |-> name, dir |-> FALSE, items |-> 0, size |-> 1]
MCRoot == << File("a"),
             File("gone"),
             [name |-> "d", dir |-> TRUE, items |-> 3, size |-> 0],
             File("b") >>
Call(drive, parts, read) == [drive |-> drive, parts |-> parts, read |-> read]
MCCalls == {Call(0, <<"a">>, TRUE), Call(0, <<"d">>, TRUE), Call(0, <<"d", "a">>, TRUE),
            Call(0, <<"b">>, TRUE), Call(0, <<>>, FALSE)}
MCBootSizes == {0, 11} \cup (20 .. Total)
=============================================================================
