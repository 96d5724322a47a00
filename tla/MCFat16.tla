------------------------------ MODULE MCFat16 -------------------------------
(***************************************************************************)
(* Sectors of four bytes, clusters of two sectors; a file of one cluster   *)
(* and files of three, in order and out of order; reads of part of a       *)
(* sector, of a sector, of more, of a whole cluster and of more.           *)
(***************************************************************************)
EXTENDS Fat16

MCFiles == {[chain |-> <<2>>, size |-> 7], [chain |-> <<2, 3, 4>>, size |-> 20],
            [chain |-> <<3, 5, 4>>, size |-> 17]}
MCSizes == {0, 1, 4, 6, 8, 11}
MCCounts == 0 .. 2
MCOffsets == {0, 1, 4, 8, 20}
MCMarks == {0, 90, 91}
MCElsewhere == {0, 4, 5}
=============================================================================
