------------------------------- MODULE MCHeap -------------------------------
(***************************************************************************)
(* A heap of six blocks of four bytes, with sizes modulo 64, so sixteen    *)
(* blocks of addresses, the last of them the kernel's: requests of 0       *)
(* bytes, of one, two and five blocks, exact and rounded, one of twelve    *)
(* blocks, whose marks may reach the kernel's image, and one so near the   *)
(* top of size_t that rounding wraps to 0 while memset goes all the way.   *)
(***************************************************************************)
EXTENDS Heap

MCRequests == {0, 1, 4, 5, 17, 48, SizeMod - 1}
=============================================================================
