------------------------------- MODULE Names --------------------------------
(***************************************************************************)
(* Names as characters: the strings of src/src/string/string.c, the paths  *)
(* of src/src/fs/pparser.c, and the names of directory items, which        *)
(* fat/fat16.c turns into strings. A string is the sequence of its         *)
(* characters before the terminating 0; a character is its code.           *)
(*                                                                         *)
(* The fields of a directory item follow each other in memory, and the     *)
(* code reads on from one to the next where nothing stops it.              *)
(***************************************************************************)
EXTENDS Integers, Sequences

CONSTANTS
    NameLen,    \* the bytes of filename in a fat_directory_item, 8
    ExtLen,     \* the bytes of ext, 3
    MaxPath     \* GUAVAOS_MAX_PATH

ASSUME NamesAssumption ==
    /\ NameLen \in Nat \ {0} /\ ExtLen \in Nat \ {0} /\ MaxPath \in Nat

Space == 32
Dot == 46
Slash == 47
Colon == 58

IsDigit(c) == c \in 48 .. 57
ToNumericDigit(c) == c - 48
ToLower_OffByOne(c) == IF c \in 65 .. 89 THEN c + 32 ELSE c
ToLower(c) == IF c \in 65 .. 90 THEN c + 32 ELSE c

(* Characters that have the high bit set are negative chars, not letters.  *)
At(s, i) == IF i \in DOMAIN s THEN s[i] ELSE 0

(* istrncmp(s, t, n) = 0: the loop ends at a difference or at the 0 of s.  *)
Same(s, t, n) ==
    \A i \in 1 .. n : i <= Len(s) + 1 => ToLower(At(s, i)) = ToLower(At(t, i))

-----------------------------------------------------------------------------
(* Directory items.                                                        *)
EndMark == 0
DeletedMark == 229      \* 0xE5
ArchiveAttribute == 32
LabelAttribute == 8

Bytes == 0 .. 255
DirectoryItems ==
    [filename : [1 .. NameLen -> Bytes], ext : [1 .. ExtLen -> Bytes], attribute : Bytes]

(* The bytes of an item from its filename to its reserved byte, which is 0.*)
Memory(item) == item.filename \o item.ext \o <<item.attribute, 0>>

(* fat16_to_proper_string: up to a space or a 0, wherever that is.         *)
ProperString(item, from) ==
    LET stops == {k \in from .. Len(Memory(item)) : Memory(item)[k] \in {0, Space}}
        stop  == CHOOSE k \in stops : \A j \in stops : k <= j
    IN  SubSeq(Memory(item), from, stop - 1)

FullName_DotAlways(item) ==
    ProperString(item, 1) \o <<Dot>> \o ProperString(item, NameLen + 1)

FullName(item) ==
    ProperString(item, 1) \o
        (IF item.ext[1] \in {0, Space} THEN <<>>
         ELSE <<Dot>> \o ProperString(item, NameLen + 1))

-----------------------------------------------------------------------------
(* Paths. The drive is the leading digit; parts follow each other with a   *)
(* slash between them, and the first empty one ends the path.              *)
ValidFormat(path) ==
    /\ Len(path) >= 3
    /\ IsDigit(path[1]) /\ path[2] = Colon /\ path[3] = Slash

Accepted(path) == Len(path) <= MaxPath /\ ValidFormat(path)

Drive(path) == ToNumericDigit(path[1])

(* pathparser_get_path_part: the characters before the next slash or end.  *)
PartAt(path, from) ==
    LET ends == {k \in from .. (Len(path) + 1) : At(path, k) \in {0, Slash}}
        end  == CHOOSE k \in ends : \A j \in ends : k <= j
    IN  SubSeq(path, from, end - 1)

AfterPart_SlashStays(path, from) == from + Len(PartAt(path, from))

AfterPart(path, from) ==
    LET end == from + Len(PartAt(path, from))
    IN  IF At(path, end) = Slash THEN end + 1 ELSE end

Parts(path) ==
    LET parts[from \in 1 .. (Len(path) + 1)] ==
            IF PartAt(path, from) = <<>> THEN <<>>
            ELSE <<PartAt(path, from)>> \o parts[AfterPart(path, from)]
    IN  parts[4]
=============================================================================
