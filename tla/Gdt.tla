-------------------------------- MODULE Gdt ---------------------------------
(***************************************************************************)
(* The segment descriptors of src/src/gdt/gdt.c. 32-bit numbers are kept   *)
(* in halves of 16 bits: hi and lo.                                        *)
(***************************************************************************)
EXTENDS Integers, Sequences

Word == 0 .. 65535
Byte == 0 .. 255

(* gdt_structured: base, limit and type.                                  *)
Segments == [base_hi : Word, base_lo : Word, limit_hi : Word, limit_lo : Word, type : Byte]
Descriptors == [0 .. 7 -> Byte]

(* limit > 65536, which is one more than the largest 16-bit number.        *)
Big(s) == s.limit_hi > 1 \/ (s.limit_hi = 1 /\ s.limit_lo > 0)

(* A limit in pages of 4096 bytes ends with a page, or the code panics.    *)
Refused_Never(s) == FALSE

Refused(s) == Big(s) /\ s.limit_lo % 4096 # 4095

LimitLow(s) == IF Big(s) THEN (s.limit_hi * 16 + s.limit_lo \div 4096) % 65536 ELSE s.limit_lo
LimitHigh(s) == IF Big(s) THEN s.limit_hi \div 4096 ELSE s.limit_hi

(* encode_gdt_entry: the limit is in pages of 4096 bytes if it is big, and *)
(* bit 7 of byte 6 says so; bit 6 says that the segment has 32-bit code.   *)
Encode(s) ==
    [i \in 0 .. 7 |->
        CASE i = 0 -> LimitLow(s) % 256
          [] i = 1 -> LimitLow(s) \div 256
          [] i = 2 -> s.base_lo % 256
          [] i = 3 -> s.base_lo \div 256
          [] i = 4 -> s.base_hi % 256
          [] i = 5 -> s.type
          [] i = 6 -> (IF Big(s) THEN 192 ELSE 64) + LimitHigh(s)
          [] i = 7 -> s.base_hi \div 256]

(* The processor's reading of a descriptor.                                *)
InPages(d) == d[6] >= 128
FieldLow(d) == d[0] + 256 * d[1]
FieldHigh(d) == d[6] % 16

Meaning(d) ==
    [base_lo  |-> d[2] + 256 * d[3],
     base_hi  |-> d[4] + 256 * d[7],
     limit_lo |-> IF InPages(d) THEN (FieldLow(d) % 16) * 4096 + 4095 ELSE FieldLow(d),
     limit_hi |-> IF InPages(d) THEN FieldHigh(d) * 4096 + FieldLow(d) \div 16 ELSE FieldHigh(d),
     type     |-> d[5]]
=============================================================================
