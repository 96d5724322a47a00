----------------------------- MODULE GdtProofs -----------------------------
(***************************************************************************)
(* Proofs about src/src/gdt/gdt.c: the processor reads back what was       *)
(* encoded, for every base, limit and type.                                *)
(***************************************************************************)
EXTENDS Gdt, TLAPS

(* The fields of a segment as integers, as the SMT solver needs them.      *)
LEMMA WordBounds ==
    ASSUME NEW n \in Word
    PROVE  n \in Int /\ 0 <= n /\ n <= 65535
BY DEF Word

(* A number of sixteen bits, cut in two bytes and put together again.      *)
LEMMA TwoBytes ==
    ASSUME NEW n \in Int, 0 <= n, n <= 65535
    PROVE  (n % 256) + 256 * (n \div 256) = n
BY SMT

(* The same for the limit in pages: hi is cut behind its highest four bits *)
(* to the right of which the highest four bits of lo are put.              *)
LEMMA PageLimit ==
    ASSUME NEW hi \in Int, 0 <= hi, hi <= 65535,
           NEW lo \in Int, 0 <= lo, lo <= 65535, lo % 4096 = 4095
    PROVE  LET low == (hi * 16 + (lo \div 4096)) % 65536
           IN  /\ low \in Int /\ 0 <= low /\ low <= 65535
               /\ (hi \div 4096) * 4096 + (low \div 16) = hi
               /\ (low % 16) * 4096 + 4095 = lo
<1> DEFINE t == hi \div 4096
           r == hi % 4096
           p == lo \div 4096
           low == (hi * 16 + p) % 65536
<1>1. t \in Int /\ r \in Int /\ 0 <= r /\ r <= 4095 /\ hi = t * 4096 + r
    BY SMT
<1>2. p \in Int /\ 0 <= p /\ p <= 15 /\ lo = p * 4096 + 4095
    BY SMT
<1>3. low = r * 16 + p
    <2> HIDE DEF t, r, p
    <2>1. hi * 16 + p = t * 65536 + (r * 16 + p)
        BY <1>1, <1>2
    <2> DEFINE m == r * 16 + p
    <2>2. m \in Int /\ 0 <= m /\ m <= 65535
        BY <1>1, <1>2
    <2> HIDE DEF m
    <2>3. (t * 65536 + m) % 65536 = m
        BY <1>1, <2>2
    <2> QED BY <2>1, <2>3 DEF m
<1> HIDE DEF t, r, p, low
<1>4. low \in Int /\ 0 <= low /\ low <= 65535
    BY <1>1, <1>2, <1>3
<1>5. low \div 16 = r
    BY <1>1, <1>2, <1>3
<1>6. low % 16 = p
    BY <1>1, <1>2, <1>3
<1> QED BY <1>1, <1>2, <1>4, <1>5, <1>6 DEF t, p, low

(* The flags in byte 6 leave the highest four bits of the limit alone.     *)
LEMMA FlagBits ==
    ASSUME NEW t \in Int, 0 <= t, t <= 15
    PROVE  (192 + t) % 16 = t /\ (64 + t) % 16 = t
<1>1. (192 + t) % 16 = t
    BY SMT
<1>2. (64 + t) % 16 = t
    BY SMT
<1> QED BY <1>1, <1>2

(* gdt_structured_to_gdt: a segment that is not refused means to the       *)
(* processor what it says: base, limit and type.                           *)
THEOREM DescriptorKept ==
    ASSUME NEW s \in Segments, ~Refused(s)
    PROVE  Meaning(Encode(s)) = s
<1> DEFINE hi == s.limit_hi
           lo == s.limit_lo
           d  == Encode(s)
<1>1. /\ hi \in Int /\ 0 <= hi /\ hi <= 65535
      /\ lo \in Int /\ 0 <= lo /\ lo <= 65535
    <2>1. hi \in Word /\ lo \in Word
        BY DEF Segments
    <2> QED BY <2>1, WordBounds
<1>2. /\ d[2] + 256 * d[3] = s.base_lo
      /\ d[4] + 256 * d[7] = s.base_hi
      /\ d[5] = s.type
    <2>1. /\ s.base_lo \in Int /\ 0 <= s.base_lo /\ s.base_lo <= 65535
          /\ s.base_hi \in Int /\ 0 <= s.base_hi /\ s.base_hi <= 65535
        <3>1. s.base_lo \in Word /\ s.base_hi \in Word
            BY DEF Segments
        <3> QED BY <3>1, WordBounds
    <2>2. /\ d[2] = s.base_lo % 256 /\ d[3] = s.base_lo \div 256
          /\ d[4] = s.base_hi % 256 /\ d[7] = s.base_hi \div 256
          /\ d[5] = s.type
        BY DEF Encode
    <2>3. (s.base_lo % 256) + 256 * (s.base_lo \div 256) = s.base_lo
        BY <2>1, TwoBytes
    <2>4. (s.base_hi % 256) + 256 * (s.base_hi \div 256) = s.base_hi
        BY <2>1, TwoBytes
    <2> QED BY <2>2, <2>3, <2>4
<1>3. /\ d[0] = LimitLow(s) % 256 /\ d[1] = LimitLow(s) \div 256
      /\ d[6] = (IF Big(s) THEN 192 ELSE 64) + LimitHigh(s)
    BY DEF Encode
<1>4. Meaning(d).limit_lo = lo /\ Meaning(d).limit_hi = hi
    <2>1. CASE Big(s)
        <3>1. lo % 4096 = 4095
            BY <2>1 DEF Refused
        <3> DEFINE low == (hi * 16 + (lo \div 4096)) % 65536
                   t   == hi \div 4096
        <3>2. /\ low \in Int /\ 0 <= low /\ low <= 65535
              /\ t * 4096 + (low \div 16) = hi
              /\ (low % 16) * 4096 + 4095 = lo
            <4> HIDE DEF hi, lo, d
            <4> QED BY <1>1, <3>1, PageLimit
        <3>3. t \in Int /\ 0 <= t /\ t <= 15
            BY <1>1, SMT
        <3>4. LimitLow(s) = low /\ LimitHigh(s) = t
            BY <2>1 DEF LimitLow, LimitHigh
        <3> HIDE DEF low, t
        <3>5. FieldLow(d) = low
            BY <1>3, <3>2, <3>4, TwoBytes DEF FieldLow
        <3>6. d[6] = 192 + t
            BY <1>3, <2>1, <3>4
        <3>7. FieldHigh(d) = t /\ InPages(d)
            BY <3>3, <3>6, FlagBits DEF FieldHigh, InPages
        <3> QED BY <3>2, <3>5, <3>7 DEF Meaning
    <2>2. CASE ~Big(s)
        <3>1. LimitLow(s) = lo /\ LimitHigh(s) = hi /\ hi <= 1
            BY <1>1, <2>2 DEF LimitLow, LimitHigh, Big
        <3>2. FieldLow(d) = lo
            BY <1>1, <1>3, <3>1, TwoBytes DEF FieldLow
        <3>3. d[6] = 64 + hi
            BY <1>3, <2>2, <3>1
        <3>4. FieldHigh(d) = hi
            BY <1>1, <3>1, <3>3, FlagBits DEF FieldHigh
        <3>5. ~InPages(d)
            BY <1>1, <3>1, <3>3 DEF InPages
        <3> QED BY <3>2, <3>4, <3>5 DEF Meaning
    <2> QED BY <2>1, <2>2
<1>5. Meaning(d) = [base_lo |-> s.base_lo, base_hi |-> s.base_hi, limit_lo |-> lo,
                    limit_hi |-> hi, type |-> s.type]
    BY <1>2, <1>4 DEF Meaning
<1> QED BY <1>5 DEF Segments
=============================================================================
