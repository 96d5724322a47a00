---------------------------- MODULE KernelProofs ----------------------------
(***************************************************************************)
(* Proofs about the start of the kernel, for screens and names of any      *)
(* size, disks and directories of any layout, and paths and messages of    *)
(* any length: its segments; the text on the screen; what it mounts; the   *)
(* types of its state; the names it reads from directory items; the parts  *)
(* it takes a path apart into; and the file it opens by name.              *)
(*                                                                         *)
(* Loops are recursive functions here. That one has a value is shown by    *)
(* building it up from runs that are too short: were there none of some    *)
(* length, there would be a least such length. What a loop has done after  *)
(* n turns is shown in the same way, by the least turn at which it is not  *)
(* so (Least, from the well-foundedness of the natural numbers).           *)
(***************************************************************************)
EXTENDS Kernel, GdtProofs, FiniteSetTheorems, FunctionTheorems, SequenceTheorems,
        WellFoundedInduction, NaturalsInduction

-----------------------------------------------------------------------------
(* The segments.                                                           *)

(* The table that is encoded stays the table kernel.c has.                 *)
SegmentsInv == gdt_structured \in Seq(Segments) /\ SegmentsMeanWhatTheySay

(* No segment has been encoded when the kernel starts.                     *)
LEMMA SegmentsStart == Init => SegmentsInv
BY KernelAssumption DEF Init, SegmentsInv, SegmentsMeanWhatTheySay

(* encode_gdt_entry, over the whole table.                                 *)
LEMMA SegmentsEncoded ==
    ASSUME SegmentsInv, EncodeGdt
    PROVE  SegmentsInv'
<1>1. gdt_structured \in Seq(Segments) /\ gdt_structured' = gdt_structured
    BY DEF SegmentsInv, EncodeGdt
<1>2. gdt_real' = [i \in DOMAIN gdt_structured |-> Encode(gdt_structured[i])]
    BY DEF EncodeGdt
<1>3. ASSUME NEW i \in DOMAIN gdt_structured
      PROVE  Meaning(gdt_real'[i]) = gdt_structured[i]
    <2>1. gdt_structured[i] \in Segments
        BY <1>1
    <2>2. ~Refused(gdt_structured[i])
        BY DEF EncodeGdt
    <2> QED BY <1>2, <2>1, <2>2, DescriptorKept
<1>4. DOMAIN gdt_real' = DOMAIN gdt_structured
    BY <1>2
<1> QED BY <1>1, <1>3, <1>4 DEF SegmentsInv, SegmentsMeanWhatTheySay

(* Every other step leaves both tables alone and does not pass the stage   *)
(* at which they are encoded.                                              *)
LEMMA SegmentsStep ==
    ASSUME SegmentsInv, [Next]_vars
    PROVE  SegmentsInv'
<1> USE DEF SegmentsInv, SegmentsMeanWhatTheySay
<1>1. CASE ClearScreen
    BY <1>1 DEF ClearScreen
<1>2. CASE EncodeGdt
    BY <1>2, SegmentsEncoded
<1>3. CASE RefuseGdt
    BY <1>3 DEF RefuseGdt, Panic
<1>4. CASE InitFilesystems
    BY <1>4 DEF InitFilesystems
<1>5. CASE InitDisk
    BY <1>5 DEF InitDisk
<1>6. CASE OpenProgram
    BY <1>6 DEF OpenProgram
<1>7. CASE RunProgram
    BY <1>7 DEF RunProgram
<1>8. CASE LoadFails
    BY <1>8 DEF LoadFails, Panic
<1>9. CASE ProgramPrints
    BY <1>9 DEF ProgramPrints, bootVars
<1>10. CASE UNCHANGED vars
    BY <1>10 DEF vars, bootVars
<1> QED BY <1>1, <1>2, <1>3, <1>4, <1>5, <1>6, <1>7, <1>8, <1>9, <1>10 DEF Next, KernelMain

(* gdt.c and kernel_main: once the segments are loaded, each means to the  *)
(* processor the base, limit and type that kernel.c's table says.          *)
THEOREM SegmentsSound == Spec => []SegmentsMeanWhatTheySay
<1>1. SegmentsInv => SegmentsMeanWhatTheySay
    BY DEF SegmentsInv
<1> QED BY SegmentsStart, SegmentsStep, <1>1, PTL DEF Spec

-----------------------------------------------------------------------------
(* Numbers, sets of numbers, and remainders.                               *)

(* A set of natural numbers that is not empty has a least element.         *)
LEMMA Least ==
    ASSUME NEW S \in SUBSET Nat, S # {}
    PROVE  \E k \in S : \A j \in S : k <= j
<1> DEFINE R == {ss \in Nat \X Nat : ss[1] < ss[2]}
<1>1. IsWellFoundedOn(R, Nat)
    BY NatLessThanWellFounded DEF OpToRel
<1>2. \E k \in S : \A j \in S : ~(<<j, k>> \in R)
    <2> HIDE DEF R
    <2> QED BY <1>1, WFMin
<1>3. PICK k \in S : \A j \in S : ~(<<j, k>> \in R)
    BY <1>2
<1>4. ASSUME NEW j \in S PROVE k <= j
    <2>1. k \in Nat /\ j \in Nat
        OBVIOUS
    <2>2. ~(<<j, k>> \in R)
        BY <1>3
    <2>3. <<j, k>> \in Nat \X Nat
        BY <2>1
    <2>4. ~(j < k)
        BY <2>2, <2>3
    <2> QED BY <2>1, <2>4
<1> QED BY <1>4

(* A bounded set of natural numbers has a greatest element.                *)
LEMMA Greatest ==
    ASSUME NEW b \in Nat, NEW S \in SUBSET (0 .. b), S # {}
    PROVE  \E k \in S : \A j \in S : j <= k
<1> DEFINE D == {d \in 0 .. b : b - d \in S}
<1>1. D \in SUBSET Nat
    OBVIOUS
<1>2. \A x \in S : x \in 0 .. b /\ b - x \in 0 .. b /\ b - (b - x) = x
    BY SMT
<1>3. \A x \in S : b - x \in D
    BY <1>2
<1>4. D # {}
    BY <1>3
<1>5. \E k \in D : \A j \in D : k <= j
    <2> HIDE DEF D
    <2> QED BY <1>1, <1>4, Least
<1>6. PICK k \in D : \A j \in D : k <= j
    BY <1>5
<1>7. k \in 0 .. b /\ b - k \in S
    OBVIOUS
<1>8. ASSUME NEW x \in S PROVE x <= b - k
    <2>1. k <= b - x
        BY <1>3, <1>6
    <2> QED BY <1>2, <1>7, <2>1
<1> QED BY <1>7, <1>8

(* The remainder of a number that is one larger.                           *)
LEMMA RemainderIs ==
    ASSUME NEW a \in Nat, NEW w \in Nat \ {0}, NEW q \in Nat, NEW r \in Nat,
           a = w * q + r, r < w
    PROVE  a % w = r /\ a \div w = q
<1> DEFINE d == a \div w
           m == a % w
<1>1. d \in Nat /\ m \in Nat /\ m < w /\ a = w * d + m
    BY SMT
<1> HIDE DEF d, m
<1>2. ~(d < q)
    <2> SUFFICES ASSUME d < q PROVE FALSE
        OBVIOUS
    <2>1. PICK e \in Nat : q = d + 1 + e
        <3>1. q - d - 1 \in Nat /\ q = d + 1 + (q - d - 1)
            BY <1>1
        <3> QED BY <3>1
    <2>2. w * q = w * d + w + w * e
        BY <1>1, <2>1, SMT
    <2>3. w * e \in Nat /\ w * q \in Nat /\ w * d \in Nat
        BY <1>1, SMT
    <2> QED BY <1>1, <2>2, <2>3
<1>3. ~(q < d)
    <2> SUFFICES ASSUME q < d PROVE FALSE
        OBVIOUS
    <2>1. PICK e \in Nat : d = q + 1 + e
        <3>1. d - q - 1 \in Nat /\ d = q + 1 + (d - q - 1)
            BY <1>1
        <3> QED BY <3>1
    <2>2. w * d = w * q + w + w * e
        BY <1>1, <2>1, SMT
    <2>3. w * e \in Nat /\ w * q \in Nat /\ w * d \in Nat
        BY <1>1, SMT
    <2> QED BY <1>1, <2>2, <2>3
<1>4. d = q
    BY <1>1, <1>2, <1>3
<1>5. w * q \in Nat
    BY SMT
<1>6. m = r
    BY <1>1, <1>4, <1>5
<1> QED BY <1>4, <1>6 DEF d, m

(* The remainder of the next number: one more, or 0.                       *)
LEMMA NextRemainder ==
    ASSUME NEW a \in Nat, NEW w \in Nat \ {0}
    PROVE  /\ a % w \in 0 .. (w - 1)
           /\ (a + 1) % w = IF (a % w) + 1 >= w THEN 0 ELSE (a % w) + 1
<1> DEFINE d == a \div w
           m == a % w
<1>1. d \in Nat /\ m \in Nat /\ m < w /\ a = w * d + m
    BY SMT
<1> HIDE DEF d, m
<1>2. a + 1 \in Nat /\ w * d \in Nat /\ d + 1 \in Nat /\ m + 1 \in Nat /\ 0 \in Nat
    BY <1>1, SMT
<1>3. CASE m + 1 >= w
    <2>1. m + 1 = w
        BY <1>1, <1>3
    <2>2. w * (d + 1) = w * d + w
        BY <1>1, SMT
    <2>3. a + 1 = w * (d + 1) + 0
        BY <1>1, <1>2, <2>1, <2>2
    <2>4. (a + 1) % w = 0
        BY <1>2, <2>3, RemainderIs
    <2> QED BY <1>1, <1>3, <2>4 DEF m
<1>4. CASE ~(m + 1 >= w)
    <2>1. a + 1 = w * d + (m + 1) /\ m + 1 < w
        BY <1>1, <1>2, <1>4
    <2>2. (a + 1) % w = m + 1
        BY <1>1, <1>2, <2>1, RemainderIs
    <2> QED BY <1>1, <1>4, <2>2 DEF m
<1> QED BY <1>3, <1>4

(* A number below the divisor is its own remainder.                        *)
LEMMA RemainderSmall ==
    ASSUME NEW a \in Nat, NEW w \in Nat \ {0}, a < w
    PROVE  a % w = a
<1>1. a = w * 0 + a
    OBVIOUS
<1> QED BY <1>1, RemainderIs

-----------------------------------------------------------------------------
(* The terminal. Where a text puts its characters, for any text; Places is *)
(* this for the text printed so far.                                       *)

(* The newlines, the starts of lines, and the rows and columns of          *)
(* characters, of any text u and not only of what is printed.              *)
LinesEnd(u, n) == {m \in 1 .. (n - 1) : u[m].char = Newline} \cup {0}
LineStartIn(u, n) == CHOOSE m \in LinesEnd(u, n) : \A k \in LinesEnd(u, n) : k <= m

(* The characters behind which a new row begins.                           *)
EndsRow(u, m) == u[m].char # Newline => (m - LineStartIn(u, m)) % VgaWidth = 0
RowsBefore(u, n) == {m \in 1 .. (n - 1) : EndsRow(u, m)}

(* Where character n of the text stands.                                   *)
PlaceIn(u, n) ==
    [row |-> Cardinality(RowsBefore(u, n)) % RowMod,
     col |-> (n - LineStartIn(u, n) - 1) % VgaWidth]

(* The newline before character n is the last one of those before it.      *)
LEMMA LineStartIs ==
    ASSUME NEW u, NEW n \in Nat \ {0}
    PROVE  /\ LineStartIn(u, n) \in LinesEnd(u, n)
           /\ LineStartIn(u, n) \in 0 .. (n - 1)
           /\ \A k \in LinesEnd(u, n) : k <= LineStartIn(u, n)
<1>1. n - 1 \in Nat
    OBVIOUS
<1>2. LinesEnd(u, n) \in SUBSET (0 .. (n - 1)) /\ LinesEnd(u, n) # {}
    BY <1>1 DEF LinesEnd
<1>3. \E m \in LinesEnd(u, n) : \A k \in LinesEnd(u, n) : k <= m
    BY <1>1, <1>2, Greatest
<1> QED BY <1>2, <1>3 DEF LineStartIn

(* Only the last of the newlines before n is the start of its line.        *)
LEMMA LineStartUnique ==
    ASSUME NEW u, NEW n \in Nat \ {0}, NEW m \in LinesEnd(u, n),
           \A k \in LinesEnd(u, n) : k <= m
    PROVE  LineStartIn(u, n) = m
<1>1. m \in Int
    BY DEF LinesEnd
<1>2. LineStartIn(u, n) \in Int /\ LineStartIn(u, n) <= m /\ m <= LineStartIn(u, n)
    BY LineStartIs
<1> QED BY <1>1, <1>2

(* A newline starts a line; any other character leaves the line as it is.  *)
LEMMA LineStartNext ==
    ASSUME NEW u, NEW n \in Nat \ {0}
    PROVE  LineStartIn(u, n + 1) = IF u[n].char = Newline THEN n ELSE LineStartIn(u, n)
<1>0. n + 1 \in Nat \ {0} /\ (n + 1) - 1 = n
    OBVIOUS
<1>1. CASE u[n].char = Newline
    <2>1. n \in LinesEnd(u, n + 1) /\ \A k \in LinesEnd(u, n + 1) : k <= n
        BY <1>0, <1>1 DEF LinesEnd
    <2> QED BY <1>0, <1>1, <2>1, LineStartUnique
<1>2. CASE ~(u[n].char = Newline)
    <2>1. LinesEnd(u, n + 1) = LinesEnd(u, n)
        <3>1. ASSUME NEW k
              PROVE  k \in LinesEnd(u, n + 1) <=> k \in LinesEnd(u, n)
            <4>1. CASE k = 0
                BY <4>1 DEF LinesEnd
            <4>2. CASE k # 0
                <5>1. k \in 1 .. n <=> k \in 1 .. (n - 1) \/ k = n
                    OBVIOUS
                <5> QED BY <1>0, <1>2, <4>2, <5>1 DEF LinesEnd
            <4> QED BY <4>1, <4>2
        <3> QED BY <3>1
    <2> QED BY <1>2, <2>1 DEF LineStartIn
<1> QED BY <1>1, <1>2

(* A character adds a row to those before it just if it ends one.          *)
LEMMA RowsNext ==
    ASSUME NEW u, NEW n \in Nat \ {0}
    PROVE  /\ Cardinality(RowsBefore(u, n)) \in Nat
           /\ Cardinality(RowsBefore(u, n + 1)) =
                Cardinality(RowsBefore(u, n)) + (IF EndsRow(u, n) THEN 1 ELSE 0)
<1>0. IsFiniteSet(1 .. (n - 1))
    BY FS_Interval
<1>1. IsFiniteSet(RowsBefore(u, n))
    BY <1>0, FS_Subset DEF RowsBefore
<1>2. Cardinality(RowsBefore(u, n)) \in Nat
    BY <1>1, FS_CardinalityType
<1>3. n \notin RowsBefore(u, n)
    BY DEF RowsBefore
<1>4. RowsBefore(u, n + 1) = IF EndsRow(u, n) THEN RowsBefore(u, n) \cup {n} ELSE RowsBefore(u, n)
    <2>1. \A k : k \in 1 .. ((n + 1) - 1) <=> k \in 1 .. (n - 1) \/ k = n
        OBVIOUS
    <2> QED BY <2>1 DEF RowsBefore
<1>5. CASE EndsRow(u, n)
    <2>1. Cardinality(RowsBefore(u, n) \cup {n}) = Cardinality(RowsBefore(u, n)) + 1
        BY <1>1, <1>3, FS_AddElement
    <2>2. RowsBefore(u, n + 1) = RowsBefore(u, n) \cup {n}
        BY <1>4, <1>5
    <2> QED BY <1>2, <1>5, <2>1, <2>2
<1>6. CASE ~EndsRow(u, n)
    BY <1>2, <1>4, <1>6
<1> QED BY <1>2, <1>5, <1>6

(* The place of the next character: a newline and the end of a row begin   *)
(* the next row, anything else is followed by the column to the right.     *)
LEMMA PlaceNext ==
    ASSUME NEW u, NEW n \in Nat \ {0}
    PROVE  /\ PlaceIn(u, n).row \in 0 .. (RowMod - 1)
           /\ PlaceIn(u, n).col \in 0 .. (VgaWidth - 1)
           /\ PlaceIn(u, n + 1) =
                IF u[n].char = Newline \/ PlaceIn(u, n).col + 1 >= VgaWidth
                THEN [row |-> (PlaceIn(u, n).row + 1) % RowMod, col |-> 0]
                ELSE [row |-> PlaceIn(u, n).row, col |-> PlaceIn(u, n).col + 1]
<1> DEFINE c == Cardinality(RowsBefore(u, n))
           d == Cardinality(RowsBefore(u, n + 1))
           s == LineStartIn(u, n)
           x == n - s - 1
           row == c % RowMod
           col == x % VgaWidth
<1>1. VgaWidth \in Nat \ {0} /\ RowMod \in Nat \ {0}
    BY TerminalAssumption
<1>2. c \in Nat /\ d = c + (IF EndsRow(u, n) THEN 1 ELSE 0)
    BY RowsNext
<1>3. s \in 0 .. (n - 1)
    BY LineStartIs
<1>4. x \in Nat /\ n - s = x + 1
    BY <1>3
<1>5. row \in 0 .. (RowMod - 1) /\ (c + 1) % RowMod = IF row + 1 >= RowMod THEN 0 ELSE row + 1
    <2> HIDE DEF c
    <2> QED BY <1>1, <1>2, NextRemainder
<1>6. col \in 0 .. (VgaWidth - 1)
      /\ (x + 1) % VgaWidth = IF col + 1 >= VgaWidth THEN 0 ELSE col + 1
    <2> HIDE DEF x
    <2> QED BY <1>1, <1>4, NextRemainder
<1>7. PlaceIn(u, n) = [row |-> row, col |-> col]
    BY DEF PlaceIn
<1>8. PlaceIn(u, n + 1) = [row |-> d % RowMod,
                           col |-> ((n + 1) - LineStartIn(u, n + 1) - 1) % VgaWidth]
    BY DEF PlaceIn
<1>9. EndsRow(u, n) <=> (u[n].char # Newline => (x + 1) % VgaWidth = 0)
    BY <1>4 DEF EndsRow
<1>10. LineStartIn(u, n + 1) = IF u[n].char = Newline THEN n ELSE s
    BY LineStartNext
<1> HIDE DEF c, d, s, x, row, col
<1>11. row \in Nat /\ col \in Nat /\ row < RowMod /\ col < VgaWidth /\ s \in Nat
    BY <1>1, <1>3, <1>5, <1>6
<1>12. (c + 1) % RowMod = (row + 1) % RowMod
    <2>1. row % RowMod = row
        BY <1>1, <1>11, RemainderSmall
    <2>2. (row + 1) % RowMod = IF (row % RowMod) + 1 >= RowMod THEN 0 ELSE (row % RowMod) + 1
        BY <1>1, <1>11, NextRemainder
    <2> QED BY <1>5, <2>1, <2>2
<1>13. CASE u[n].char = Newline
    <2>1. EndsRow(u, n) /\ d = c + 1
        BY <1>2, <1>9, <1>13
    <2>2. (n + 1) - LineStartIn(u, n + 1) - 1 = 0
        BY <1>10, <1>13
    <2>3. 0 % VgaWidth = 0
        BY <1>1, RemainderSmall
    <2>4. PlaceIn(u, n + 1) = [row |-> (row + 1) % RowMod, col |-> 0]
        BY <1>8, <1>12, <2>1, <2>2, <2>3
    <2> QED BY <1>5, <1>6, <1>7, <1>13, <2>4
<1>14. CASE u[n].char # Newline /\ col + 1 >= VgaWidth
    <2>1. EndsRow(u, n) /\ d = c + 1
        BY <1>2, <1>6, <1>9, <1>14
    <2>2. (n + 1) - LineStartIn(u, n + 1) - 1 = x + 1
        BY <1>4, <1>10, <1>11, <1>14
    <2>3. PlaceIn(u, n + 1) = [row |-> (row + 1) % RowMod, col |-> 0]
        BY <1>6, <1>8, <1>12, <1>14, <2>1, <2>2
    <2> QED BY <1>5, <1>6, <1>7, <1>14, <2>3
<1>15. CASE u[n].char # Newline /\ ~(col + 1 >= VgaWidth)
    <2>1. ~EndsRow(u, n) /\ d = c
        BY <1>2, <1>6, <1>9, <1>11, <1>15
    <2>2. (n + 1) - LineStartIn(u, n + 1) - 1 = x + 1
        BY <1>4, <1>10, <1>11, <1>15
    <2>3. PlaceIn(u, n + 1) = [row |-> row, col |-> col + 1]
        <3>1. d % RowMod = row
            BY <2>1 DEF row
        <3> QED BY <1>6, <1>8, <1>15, <2>2, <3>1
    <2> QED BY <1>5, <1>6, <1>7, <1>15, <2>3
<1> QED BY <1>13, <1>14, <1>15

(* A place depends on the characters before it only.                       *)
LEMMA PlacePrefix ==
    ASSUME NEW u, NEW v, NEW n \in Nat \ {0}, \A m \in 1 .. (n - 1) : u[m] = v[m]
    PROVE  PlaceIn(u, n) = PlaceIn(v, n)
<1>1. ASSUME NEW k \in 1 .. n PROVE LineStartIn(u, k) = LineStartIn(v, k)
    <2>1. \A m \in 1 .. (k - 1) : m \in 1 .. (n - 1)
        OBVIOUS
    <2>2. LinesEnd(u, k) = LinesEnd(v, k)
        BY <2>1 DEF LinesEnd
    <2> QED BY <2>2 DEF LineStartIn
<1>2. \A m \in 1 .. (n - 1) : m \in 1 .. n
    OBVIOUS
<1>3. RowsBefore(u, n) = RowsBefore(v, n)
    BY <1>1, <1>2 DEF RowsBefore, EndsRow
<1>4. n \in 1 .. n
    OBVIOUS
<1> QED BY <1>1, <1>3, <1>4 DEF PlaceIn

(* The screen shows the first k characters of a text. ShowsText says it of *)
(* all that has been printed.                                              *)
Terminals ==
    [video : [Offsets -> Cells], row : 0 .. (RowMod - 1), col : 0 .. (VgaWidth - 1),
     overrun : BOOLEAN]

(* The cells in which the characters of a text stand, and what a cell      *)
(* shows when the first k characters of it are printed.                    *)
OffsetIn(u, n) == PlaceIn(u, n).row * VgaWidth + PlaceIn(u, n).col
HereIn(u, k, o) == {n \in 1 .. k : u[n].char # Newline /\ OffsetIn(u, n) = o}

CellShows(video, u, k, o) ==
    \/ HereIn(u, k, o) = {} /\ video[o] = IF o \in Screen THEN Blank ELSE Unwritten
    \/ \E n \in HereIn(u, k, o) :
        /\ \A m \in HereIn(u, k, o) : m <= n
        /\ video[o].char = u[n].char
        /\ u[n].char < 128 => video[o] = u[n]

(* The characters of a text that are written over the kernel.              *)
OverIn(u, k) == {n \in 1 .. k : u[n].char # Newline /\ OffsetIn(u, n) >= KernelCell}

(* The terminal t shows the first k characters of the text u.              *)
Shows(t, u, k) ==
    /\ PlaceIn(u, k + 1) = [row |-> t.row, col |-> t.col]
    /\ t.overrun <=> OverIn(u, k) # {}
    /\ \A o \in Offsets : CellShows(t.video, u, k, o)

(* terminal_writechar in terms of the fields it assigns.                   *)
LEMMA WriteCharIs ==
    ASSUME NEW t \in Terminals, NEW cell \in Cells
    PROVE  LET o == t.row * VgaWidth + t.col
               w == WriteChar(t, cell)
           IN  /\ w \in Terminals
               /\ w.video = IF cell.char = Newline \/ o \notin Offsets THEN t.video
                            ELSE [t.video EXCEPT ![o] = MakeChar(cell.char, cell.colour)]
               /\ w.overrun <=> t.overrun \/ (cell.char # Newline /\ o >= KernelCell)
               /\ [row |-> w.row, col |-> w.col] =
                    IF cell.char = Newline \/ t.col + 1 >= VgaWidth
                    THEN [row |-> (t.row + 1) % RowMod, col |-> 0]
                    ELSE [row |-> t.row, col |-> t.col + 1]
<1> DEFINE o == t.row * VgaWidth + t.col
           c == MakeChar(cell.char, cell.colour)
           w == WriteChar(t, cell)
<1>1. VgaWidth \in Nat \ {0} /\ RowMod \in Nat \ {0}
    BY TerminalAssumption
<1>2. /\ t.video \in [Offsets -> Cells] /\ t.row \in 0 .. (RowMod - 1)
      /\ t.col \in 0 .. (VgaWidth - 1)
      /\ t.overrun \in BOOLEAN
      /\ t = [video |-> t.video, row |-> t.row, col |-> t.col, overrun |-> t.overrun]
    BY DEF Terminals
<1>3. c \in Cells
    BY DEF MakeChar, Cells, Char
<1>4. (t.row + 1) % RowMod \in 0 .. (RowMod - 1)
    <2>1. t.row + 1 \in Nat
        BY <1>1, <1>2
    <2> QED BY <1>1, <2>1, NextRemainder
<1>5. 0 \in 0 .. (VgaWidth - 1)
    BY <1>1
<1> HIDE DEF c
<1>6. CASE cell.char = Newline
    <2>1. w = [t EXCEPT !.row = (t.row + 1) % RowMod, !.col = 0]
        BY <1>6 DEF WriteChar, NextRow
    <2>2. w = [video |-> t.video, row |-> (t.row + 1) % RowMod, col |-> 0,
               overrun |-> t.overrun]
        BY <1>2, <2>1
    <2>3. w.video = t.video /\ w.overrun = t.overrun
          /\ [row |-> w.row, col |-> w.col] = [row |-> (t.row + 1) % RowMod, col |-> 0]
        BY <2>2
    <2>4. w \in Terminals
        BY <1>2, <1>4, <1>5, <2>2 DEF Terminals
    <2> HIDE DEF w, o
    <2> QED BY <1>6, <2>3, <2>4 DEF w, o
<1>7. CASE cell.char # Newline
    <2> DEFINE v == IF o \in Offsets THEN [t.video EXCEPT ![o] = c] ELSE t.video
               e == t.overrun \/ o >= KernelCell
               p == PutChar(t, cell)
    <2>0. v \in [Offsets -> Cells] /\ e \in BOOLEAN
        BY <1>2, <1>3
    <2>1. p = [video |-> v, row |-> t.row, col |-> t.col + 1, overrun |-> e]
        BY DEF PutChar, c
    <2> HIDE DEF p, v, e
    <2>2. CASE t.col + 1 >= VgaWidth
        <3>1. w = NextRow(p)
            BY <1>7, <2>2 DEF WriteChar, p
        <3>2. w = [video |-> v, row |-> (t.row + 1) % RowMod, col |-> 0, overrun |-> e]
            BY <2>1, <3>1 DEF NextRow
        <3>3. w.video = v /\ w.overrun = e
              /\ [row |-> w.row, col |-> w.col] = [row |-> (t.row + 1) % RowMod, col |-> 0]
            BY <3>2
        <3>4. w \in Terminals
            BY <1>4, <1>5, <2>0, <3>2 DEF Terminals
        <3> HIDE DEF w, o
        <3> QED BY <1>7, <2>2, <3>3, <3>4 DEF v, e, c, w, o
    <2>3. CASE ~(t.col + 1 >= VgaWidth)
        <3>1. w = [video |-> v, row |-> t.row, col |-> t.col + 1, overrun |-> e]
            BY <1>7, <2>1, <2>3 DEF WriteChar, p
        <3>2. t.col + 1 \in 0 .. (VgaWidth - 1)
            BY <1>1, <1>2, <2>3
        <3>3. w.video = v /\ w.overrun = e
              /\ [row |-> w.row, col |-> w.col] = [row |-> t.row, col |-> t.col + 1]
            BY <3>1
        <3>4. w \in Terminals
            BY <1>2, <2>0, <3>1, <3>2 DEF Terminals
        <3> HIDE DEF w, o
        <3> QED BY <1>7, <2>3, <3>3, <3>4 DEF v, e, c, w, o
    <2> QED BY <2>2, <2>3
<1> QED BY <1>6, <1>7

(* One more character keeps the screen showing the text.                   *)
LEMMA WriteCharShows ==
    ASSUME NEW t \in Terminals, NEW u, NEW k \in Nat, u[k + 1] \in Cells, Shows(t, u, k)
    PROVE  WriteChar(t, u[k + 1]) \in Terminals /\ Shows(WriteChar(t, u[k + 1]), u, k + 1)
<1> DEFINE n == k + 1
           cell == u[n]
           here == t.row * VgaWidth + t.col
           w == WriteChar(t, cell)
<1>1. n \in Nat \ {0}
    OBVIOUS
<1>2. /\ w \in Terminals
      /\ w.video = IF cell.char = Newline \/ here \notin Offsets THEN t.video
                   ELSE [t.video EXCEPT ![here] = MakeChar(cell.char, cell.colour)]
      /\ w.overrun <=> t.overrun \/ (cell.char # Newline /\ here >= KernelCell)
      /\ [row |-> w.row, col |-> w.col] =
            IF cell.char = Newline \/ t.col + 1 >= VgaWidth
            THEN [row |-> (t.row + 1) % RowMod, col |-> 0]
            ELSE [row |-> t.row, col |-> t.col + 1]
    BY WriteCharIs
<1>3. PlaceIn(u, n) = [row |-> t.row, col |-> t.col]
    BY DEF Shows
<1>4. OffsetIn(u, n) = here
    BY <1>3 DEF OffsetIn
<1> HIDE DEF w
<1>5. PlaceIn(u, n + 1) = [row |-> w.row, col |-> w.col]
    <2>1. PlaceIn(u, n + 1) =
            IF cell.char = Newline \/ PlaceIn(u, n).col + 1 >= VgaWidth
            THEN [row |-> (PlaceIn(u, n).row + 1) % RowMod, col |-> 0]
            ELSE [row |-> PlaceIn(u, n).row, col |-> PlaceIn(u, n).col + 1]
        BY <1>1, PlaceNext
    <2>2. PlaceIn(u, n).row = t.row /\ PlaceIn(u, n).col = t.col
        BY <1>3
    <2> QED BY <1>2, <2>1, <2>2
<1>6. ASSUME NEW o \in Offsets PROVE CellShows(w.video, u, n, o)
    <2>0. CellShows(t.video, u, k, o)
        BY DEF Shows
    <2>1. CASE cell.char = Newline \/ here # o
        <3>1. HereIn(u, n, o) = HereIn(u, k, o)
            <4>1. n \notin HereIn(u, n, o)
                BY <1>4, <2>1 DEF HereIn
            <4>2. \A m : m \in 1 .. n <=> m \in 1 .. k \/ m = n
                OBVIOUS
            <4>3. n \notin 1 .. k
                OBVIOUS
            <4> HIDE DEF n
            <4> QED BY <4>1, <4>2, <4>3 DEF HereIn
        <3>2. w.video[o] = t.video[o]
            <4>1. t.video \in [Offsets -> Cells]
                BY DEF Terminals
            <4> QED BY <1>2, <2>1, <4>1
        <3> HIDE DEF n
        <3> QED BY <2>0, <3>1, <3>2 DEF CellShows
    <2>2. CASE cell.char # Newline /\ here = o
        <3>1. n \in HereIn(u, n, o)
            BY <1>1, <1>4, <2>2 DEF HereIn
        <3>2. \A m \in HereIn(u, n, o) : m <= n
            BY DEF HereIn
        <3>3. w.video[o] = MakeChar(cell.char, cell.colour)
            <4>1. t.video \in [Offsets -> Cells]
                BY DEF Terminals
            <4> QED BY <1>2, <2>2, <4>1
        <3>4. /\ w.video[o].char = cell.char
              /\ cell.char < 128 => w.video[o] = cell
            <4>1. cell = [char |-> cell.char, colour |-> cell.colour]
                BY DEF Cells
            <4> QED BY <3>3, <4>1 DEF MakeChar
        <3> HIDE DEF n
        <3> QED BY <3>1, <3>2, <3>4 DEF CellShows
    <2> QED BY <2>1, <2>2
<1>7. w.overrun <=> OverIn(u, n) # {}
    <2>1. OverIn(u, n) = OverIn(u, k) \cup
            (IF cell.char # Newline /\ here >= KernelCell THEN {n} ELSE {})
        <3>1. \A m : m \in 1 .. n <=> m \in 1 .. k \/ m = n
            OBVIOUS
        <3> HIDE DEF n, here
        <3> QED BY <1>4, <3>1 DEF OverIn
    <2>2. t.overrun <=> OverIn(u, k) # {}
        BY DEF Shows
    <2> HIDE DEF n, here
    <2> QED BY <1>2, <2>1, <2>2
<1>8. Shows(w, u, n)
    BY <1>5, <1>6, <1>7 DEF Shows
<1> QED BY <1>2, <1>8 DEF w

(* print, as PrintText states it, and a function that records m turns.     *)
PrintStep(cells, n, g) ==
    [i \in 0 .. n |-> IF i = 0 THEN Terminal ELSE WriteChar(g[i - 1], cells[i])]

(* The first m turns of the loop of print.                                 *)
PrintsUpTo(cells, m, g) ==
    /\ g = [i \in 0 .. m |-> g[i]]
    /\ g[0] = Terminal
    /\ \A i \in 1 .. m : g[i] = WriteChar(g[i - 1], cells[i])

(* The loop of print has a run of every length.                            *)
LEMMA PrintRuns ==
    ASSUME NEW cells, NEW m \in Nat
    PROVE  \E g : PrintsUpTo(cells, m, g)
<1>1. PrintsUpTo(cells, 0, [i \in 0 .. 0 |-> Terminal])
    BY SMT DEF PrintsUpTo
<1>2. ASSUME NEW k \in Nat, NEW g, PrintsUpTo(cells, k, g)
      PROVE  \E h : PrintsUpTo(cells, k + 1, h)
    <2> DEFINE h == [i \in 0 .. (k + 1) |-> IF i <= k THEN g[i] ELSE WriteChar(g[k], cells[k + 1])]
    <2>1. h = [i \in 0 .. (k + 1) |-> h[i]]
        OBVIOUS
    <2>2. h[0] = Terminal
        BY <1>2 DEF PrintsUpTo
    <2>3. ASSUME NEW i \in 1 .. (k + 1) PROVE h[i] = WriteChar(h[i - 1], cells[i])
        <3>0. i \in Int /\ 1 <= i /\ i <= k + 1
            BY <2>3
        <3>1. i - 1 \in 0 .. (k + 1) /\ i - 1 <= k /\ i \in 0 .. (k + 1)
            BY <3>0
        <3>2. h[i - 1] = g[i - 1]
            BY <3>1
        <3>3. CASE i <= k
            <4>1. i \in 1 .. k
                BY <3>0, <3>3
            <4>2. g[i] = WriteChar(g[i - 1], cells[i])
                BY <1>2, <4>1 DEF PrintsUpTo
            <4> QED BY <3>1, <3>2, <3>3, <4>2
        <3>4. CASE ~(i <= k)
            <4>1. i = k + 1 /\ i - 1 = k
                BY <3>0, <3>4
            <4> QED BY <3>1, <3>2, <4>1
        <3> QED BY <3>3, <3>4
    <2> HIDE DEF h
    <2> QED BY <2>1, <2>2, <2>3 DEF PrintsUpTo
<1> DEFINE S == {k \in Nat : ~\E g : PrintsUpTo(cells, k, g)}
<1>3. SUFFICES ASSUME S # {} PROVE FALSE
    OBVIOUS
<1>4. \E k \in S : \A j \in S : k <= j
    <2>1. S \in SUBSET Nat
        OBVIOUS
    <2> HIDE DEF S
    <2> QED BY <1>3, <2>1, Least
<1>5. PICK k \in S : \A j \in S : k <= j
    BY <1>4
<1>6. k # 0
    BY <1>1
<1>7. k - 1 \in Nat /\ ~(k <= k - 1) /\ (k - 1) + 1 = k
    BY <1>6
<1>8. \E g : PrintsUpTo(cells, k - 1, g)
    BY <1>5, <1>7
<1> QED BY <1>2, <1>7, <1>8

(* The terminal after print is the state after the last turn.              *)
CellsOf(msg, colour) == [i \in 1 .. Len(msg) |-> [char |-> msg[i], colour |-> colour]]

(* The screen after print is what the last turn of the loop leaves.        *)
LEMMA PrintUnrolled ==
    ASSUME NEW msg, Len(msg) \in Nat, NEW colour, PrintText(msg, colour)
    PROVE  \E f : /\ PrintsUpTo(CellsOf(msg, colour), Len(msg), f)
                  /\ video_mem' = f[Len(msg)].video
                  /\ terminal_row' = f[Len(msg)].row
                  /\ terminal_col' = f[Len(msg)].col
                  /\ overrun' = f[Len(msg)].overrun
                  /\ printed' = printed \o CellsOf(msg, colour)
<1> DEFINE n == Len(msg)
           c == CellsOf(msg, colour)
<1>1. \E g : g = PrintStep(c, n, g)
    <2>1. PICK g : PrintsUpTo(c, n, g)
        BY PrintRuns
    <2>2. PrintStep(c, n, g) = [i \in 0 .. n |-> g[i]]
        <3>1. \A i \in 0 .. n : i = 0 \/ i \in 1 .. n
            OBVIOUS
        <3>2. \A i \in 0 .. n : g[i] = IF i = 0 THEN Terminal ELSE WriteChar(g[i - 1], c[i])
            BY <2>1, <3>1 DEF PrintsUpTo
        <3> QED BY <3>2 DEF PrintStep
    <2> QED BY <2>1, <2>2 DEF PrintsUpTo
<1> DEFINE f == CHOOSE g : g = PrintStep(c, n, g)
<1>2. f = PrintStep(c, n, f)
    BY <1>1
<1>3. /\ video_mem' = f[n].video /\ terminal_row' = f[n].row /\ terminal_col' = f[n].col
      /\ overrun' = f[n].overrun /\ printed' = printed \o c
    BY DEF PrintText, PrintStep, CellsOf
<1> HIDE DEF f
<1>4. PrintsUpTo(c, n, f)
    <2>1. f = [i \in 0 .. n |-> IF i = 0 THEN Terminal ELSE WriteChar(f[i - 1], c[i])]
        BY <1>2 DEF PrintStep
    <2>2. 0 \in 0 .. n /\ \A i \in 1 .. n : i \in 0 .. n /\ i # 0
        OBVIOUS
    <2> HIDE DEF c
    <2> QED BY <2>1, <2>2 DEF PrintsUpTo
<1> QED BY <1>3, <1>4

(* A text that is longer puts the characters it shares where they were.    *)
LEMMA ShowsLonger ==
    ASSUME NEW t, NEW u, NEW v, NEW k \in Nat, \A m \in 1 .. k : u[m] = v[m], Shows(t, u, k)
    PROVE  Shows(t, v, k)
<1>1. ASSUME NEW n \in 1 .. (k + 1) PROVE PlaceIn(u, n) = PlaceIn(v, n)
    <2>1. n \in Nat \ {0} /\ \A m \in 1 .. (n - 1) : m \in 1 .. k
        OBVIOUS
    <2> QED BY <2>1, PlacePrefix
<1>2. \A n \in 1 .. k : n \in 1 .. (k + 1)
    OBVIOUS
<1>3. k + 1 \in 1 .. (k + 1)
    OBVIOUS
<1>4. ASSUME NEW o PROVE HereIn(u, k, o) = HereIn(v, k, o)
    BY <1>1, <1>2 DEF HereIn, OffsetIn
<1>7. OverIn(u, k) = OverIn(v, k)
    BY <1>1, <1>2 DEF OverIn, OffsetIn
<1>5. \A o : \A n \in HereIn(v, k, o) : u[n] = v[n]
    BY DEF HereIn
<1>6. ASSUME NEW o, CellShows(t.video, u, k, o) PROVE CellShows(t.video, v, k, o)
    BY <1>4, <1>5, <1>6 DEF CellShows
<1> QED BY <1>1, <1>3, <1>6, <1>7 DEF Shows

(* print: the screen goes on showing the text.                             *)
LEMMA PrintShows ==
    ASSUME Terminal \in Terminals, printed \in Seq(Cells), Shows(Terminal, printed, Len(printed)),
           NEW msg \in Seq(Char), NEW colour \in 0 .. 255, PrintText(msg, colour)
    PROVE  (Terminal \in Terminals /\ printed \in Seq(Cells)
                /\ Shows(Terminal, printed, Len(printed)))'
<1> DEFINE n == Len(msg)
           c == CellsOf(msg, colour)
           u == printed \o c
           k == Len(printed)
<1>1. n \in Nat /\ k \in Nat
    OBVIOUS
<1>2. PICK f : /\ PrintsUpTo(c, n, f)
               /\ video_mem' = f[n].video /\ terminal_row' = f[n].row /\ terminal_col' = f[n].col
               /\ overrun' = f[n].overrun /\ printed' = u
    BY <1>1, PrintUnrolled
<1>3. c \in Seq(Cells) /\ Len(c) = n
    <2>1. \A i \in 1 .. n : msg[i] \in Char
        OBVIOUS
    <2>2. \A i \in 1 .. n : [char |-> msg[i], colour |-> colour] \in Cells
        BY <2>1 DEF Cells
    <2> QED BY <1>1, <2>2 DEF CellsOf
<1> HIDE DEF c
<1>4. /\ u \in Seq(Cells) /\ Len(u) = k + n
      /\ \A m \in 1 .. k : u[m] = printed[m]
      /\ \A i \in 1 .. n : u[k + i] = c[i]
    BY <1>3
<1> HIDE DEF u, n, k
<1>5. Shows(Terminal, u, k)
    BY <1>1, <1>4, ShowsLonger DEF k
<1> DEFINE Bad == {i \in 0 .. n : ~(f[i] \in Terminals /\ Shows(f[i], u, k + i))}
<1>6. ASSUME NEW i \in 1 .. n, f[i - 1] \in Terminals, Shows(f[i - 1], u, k + (i - 1))
      PROVE  f[i] \in Terminals /\ Shows(f[i], u, k + i)
    <2>1. k + (i - 1) \in Nat /\ (k + (i - 1)) + 1 = k + i /\ k + i \in 1 .. (k + n)
        BY <1>1
    <2>2. u[k + i] \in Cells /\ u[k + i] = c[i]
        BY <1>4, <2>1
    <2>3. f[i] = WriteChar(f[i - 1], u[k + i])
        BY <1>2, <2>2 DEF PrintsUpTo
    <2> QED BY <1>6, <2>1, <2>2, <2>3, WriteCharShows
<1>7. Bad = {}
    <2>1. SUFFICES ASSUME Bad # {} PROVE FALSE
        OBVIOUS
    <2>2. Bad \in SUBSET Nat
        BY <1>1
    <2>3. \E i \in Bad : \A j \in Bad : i <= j
        <3> HIDE DEF Bad
        <3> QED BY <2>1, <2>2, Least
    <2>4. PICK i \in Bad : \A j \in Bad : i <= j
        BY <2>3
    <2>5. i # 0
        <3>1. k + 0 = k /\ f[0] = Terminal
            BY <1>1, <1>2 DEF PrintsUpTo
        <3> QED BY <1>5, <3>1
    <2>6. i \in 1 .. n /\ i - 1 \in 0 .. n /\ ~(i <= i - 1)
        BY <1>1, <2>5
    <2>7. f[i - 1] \in Terminals /\ Shows(f[i - 1], u, k + (i - 1))
        BY <2>4, <2>6
    <2>8. f[i] \in Terminals /\ Shows(f[i], u, k + i)
        BY <1>6, <2>6, <2>7
    <2> QED BY <2>8
<1>8. f[n] \in Terminals /\ Shows(f[n], u, Len(u))
    <2>1. n \in 0 .. n
        BY <1>1
    <2> QED BY <1>4, <1>7, <2>1
<1>9. Terminal' = f[n]
    <2>1. f[n] = [video |-> f[n].video, row |-> f[n].row, col |-> f[n].col,
                  overrun |-> f[n].overrun]
        BY <1>8 DEF Terminals
    <2> QED BY <1>2, <2>1 DEF Terminal
<1>10. printed' = u
    BY <1>2
<1> QED BY <1>4, <1>8, <1>9, <1>10

(* What ShowsText says is that the screen shows all that has been printed. *)
LEMMA ShowsTextIs ==
    ASSUME printed \in Seq(Cells), Shows(Terminal, printed, Len(printed))
    PROVE  ShowsText
<1> DEFINE u == printed
           k == Len(printed)
           offset == [n \in Visible |-> Places[n].row * VgaWidth + Places[n].col]
           here(o) == {n \in Visible : offset[n] = o}
<1>1. k \in Nat /\ DOMAIN u = 1 .. k /\ k + 1 \in Nat \ {0}
    OBVIOUS
<1>2. \A n \in 1 .. (k + 1) : LineStart(n) = LineStartIn(u, n)
    BY DEF LineStart, LineStartIn, LinesEnd
<1>3. \A n \in 1 .. (k + 1) : Places[n] = PlaceIn(u, n)
    <2> DEFINE rows == {n \in DOMAIN u : n \in Visible => (ColumnInLine[n] + 1) % VgaWidth = 0}
    <2>1. Places = [n \in 1 .. (k + 1) |->
                [row |-> Cardinality({m \in rows : m < n}) % RowMod,
                 col |-> ColumnInLine[n] % VgaWidth]]
        BY DEF Places
    <2>2. \A n \in 1 .. (k + 1) : ColumnInLine[n] = n - LineStartIn(u, n) - 1
        BY <1>2 DEF ColumnInLine
    <2>3. ASSUME NEW n \in 1 .. (k + 1)
          PROVE  {m \in rows : m < n} = RowsBefore(u, n)
        <3>1. ASSUME NEW m \in 1 .. k
              PROVE  m \in rows <=> EndsRow(u, m)
            <4>1. m \in 1 .. (k + 1) /\ m \in Nat \ {0}
                BY <1>1
            <4>2. LineStartIn(u, m) \in Int
                BY <4>1, LineStartIs
            <4>3. ColumnInLine[m] + 1 = m - LineStartIn(u, m)
                BY <2>2, <4>1, <4>2
            <4>4. m \in Visible <=> u[m].char # Newline
                BY <1>1 DEF Visible
            <4> QED BY <1>1, <4>3, <4>4 DEF EndsRow
        <3>2. \A m : m \in 1 .. (n - 1) <=> m \in 1 .. k /\ m < n
            BY <1>1
        <3>3. rows \subseteq 1 .. k
            BY <1>1
        <3> HIDE DEF rows
        <3> QED BY <3>1, <3>2, <3>3 DEF RowsBefore
    <2> HIDE DEF rows
    <2> QED BY <2>1, <2>2, <2>3 DEF PlaceIn
<1>4. Visible = {n \in 1 .. k : u[n].char # Newline}
    BY <1>1 DEF Visible
<1>5. \A n \in 1 .. k : n \in 1 .. (k + 1)
    BY <1>1
<1>6. \A n \in Visible : offset[n] = OffsetIn(u, n)
    BY <1>3, <1>4, <1>5 DEF OffsetIn
<1>7. ASSUME NEW o PROVE here(o) = HereIn(u, k, o)
    <2> HIDE DEF offset
    <2> QED BY <1>4, <1>6 DEF HereIn
<1>8. Places[Len(printed) + 1] = [row |-> terminal_row, col |-> terminal_col]
    <2>1. k + 1 \in 1 .. (k + 1)
        BY <1>1
    <2> QED BY <1>3, <2>1 DEF Shows, Terminal
<1>9. ASSUME NEW o \in Offsets
      PROVE  \/ here(o) = {} /\ video_mem[o] = IF o \in Screen THEN Blank ELSE Unwritten
             \/ \E n \in here(o) :
                /\ \A m \in here(o) : m <= n
                /\ video_mem[o].char = printed[n].char
                /\ printed[n].char < 128 => video_mem[o] = printed[n]
    <2>1. CellShows(video_mem, u, k, o)
        BY DEF Shows, Terminal
    <2> HIDE DEF here
    <2> QED BY <1>7, <2>1 DEF CellShows
<1>10. overrun <=> \E n \in Visible : offset[n] >= KernelCell
    <2>1. overrun <=> OverIn(u, k) # {}
        BY DEF Shows, Terminal
    <2>2. OverIn(u, k) # {} <=>
            \E n \in 1 .. k : u[n].char # Newline /\ OffsetIn(u, n) >= KernelCell
        BY DEF OverIn
    <2> HIDE DEF offset, u, k
    <2> QED BY <1>4, <1>6, <2>1, <2>2
<1> QED BY <1>8, <1>9, <1>10 DEF ShowsText

(* The screen shows the text once it has been cleared; before, nothing is  *)
(* printed.                                                                *)
TextInv ==
    /\ Terminal \in Terminals /\ printed \in Seq(Cells)
    /\ stage # "start" => Shows(Terminal, printed, Len(printed))
    /\ stage = "start" =>
        printed = <<>> /\ overrun = FALSE /\ video_mem = [o \in Offsets |-> Unwritten]

(* Nothing is printed, and nothing shown, before the kernel starts.        *)
LEMMA TextStart == Init => TextInv
<1> SUFFICES ASSUME Init PROVE TextInv
    OBVIOUS
<1>1. /\ video_mem = [o \in Offsets |-> Unwritten] /\ terminal_row = 0 /\ terminal_col = 0
      /\ overrun = FALSE /\ printed = <<>> /\ stage = "start"
    BY DEF Init, TerminalStart
<1>2. Unwritten \in Cells
    BY DEF Unwritten, Cells, Char
<1>3. 0 \in 0 .. (RowMod - 1) /\ 0 \in 0 .. (VgaWidth - 1)
    BY TerminalAssumption
<1>4. video_mem \in [Offsets -> Cells]
    BY <1>1, <1>2
<1>5. Terminal \in Terminals
    BY <1>1, <1>3, <1>4 DEF Terminal, Terminals
<1> QED BY <1>1, <1>5 DEF TextInv

(* terminal_initialize: the cleared screen shows no text.                  *)
LEMMA ClearShows ==
    ASSUME TextInv, ClearScreen
    PROVE  TextInv'
<1>1. /\ video_mem' = [o \in Offsets |-> IF o \in Screen THEN Blank ELSE Unwritten]
      /\ terminal_row' = 0 /\ terminal_col' = 0 /\ printed' = <<>> /\ stage' = "gdt"
      /\ overrun' = FALSE
    <2>1. video_mem = [o \in Offsets |-> Unwritten] /\ printed = <<>> /\ overrun = FALSE
        BY DEF ClearScreen, TextInv
    <2>2. video_mem' = [o \in Offsets |-> IF o \in Screen THEN Blank ELSE video_mem[o]]
        BY DEF ClearScreen, TerminalInitialize
    <2>3. \A o \in Offsets : video_mem[o] = Unwritten
        BY <2>1
    <2>4. /\ terminal_row' = 0 /\ terminal_col' = 0 /\ printed' = <<>> /\ stage' = "gdt"
          /\ overrun' = FALSE
        BY <2>1 DEF ClearScreen, TerminalInitialize
    <2> QED BY <2>2, <2>3, <2>4
<1>2. Unwritten \in Cells /\ Blank \in Cells
    BY DEF Unwritten, Blank, Cells, Char
<1>3. 0 \in 0 .. (RowMod - 1) /\ 0 \in 0 .. (VgaWidth - 1)
      /\ RowMod \in Nat \ {0} /\ VgaWidth \in Nat \ {0}
    BY TerminalAssumption
<1>4. video_mem' \in [Offsets -> Cells]
    BY <1>1, <1>2
<1>5. Terminal' = [video |-> video_mem', row |-> 0, col |-> 0, overrun |-> FALSE]
    BY <1>1 DEF Terminal
<1>6. Terminal' \in Terminals
    BY <1>3, <1>4, <1>5 DEF Terminals
<1>7. PlaceIn(<<>>, 0 + 1) = [row |-> 0, col |-> 0]
    <2>1. LineStartIn(<<>>, 1) \in 0 .. (1 - 1)
        BY LineStartIs
    <2>2. LineStartIn(<<>>, 1) = 0
        BY <2>1
    <2>3. RowsBefore(<<>>, 1) = {}
        BY DEF RowsBefore
    <2>4. Cardinality(RowsBefore(<<>>, 1)) = 0
        BY <2>3, FS_EmptySet
    <2>5. 0 % RowMod = 0 /\ 0 % VgaWidth = 0
        <3>1. 0 % RowMod = 0
            BY <1>3, RemainderSmall
        <3>2. 0 % VgaWidth = 0
            BY <1>3, RemainderSmall
        <3> QED BY <3>1, <3>2
    <2>6. (0 + 1) - LineStartIn(<<>>, 0 + 1) - 1 = 0 /\ 0 + 1 = 1
        BY <2>2
    <2>7. PlaceIn(<<>>, 1) = [row |-> 0 % RowMod, col |-> 0 % VgaWidth]
        BY <2>4, <2>6 DEF PlaceIn
    <2> QED BY <2>5, <2>6, <2>7
<1>8. ASSUME NEW o \in Offsets PROVE CellShows(Terminal'.video, <<>>, 0, o)
    <2>1. HereIn(<<>>, 0, o) = {}
        BY DEF HereIn
    <2>2. Terminal'.video[o] = IF o \in Screen THEN Blank ELSE Unwritten
        BY <1>1, <1>5
    <2> QED BY <2>1, <2>2 DEF CellShows
<1>9. Shows(Terminal', <<>>, 0)
    <2>1. OverIn(<<>>, 0) = {}
        BY DEF OverIn
    <2> QED BY <1>5, <1>7, <1>8, <2>1 DEF Shows
<1>10. Len(printed') = 0 /\ printed' \in Seq(Cells)
    BY <1>1
<1> QED BY <1>1, <1>6, <1>9, <1>10 DEF TextInv

(* A step that prints.                                                     *)
LEMMA PrintKeepsText ==
    ASSUME TextInv, stage # "start", stage' # "start",
           NEW msg \in Seq(Char), NEW colour \in 0 .. 255, PrintText(msg, colour)
    PROVE  TextInv'
<1>1. Terminal \in Terminals /\ printed \in Seq(Cells) /\ Shows(Terminal, printed, Len(printed))
    BY DEF TextInv
<1>2. (Terminal \in Terminals /\ printed \in Seq(Cells)
        /\ Shows(Terminal, printed, Len(printed)))'
    BY <1>1, PrintShows
<1> QED BY <1>2 DEF TextInv

(* Every step of kernel_main and of the program keeps the screen and the   *)
(* text together.                                                          *)
LEMMA TextStep ==
    ASSUME TextInv, [Next]_vars
    PROVE  TextInv'
<1>1. ASSUME UNCHANGED terminalVars, stage # "start" <=> stage' # "start" PROVE TextInv'
    BY <1>1 DEF TextInv, Terminal, terminalVars
<1>2. CASE ClearScreen
    BY <1>2, ClearShows
<1>3. CASE RefuseGdt
    <2>1. InvalidArgument \in Seq(Char) /\ PanicColour \in 0 .. 255
        BY DEF InvalidArgument, Char, PanicColour
    <2>2. stage # "start" /\ stage' # "start" /\ PrintText(InvalidArgument, PanicColour)
        BY <1>3 DEF RefuseGdt, Panic
    <2> QED BY <2>1, <2>2, PrintKeepsText
<1>4. CASE LoadFails
    <2>1. FailedToLoad \in Seq(Char) /\ PanicColour \in 0 .. 255
        BY DEF FailedToLoad, Char, PanicColour
    <2>2. stage # "start" /\ stage' # "start" /\ PrintText(FailedToLoad, PanicColour)
        BY <1>4 DEF LoadFails, Panic
    <2> QED BY <2>1, <2>2, PrintKeepsText
<1>5. CASE ProgramPrints
    <2>1. PICK msg \in Messages : PrintText(msg, PrintColour)
        BY <1>5 DEF ProgramPrints
    <2>2. msg \in Seq(Char) /\ PrintColour \in 0 .. 255
        <3>1. msg \in Seq(Char \ {0})
            BY KernelAssumption
        <3> QED BY <3>1 DEF PrintColour
    <2>3. stage # "start" /\ stage' # "start"
        BY <1>5 DEF ProgramPrints, bootVars
    <2> QED BY <2>1, <2>2, <2>3, PrintKeepsText
<1>6. CASE EncodeGdt
    BY <1>1, <1>6 DEF EncodeGdt
<1>7. CASE InitFilesystems
    BY <1>1, <1>7 DEF InitFilesystems
<1>8. CASE InitDisk
    BY <1>1, <1>8 DEF InitDisk
<1>9. CASE OpenProgram
    BY <1>1, <1>9 DEF OpenProgram
<1>10. CASE RunProgram
    BY <1>1, <1>10 DEF RunProgram
<1>11. CASE UNCHANGED vars
    BY <1>1, <1>11 DEF vars, bootVars
<1> QED BY <1>2, <1>3, <1>4, <1>5, <1>6, <1>7, <1>8, <1>9, <1>10, <1>11 DEF Next, KernelMain

(* kernel.c's print and panic: the kernel is written over exactly when a   *)
(* character of the text has its place there, and until then the video     *)
(* memory shows the text, for every width, height, size of the memory and  *)
(* text, and when newlines have taken the row counter round.               *)
THEOREM TextStaysShown == Spec => []ScreenShowsText
<1>1. TextInv => ScreenShowsText
    BY ShowsTextIs DEF TextInv, ScreenShowsText
<1> QED BY TextStart, TextStep, <1>1, PTL DEF Spec

-----------------------------------------------------------------------------
(* Mounting: the file systems, and the directory that is read.             *)

(* The parts of a disk, and the numbers of its header.                     *)
LEMMA DiskIs ==
    ASSUME image \in Images
    PROVE  /\ SectorItems \in Nat \ {0} /\ image.sector \in Nat
           /\ image.directory \in Seq(DirectoryItems) /\ image.header \in Headers
           /\ image.header.signature \in Bytes
           /\ image.header.fat_copies \in Nat /\ image.header.sectors_per_fat \in Nat
           /\ image.header.reserved_sectors \in Nat /\ image.header.root_dir_entries \in Nat
<1>1. image \in [header : Headers, sector : Nat, directory : Seq(DirectoryItems)]
    BY MountAssumption
<1>2. image.header \in Headers
    BY <1>1
<1> QED BY <1>1, <1>2, MountAssumption DEF Headers

(* Whatever place of the disk is read, it reads as a directory item.       *)
LEMMA ItemAtIs ==
    ASSUME image \in Images, NEW n \in Nat
    PROVE  /\ ItemAt(n) \in DirectoryItems
           /\ n - image.sector * SectorItems + 1 \notin 1 .. Len(image.directory)
                => Unused(ItemAt(n))
           /\ n - image.sector * SectorItems + 1 \in 1 .. Len(image.directory)
                => ItemAt(n) = image.directory[n - image.sector * SectorItems + 1]
<1>1. image.directory \in Seq(DirectoryItems)
    BY DiskIs
<1>2. DOMAIN image.directory = 1 .. Len(image.directory)
    BY <1>1
<1>3. FreeItem \in DirectoryItems /\ Unused(FreeItem)
    <2>1. 0 \in Bytes /\ 1 \in 1 .. NameLen
        BY NamesAssumption DEF Bytes
    <2>2. FreeItem.filename[1] = 0
        BY <2>1 DEF FreeItem
    <2> QED BY <2>1, <2>2 DEF FreeItem, DirectoryItems, Unused, EndMark
<1>4. \A i \in 1 .. Len(image.directory) : image.directory[i] \in DirectoryItems
    BY <1>1
<1> DEFINE i == n - image.sector * SectorItems + 1
<1>5. ItemAt(n) = IF i \in 1 .. Len(image.directory) THEN image.directory[i] ELSE FreeItem
    BY <1>2 DEF ItemAt
<1> HIDE DEF i
<1>6. CASE i \in 1 .. Len(image.directory)
    BY <1>4, <1>5, <1>6 DEF i
<1>7. CASE i \notin 1 .. Len(image.directory)
    BY <1>3, <1>5, <1>7 DEF i
<1> QED BY <1>6, <1>7

(* The count comes to its end, wherever it starts: beside the directory,   *)
(* or behind its last item.                                                *)
LEMMA CountEnds ==
    ASSUME image \in Images, NEW place \in Nat
    PROVE  /\ FirstUnused(place) \in 0 .. Len(image.directory)
           /\ Unused(ItemAt(place + FirstUnused(place)))
           /\ \A m \in 0 .. (FirstUnused(place) - 1) : ~Unused(ItemAt(place + m))
<1> DEFINE L == Len(image.directory)
           start == image.sector * SectorItems
           S == {n \in 0 .. L : Unused(ItemAt(place + n))}
<1>1. L \in Nat /\ start \in Nat
    <2>1. image.directory \in Seq(DirectoryItems) /\ image.sector \in Nat /\ SectorItems \in Nat
        BY DiskIs
    <2>2. L \in Nat
        BY <2>1
    <2>3. start \in Nat
        BY <2>1, SMT
    <2> QED BY <2>2, <2>3
<1>2. S # {}
    <2>1. CASE place < start
        <3>1. place + 0 \in Nat /\ (place + 0) - start + 1 \notin 1 .. L
            BY <1>1, <2>1
        <3>2. Unused(ItemAt(place + 0))
            BY <3>1, ItemAtIs
        <3>3. 0 \in 0 .. L
            BY <1>1
        <3> QED BY <3>2, <3>3
    <2>2. CASE ~(place < start)
        <3>1. place + L \in Nat /\ (place + L) - start + 1 \notin 1 .. L
            BY <1>1, <2>2
        <3>2. Unused(ItemAt(place + L))
            BY <3>1, ItemAtIs
        <3>3. L \in 0 .. L
            BY <1>1
        <3> QED BY <3>2, <3>3
    <2> QED BY <2>1, <2>2
<1>3. S \in SUBSET Nat
    BY <1>1
<1>4. \E n \in S : \A m \in S : n <= m
    <2> HIDE DEF S
    <2> QED BY <1>2, <1>3, Least
<1>5. PICK n \in S : \A m \in S : n <= m
    BY <1>4
<1>6. \A m \in 0 .. (n - 1) : m \in 0 .. L /\ ~(n <= m)
    BY <1>1, <1>5
<1>7. \A m \in 0 .. (n - 1) : ~Unused(ItemAt(place + m))
    BY <1>5, <1>6
<1>8. \E k \in 0 .. L : Unused(ItemAt(place + k))
                        /\ \A m \in 0 .. (k - 1) : ~Unused(ItemAt(place + m))
    BY <1>5, <1>7
<1> QED BY <1>8 DEF FirstUnused

(* The directory that fat16_get_root_directory reads is one.               *)
LEMMA RootDirectoryIs ==
    ASSUME image \in Images
    PROVE  /\ RootDirectory \in Directories
           /\ RootSector \in Nat
           /\ Len(RootDirectory.item) = image.header.root_dir_entries
           /\ DOMAIN RootDirectory.item = 1 .. image.header.root_dir_entries
<1>1. /\ SectorItems \in Nat \ {0} /\ image.header.fat_copies \in Nat
      /\ image.header.sectors_per_fat \in Nat /\ image.header.reserved_sectors \in Nat
      /\ image.header.root_dir_entries \in Nat
    BY DiskIs
<1>2. RootSector \in Nat
    <2>1. image.header.fat_copies * image.header.sectors_per_fat \in Nat
        BY <1>1, SMT
    <2> QED BY <1>1, <2>1 DEF RootSector
<1>3. RootSector * SectorItems \in Nat
    BY <1>1, <1>2, SMT
<1> DEFINE n == image.header.root_dir_entries
           items == [i \in 1 .. n |-> ItemAt(RootSector * SectorItems + i - 1)]
<1>4. items \in Seq(DirectoryItems) /\ Len(items) = n
    <2>1. \A i \in 1 .. n : RootSector * SectorItems + i - 1 \in Nat
        BY <1>1, <1>3
    <2>2. \A i \in 1 .. n : ItemAt(RootSector * SectorItems + i - 1) \in DirectoryItems
        BY <2>1, ItemAtIs
    <2>3. items \in [1 .. n -> DirectoryItems] /\ n \in Nat
        BY <1>1, <2>2
    <2> HIDE DEF items, n
    <2>4. items \in Seq(DirectoryItems)
        BY <2>3
    <2>5. DOMAIN items = 1 .. n
        BY <2>3
    <2> QED BY <2>3, <2>4, <2>5
<1>5. TotalItems(RootSector) \in Nat
    <2> DEFINE place == RootSector * SectorItems
               f == FirstUnused(place) - 1
               S == {m \in 0 .. f : InUse(ItemAt(place + m))}
    <2>1. f \in Int
        <3>1. FirstUnused(place) \in 0 .. Len(image.directory)
            BY <1>3, CountEnds
        <3> QED BY <3>1
    <2>2. IsFiniteSet(0 .. f)
        BY <2>1, FS_Interval
    <2>3. IsFiniteSet(S)
        BY <2>2, FS_Subset
    <2>4. Cardinality(S) \in Nat
        BY <2>3, FS_CardinalityType
    <2> QED BY <2>4 DEF TotalItems
<1>6. RootSector + n \div SectorItems \in Nat
    <2>1. n \div SectorItems \in Nat
        BY <1>1, SMT
    <2> QED BY <1>2, <2>1
<1>7. RootDirectory = [item |-> items, total |-> TotalItems(RootSector),
                       sector_pos |-> RootSector,
                       ending_sector_pos |-> RootSector + n \div SectorItems]
    BY DEF RootDirectory
<1>8. DOMAIN items = 1 .. n
    OBVIOUS
<1> HIDE DEF items, n
<1> QED BY <1>2, <1>4, <1>5, <1>6, <1>7, <1>8 DEF Directories, n

(* What kernel_main has mounted, and when.                                 *)
MountInv ==
    /\ image \in Images
    /\ DOMAIN filesystems = 1 .. MaxFilesystems
    /\ \A i \in DOMAIN filesystems : filesystems[i] \in {"none", "FAT16"}
    /\ filesystem \in {"none", "FAT16"} /\ root_directory \in Directories
    /\ stage \in {"start", "gdt", "fs"} => \A i \in DOMAIN filesystems : filesystems[i] = "none"
    /\ stage = "disk" => filesystems[1] = "FAT16"
    /\ stage \in {"start", "gdt", "fs", "disk"} => filesystem = "none"
    /\ Mounted => /\ filesystem = "FAT16" <=> image.header.signature = 41
                  /\ image.header.signature = 41 => root_directory = RootDirectory

(* Nothing is mounted when the kernel starts.                              *)
LEMMA MountStart == Init => MountInv
<1>1. NoDirectory \in Directories
    BY DEF NoDirectory, Directories
<1> QED BY <1>1 DEF Init, MountInit, MountInv, Mounted

(* Only fs_init and disk_search_and_init change what is mounted, each in   *)
(* its turn.                                                               *)
LEMMA MountStep ==
    ASSUME MountInv, [Next]_vars
    PROVE  MountInv'
<1>1. 1 \in 1 .. MaxFilesystems
    BY MountAssumption
<1>2. ASSUME UNCHANGED mountVars,
             \/ stage' = "panic"
             \/ stage' = stage
             \/ stage \in {"start", "gdt"} /\ stage' \in {"gdt", "fs"}
             \/ Mounted /\ stage' \in {"missed", "opened", "run"}
      PROVE  MountInv'
    BY <1>2 DEF MountInv, mountVars, Mounted, RootDirectory, TotalItems, FirstUnused, ItemAt,
                RootSector
<1>3. CASE ClearScreen
    BY <1>2, <1>3 DEF ClearScreen
<1>4. CASE EncodeGdt
    BY <1>2, <1>4 DEF EncodeGdt
<1>5. CASE RefuseGdt
    BY <1>2, <1>5 DEF RefuseGdt, Panic
<1>6. CASE InitFilesystems
    <2>1. filesystems' = [i \in DOMAIN filesystems |->
                             IF i \in FreeFilesystem THEN "FAT16" ELSE filesystems[i]]
          /\ UNCHANGED <<image, filesystem, root_directory>> /\ stage = "fs" /\ stage' = "disk"
        BY <1>6 DEF InitFilesystems, FsInit
    <2>2. 1 \in FreeFilesystem
        BY <1>1, <2>1 DEF MountInv, FreeFilesystem
    <2> QED BY <1>1, <2>1, <2>2 DEF MountInv, Mounted
<1>7. CASE InitDisk
    <2> DEFINE fits == {i \in DOMAIN filesystems : Resolves(filesystems[i])}
    <2>1. /\ IF fits = {} THEN UNCHANGED <<filesystem, root_directory>>
             ELSE filesystem' = "FAT16" /\ root_directory' = RootDirectory
          /\ UNCHANGED <<image, filesystems>> /\ stage = "disk" /\ stage' = "load"
        BY <1>7 DEF InitDisk, DiskSearchAndInit
    <2>2. fits = {} <=> image.header.signature # 41
        BY <1>1, <2>1 DEF MountInv, Resolves
    <2>3. RootDirectory \in Directories
        BY RootDirectoryIs DEF MountInv
    <2>4. RootDirectory' = RootDirectory
        BY <2>1 DEF RootDirectory, TotalItems, FirstUnused, ItemAt, RootSector
    <2> HIDE DEF fits
    <2> QED BY <2>1, <2>2, <2>3, <2>4 DEF MountInv, Mounted
<1>8. CASE OpenProgram
    BY <1>2, <1>8 DEF OpenProgram, Mounted
<1>9. CASE RunProgram
    BY <1>2, <1>9 DEF RunProgram, Mounted
<1>10. CASE LoadFails
    BY <1>2, <1>10 DEF LoadFails, Panic
<1>11. CASE ProgramPrints
    BY <1>2, <1>11 DEF ProgramPrints, bootVars
<1>12. CASE UNCHANGED vars
    BY <1>2, <1>12 DEF vars, bootVars
<1> QED BY <1>3, <1>4, <1>5, <1>6, <1>7, <1>8, <1>9, <1>10, <1>11, <1>12 DEF Next, KernelMain

(* Counting from 0 and numbering from 1 is the same.                       *)
LEMMA ShiftedByOne ==
    ASSUME NEW n \in Nat, NEW S \in SUBSET (0 .. n), NEW T \in SUBSET (1 .. (n + 1)),
           \A k \in 1 .. (n + 1) : k \in T <=> k - 1 \in S
    PROVE  Cardinality(S) = Cardinality(T)
<1> DEFINE f == [x \in S |-> x + 1]
<1>1. IsFiniteSet(0 .. n)
    BY FS_Interval
<1>2. IsFiniteSet(S)
    BY <1>1, FS_Subset
<1>3. \A x \in S : x + 1 \in 1 .. (n + 1) /\ (x + 1) - 1 = x /\ x \in Int
    OBVIOUS
<1>4. \A x \in S : f[x] = x + 1 /\ f[x] \in T
    BY <1>3
<1>5. f \in [S -> T]
    BY <1>4
<1>6. \A x, y \in S : f[x] = f[y] => x = y
    BY <1>3
<1>7. \A k \in T : k \in 1 .. (n + 1) /\ k - 1 \in S /\ (k - 1) + 1 = k
    OBVIOUS
<1>8. \A k \in T : \E x \in S : f[x] = k
    BY <1>4, <1>7
<1> HIDE DEF f
<1>9. f \in Bijection(S, T)
    BY <1>5, <1>6, <1>8, Fun_IsBij
<1> QED BY <1>2, <1>9, FS_Bijection DEF ExistsBijection

(* The slots of the directory, when it is where the header says.           *)
LEMMA GoodDirectory ==
    ASSUME image \in Images, GoodDisk, HasEnd
    PROVE  \E n \in 0 .. image.header.root_dir_entries :
             /\ n <= Len(image.directory)
             /\ Slots = 1 .. n
             /\ TotalItems(RootSector) = Cardinality(NamesInUse)
             /\ NamesInUse \subseteq 1 .. n
             /\ \A i \in 1 .. n : RootDirectory.item[i] = image.directory[i]
<1> DEFINE L == Len(image.directory)
           E == image.header.root_dir_entries
           place == RootSector * SectorItems
           n == FirstUnused(place)
<1>1. /\ SectorItems \in Nat \ {0} /\ image.sector \in Nat /\ E \in Nat /\ L \in Nat
      /\ image.directory \in Seq(DirectoryItems) /\ DOMAIN image.directory = 1 .. L
      /\ image.header.fat_copies \in Nat /\ image.header.sectors_per_fat \in Nat
      /\ image.header.reserved_sectors \in Nat
    BY DiskIs
<1>2. RootSector = image.sector
    <2>1. image.header.fat_copies * image.header.sectors_per_fat
            = image.header.sectors_per_fat * image.header.fat_copies
        BY <1>1, SMT
    <2>2. image.header.fat_copies * image.header.sectors_per_fat \in Nat
        BY <1>1, SMT
    <2> QED BY <1>1, <2>1, <2>2 DEF GoodDisk, RootSector
<1>3. place \in Nat /\ place = image.sector * SectorItems
    BY <1>1, <1>2, SMT
<1>4. ASSUME NEW m \in Nat
      PROVE  /\ m + 1 \in 1 .. L => ItemAt(place + m) = image.directory[m + 1]
             /\ m + 1 \notin 1 .. L => Unused(ItemAt(place + m))
    <2> HIDE DEF place
    <2>1. place + m \in Nat /\ (place + m) - image.sector * SectorItems + 1 = m + 1
        BY <1>3
    <2> QED BY <2>1, ItemAtIs
<1>5. /\ n \in 0 .. L
      /\ Unused(ItemAt(place + n))
      /\ \A m \in 0 .. (n - 1) : ~Unused(ItemAt(place + m))
    BY <1>3, CountEnds
<1> HIDE DEF n
<1>6. n \in Nat /\ n <= L
    BY <1>1, <1>5
<1>7. ASSUME NEW i \in 1 .. n
      PROVE  /\ i \in 1 .. L /\ i \notin EndSlots
             /\ i - 1 \in 0 .. (n - 1) /\ ItemAt(place + (i - 1)) = image.directory[i]
    <2> HIDE DEF place
    <2>1. i - 1 \in Nat /\ (i - 1) + 1 = i /\ i \in 1 .. L /\ i - 1 \in 0 .. (n - 1)
        BY <1>1, <1>6
    <2>2. ItemAt(place + (i - 1)) = image.directory[i]
        BY <1>4, <2>1
    <2>3. ~Unused(image.directory[i])
        BY <1>5, <2>1, <2>2
    <2> QED BY <2>1, <2>2, <2>3 DEF EndSlots, Unused
<1>8. n = L \/ n + 1 \in EndSlots
    <2>1. SUFFICES ASSUME n # L PROVE n + 1 \in EndSlots
        OBVIOUS
    <2>2. n + 1 \in 1 .. L
        BY <1>1, <1>6, <2>1
    <2>3. Unused(image.directory[n + 1])
        BY <1>4, <1>5, <1>6, <2>2
    <2> QED BY <1>1, <2>2, <2>3 DEF EndSlots, Unused
<1>9. EndSlots \subseteq 1 .. L /\ \A e \in EndSlots : e \notin 1 .. n
    BY <1>1, <1>7 DEF EndSlots
<1>10. \A e \in EndSlots : e \in Int /\ n < e
    BY <1>1, <1>6, <1>9
<1>11. Slots = 1 .. n
    <2>1. ASSUME NEW i \in Slots PROVE i \in 1 .. n
        <3>1. i \in 1 .. L /\ \A e \in EndSlots : i < e
            BY <1>1 DEF Slots
        <3> QED BY <1>1, <1>6, <1>8, <3>1
    <2>2. ASSUME NEW i \in 1 .. n PROVE i \in Slots
        <3>1. i \in 1 .. L /\ i <= n /\ i \in Int
            BY <1>7, <1>6
        <3> QED BY <1>1, <1>6, <1>10, <3>1 DEF Slots
    <2> QED BY <2>1, <2>2
<1>12. n <= E
    <2>1. CASE L < E
        BY <1>1, <1>6, <2>1
    <2>2. CASE \E i \in EndSlots : i <= E
        BY <1>1, <1>6, <1>10, <2>2
    <2> QED BY <2>1, <2>2 DEF HasEnd
<1>13. NamesInUse \subseteq 1 .. n
    BY <1>11 DEF NamesInUse
<1>14. TotalItems(RootSector) = Cardinality(NamesInUse)
    <2> DEFINE S == {m \in 0 .. (n - 1) : InUse(ItemAt(place + m))}
    <2>1. TotalItems(RootSector) = Cardinality(S)
        BY DEF TotalItems, n
    <2>2. ASSUME NEW k \in 1 .. (n + 1) PROVE k \in NamesInUse <=> k - 1 \in S
        <3>1. CASE k \in 1 .. n
            <4>1. k - 1 \in 0 .. (n - 1) /\ ItemAt(place + (k - 1)) = image.directory[k]
                  /\ k \notin EndSlots /\ k \in 1 .. L
                BY <1>7, <3>1
            <4>2. InUse(image.directory[k]) <=> image.directory[k].filename[1] # DeletedMark
                BY <1>1, <4>1 DEF InUse, EndSlots
            <4> QED BY <1>11, <3>1, <4>1, <4>2 DEF NamesInUse
        <3>2. CASE k \notin 1 .. n
            <4>1. k - 1 \notin 0 .. (n - 1)
                BY <1>6, <3>2
            <4> QED BY <1>13, <3>2, <4>1
        <3> QED BY <3>1, <3>2
    <2>3. S \in SUBSET (0 .. n) /\ NamesInUse \in SUBSET (1 .. (n + 1))
        BY <1>6, <1>13
    <2> HIDE DEF S
    <2>4. Cardinality(S) = Cardinality(NamesInUse)
        BY <1>6, <2>2, <2>3, ShiftedByOne
    <2> QED BY <2>1, <2>4
<1>15. ASSUME NEW i \in 1 .. n PROVE RootDirectory.item[i] = image.directory[i]
    <2>1. i \in 1 .. E
        BY <1>1, <1>6, <1>12
    <2>2. RootDirectory.item[i] = ItemAt(place + i - 1)
        BY <2>1 DEF RootDirectory
    <2> HIDE DEF place
    <2>3. place + i - 1 = place + (i - 1)
        BY <1>3
    <2> QED BY <1>7, <2>2, <2>3
<1> QED BY <1>1, <1>6, <1>11, <1>12, <1>13, <1>14, <1>15

(* The sector behind the directory, when its sectors are counted down.     *)
LEMMA SectorsRoundedDown ==
    ASSUME NEW s \in Nat, NEW e \in Nat, NEW w \in Nat \ {0}
    PROVE  (s + e \div w) * w = s * w + e <=> e % w = 0
<1> DEFINE d == e \div w
           m == e % w
<1>1. d \in Nat /\ m \in Nat /\ e = w * d + m
    BY SMT
<1> HIDE DEF d, m
<1>2. (s + d) * w = s * w + w * d
    BY <1>1, SMT
<1>3. s * w \in Nat /\ w * d \in Nat
    BY <1>1, SMT
<1>4. (s + d) * w = s * w + e <=> m = 0
    BY <1>1, <1>2, <1>3
<1> QED BY <1>4 DEF d, m

(* disk_search_and_init and fat16_resolve: the file system is the one the  *)
(* signature says, every name in use is counted, and the directory is read *)
(* from its place, for every layout of the disk and every directory on it. *)
THEOREM DirectoryIsMounted == Spec => []MountsTheDirectory
<1>1. MountInv => MountsTheDirectory
    <2> SUFFICES ASSUME MountInv, Mounted PROVE
            /\ filesystem = "FAT16" <=> image.header.signature = 41
            /\ GoodDisk /\ HasEnd =>
                /\ root_directory.total = Cardinality(NamesInUse)
                /\ root_directory.total <= Len(root_directory.item)
                /\ \A i \in Slots : root_directory.item[i] = image.directory[i]
                /\ root_directory.ending_sector_pos * SectorItems
                        = image.sector * SectorItems + image.header.root_dir_entries
                    <=> image.header.root_dir_entries % SectorItems = 0
        BY DEF MountsTheDirectory
    <2>1. filesystem = "FAT16" <=> image.header.signature = 41
        BY DEF MountInv
    <2>2. ASSUME GoodDisk, HasEnd
          PROVE  /\ root_directory.total = Cardinality(NamesInUse)
                 /\ root_directory.total <= Len(root_directory.item)
                 /\ \A i \in Slots : root_directory.item[i] = image.directory[i]
                 /\ root_directory.ending_sector_pos * SectorItems
                        = image.sector * SectorItems + image.header.root_dir_entries
                    <=> image.header.root_dir_entries % SectorItems = 0
        <3>1. root_directory = RootDirectory /\ image \in Images
            BY <2>2 DEF MountInv, GoodDisk
        <3>2. PICK n \in 0 .. image.header.root_dir_entries :
                 /\ Slots = 1 .. n
                 /\ TotalItems(RootSector) = Cardinality(NamesInUse)
                 /\ NamesInUse \subseteq 1 .. n
                 /\ \A i \in 1 .. n : RootDirectory.item[i] = image.directory[i]
            BY <2>2, <3>1, GoodDirectory
        <3>3. /\ SectorItems \in Nat \ {0} /\ image.sector \in Nat
              /\ image.header.root_dir_entries \in Nat
              /\ image.header.fat_copies \in Nat /\ image.header.sectors_per_fat \in Nat
              /\ image.header.reserved_sectors \in Nat
            BY <3>1, DiskIs
        <3>4. Len(RootDirectory.item) = image.header.root_dir_entries
            BY <3>1, RootDirectoryIs
        <3>5. RootDirectory.total = Cardinality(NamesInUse)
            BY <3>2 DEF RootDirectory
        <3>6. Cardinality(NamesInUse) \in Nat /\ Cardinality(NamesInUse) <= n /\ n \in Int
            <4>0. n \in Nat /\ 1 \in Int
                BY <3>3
            <4>1. IsFiniteSet(1 .. n) /\ Cardinality(1 .. n) = n
                <5>1. IsFiniteSet(1 .. n) /\ Cardinality(1 .. n) = IF 1 > n THEN 0 ELSE n - 1 + 1
                    BY <4>0, FS_Interval
                <5> QED BY <4>0, <5>1
            <4>2. Cardinality(NamesInUse) <= n /\ IsFiniteSet(NamesInUse)
                BY <3>2, <4>1, FS_Subset
            <4> QED BY <4>0, <4>2, FS_CardinalityType
        <3>7. RootSector = image.sector
            <4>1. image.header.fat_copies * image.header.sectors_per_fat
                    = image.header.sectors_per_fat * image.header.fat_copies
                BY <3>3, SMT
            <4>2. image.header.fat_copies * image.header.sectors_per_fat \in Nat
                BY <3>3, SMT
            <4> QED BY <2>2, <3>3, <4>1, <4>2 DEF GoodDisk, RootSector
        <3>8. RootDirectory.ending_sector_pos
                = image.sector + image.header.root_dir_entries \div SectorItems
            BY <3>7 DEF RootDirectory
        <3>9. (image.sector + image.header.root_dir_entries \div SectorItems) * SectorItems
                = image.sector * SectorItems + image.header.root_dir_entries
              <=> image.header.root_dir_entries % SectorItems = 0
            BY <3>3, SectorsRoundedDown
        <3>10. Cardinality(NamesInUse) <= image.header.root_dir_entries
            BY <3>3, <3>6
        <3> QED BY <3>1, <3>2, <3>4, <3>5, <3>8, <3>9, <3>10
    <2> QED BY <2>1, <2>2
<1> QED BY MountStart, MountStep, <1>1, PTL DEF Spec

-----------------------------------------------------------------------------
(* Types.                                                                  *)

(* A number of sixteen bits makes two bytes.                               *)
LEMMA WordInBytes ==
    ASSUME NEW n \in Int, 0 <= n, n <= 65535
    PROVE  n % 256 \in Byte /\ n \div 256 \in Byte
<1>1. n % 256 \in Int /\ 0 <= n % 256 /\ n % 256 <= 255
    BY SMT
<1>2. n \div 256 \in Int /\ 0 <= n \div 256 /\ n \div 256 <= 255
    BY SMT
<1> QED BY <1>1, <1>2 DEF Byte

(* encode_gdt_entry fills eight bytes, whatever the segment.               *)
LEMMA DescriptorTyped ==
    ASSUME NEW s \in Segments
    PROVE  Encode(s) \in Descriptors
<1> DEFINE hi == s.limit_hi
           lo == s.limit_lo
<1>1. /\ s.base_hi \in Int /\ 0 <= s.base_hi /\ s.base_hi <= 65535
      /\ s.base_lo \in Int /\ 0 <= s.base_lo /\ s.base_lo <= 65535
      /\ hi \in Int /\ 0 <= hi /\ hi <= 65535 /\ lo \in Int /\ 0 <= lo /\ lo <= 65535
      /\ s.type \in Byte
    <2>1. s.base_hi \in Word /\ s.base_lo \in Word /\ hi \in Word /\ lo \in Word /\ s.type \in Byte
        BY DEF Segments
    <2> QED BY <2>1, WordBounds
<1>2. LimitLow(s) \in Int /\ 0 <= LimitLow(s) /\ LimitLow(s) <= 65535
    <2> DEFINE x == hi * 16 + lo \div 4096
    <2>1. x \in Int
        BY <1>1, SMT
    <2>2. LimitLow(s) = IF Big(s) THEN x % 65536 ELSE lo
        BY DEF LimitLow
    <2> HIDE DEF x
    <2>3. x % 65536 \in Int /\ 0 <= x % 65536 /\ x % 65536 <= 65535
        BY <2>1, SMT
    <2> QED BY <1>1, <2>2, <2>3
<1>3. LimitHigh(s) \in Int /\ 0 <= LimitHigh(s) /\ LimitHigh(s) <= 15
    <2>1. CASE Big(s)
        <3>1. hi \div 4096 \in Int /\ 0 <= hi \div 4096 /\ hi \div 4096 <= 15
            BY <1>1, SMT
        <3> QED BY <2>1, <3>1 DEF LimitHigh
    <2>2. CASE ~Big(s)
        <3>1. ~(hi > 1)
            BY <2>2 DEF Big
        <3> QED BY <1>1, <2>2, <3>1 DEF LimitHigh
    <2> QED BY <2>1, <2>2
<1> DEFINE flags == (IF Big(s) THEN 192 ELSE 64) + LimitHigh(s)
           b1 == LimitLow(s) % 256
           b2 == LimitLow(s) \div 256
           b3 == s.base_lo % 256
           b4 == s.base_lo \div 256
           b5 == s.base_hi % 256
           b6 == s.base_hi \div 256
<1>4. flags \in Byte
    BY <1>3 DEF Byte
<1>5. b1 \in Byte /\ b2 \in Byte
    BY <1>2, WordInBytes
<1>6. b3 \in Byte /\ b4 \in Byte
    BY <1>1, WordInBytes
<1>7. b5 \in Byte /\ b6 \in Byte
    BY <1>1, WordInBytes
<1>8. Encode(s) = [i \in 0 .. 7 |->
        CASE i = 0 -> b1 [] i = 1 -> b2 [] i = 2 -> b3 [] i = 3 -> b4
          [] i = 4 -> b5 [] i = 5 -> s.type [] i = 6 -> flags [] i = 7 -> b6]
    BY DEF Encode
<1> HIDE DEF flags, b1, b2, b3, b4, b5, b6
<1>9. \A i \in 0 .. 7 : \/ i = 0 \/ i = 1 \/ i = 2 \/ i = 3 \/ i = 4 \/ i = 5 \/ i = 6 \/ i = 7
    OBVIOUS
<1>10. \A i \in 0 .. 7 : Encode(s)[i] \in Byte
    BY <1>1, <1>4, <1>5, <1>6, <1>7, <1>8, <1>9
<1> QED BY <1>8, <1>10 DEF Descriptors

(* fat16_find_item_in_directory finds an item by its number, or none.      *)
LEMMA FoundIsNumber ==
    ASSUME root_directory \in Directories, NEW name, NEW i \in FindItem(name)
    PROVE  i \in Nat
<1>1. Len(root_directory.item) \in Nat /\ root_directory.total \in Nat
    BY DEF Directories
<1>2. Matching(name) \subseteq 1 .. root_directory.total
    BY DEF Matching, Searched
<1>3. Unknown \in Nat
    BY <1>1 DEF Unknown
<1>4. i \in Matching(name) \/ i = 0 \/ i = Unknown
    BY DEF FindItem
<1> QED BY <1>1, <1>2, <1>3, <1>4

(* The types of what the other invariants do not speak of.                 *)
TypeInv ==
    /\ stage \in Stages
    /\ gdt_structured \in Seq(Segments) /\ gdt_real \in Seq(Descriptors)
    /\ found \in Nat

(* The kernel starts with variables of their types.                        *)
LEMMA TypeStart == Init => TypeInv
BY KernelAssumption DEF Init, TypeInv, Stages

(* Every step of the kernel gives its variables values of their types.     *)
LEMMA TypeStep ==
    ASSUME TypeInv, MountInv, [Next]_vars
    PROVE  TypeInv'
<1>1. CASE ClearScreen
    BY <1>1 DEF ClearScreen, TypeInv, Stages
<1>2. CASE EncodeGdt
    <2>1. gdt_structured' = gdt_structured /\ found' = found /\ stage' = "fs"
          /\ gdt_real' = [i \in DOMAIN gdt_structured |-> Encode(gdt_structured[i])]
        BY <1>2 DEF EncodeGdt
    <2>2. \A i \in DOMAIN gdt_structured : Encode(gdt_structured[i]) \in Descriptors
        BY DescriptorTyped DEF TypeInv
    <2>3. gdt_real' \in Seq(Descriptors)
        <3>1. DOMAIN gdt_structured = 1 .. Len(gdt_structured) /\ Len(gdt_structured) \in Nat
            BY DEF TypeInv
        <3>2. gdt_real' \in [1 .. Len(gdt_structured) -> Descriptors]
            BY <2>1, <2>2, <3>1
        <3> QED BY <3>1, <3>2
    <2> QED BY <2>1, <2>3 DEF TypeInv, Stages
<1>3. CASE RefuseGdt
    BY <1>3 DEF RefuseGdt, Panic, TypeInv, Stages
<1>4. CASE InitFilesystems
    BY <1>4 DEF InitFilesystems, TypeInv, Stages
<1>5. CASE InitDisk
    BY <1>5 DEF InitDisk, TypeInv, Stages
<1>6. CASE OpenProgram
    <2>1. \A i \in Opened : i \in Nat
        <3>1. \A i \in FindItem(Parts(path)[1]) : i \in Nat
            BY FoundIsNumber DEF MountInv
        <3> QED BY <3>1 DEF Opened
    <2>2. /\ found' \in Opened /\ stage' \in {"missed", "opened"}
          /\ gdt_structured' = gdt_structured /\ gdt_real' = gdt_real
        BY <1>6 DEF OpenProgram
    <2> QED BY <2>1, <2>2 DEF TypeInv, Stages
<1>7. CASE RunProgram
    BY <1>7 DEF RunProgram, TypeInv, Stages
<1>8. CASE LoadFails
    BY <1>8 DEF LoadFails, Panic, TypeInv, Stages
<1>9. CASE ProgramPrints
    BY <1>9 DEF ProgramPrints, bootVars, TypeInv
<1>10. CASE UNCHANGED vars
    BY <1>10 DEF vars, bootVars, TypeInv
<1> QED BY <1>1, <1>2, <1>3, <1>4, <1>5, <1>6, <1>7, <1>8, <1>9, <1>10 DEF Next, KernelMain

(* The state of the kernel's start has its types.                          *)
THEOREM KernelTyped == Spec => []KernelTypeOK
<1>1. TypeInv /\ MountInv /\ TextInv => KernelTypeOK
    <2> SUFFICES ASSUME TypeInv, MountInv, TextInv PROVE KernelTypeOK
        OBVIOUS
    <2>1. TerminalTypeOK
        <3>1. video_mem \in [Offsets -> Cells] /\ terminal_row \in 0 .. (RowMod - 1)
              /\ terminal_col \in 0 .. (VgaWidth - 1) /\ overrun \in BOOLEAN
            BY DEF TextInv, Terminals, Terminal
        <3> QED BY <3>1 DEF TerminalTypeOK, TextInv
    <2> QED BY <2>1 DEF KernelTypeOK, TypeInv, MountInv
<1>2. Init => TypeInv /\ MountInv /\ TextInv
    BY TypeStart, MountStart, TextStart
<1>3. TypeInv /\ MountInv /\ TextInv /\ [Next]_vars => (TypeInv /\ MountInv /\ TextInv)'
    <2>1. TypeInv /\ MountInv /\ [Next]_vars => TypeInv'
        BY TypeStep
    <2>2. MountInv /\ [Next]_vars => MountInv'
        BY MountStep
    <2>3. TextInv /\ [Next]_vars => TextInv'
        BY TextStep
    <2> QED BY <2>1, <2>2, <2>3
<1> QED BY <1>1, <1>2, <1>3, PTL DEF Spec

-----------------------------------------------------------------------------
(* Names of directory items.                                               *)

(* The characters that end a string of an item.                            *)
Stops == {EndMark, Space}

(* Two sequences, one behind the other.                                    *)
LEMMA JoinIs ==
    ASSUME NEW S, NEW s \in Seq(S), NEW t \in Seq(S), NEW c, c = s \o t
    PROVE  /\ c \in Seq(S) /\ Len(c) = Len(s) + Len(t)
           /\ Len(s) \in Nat /\ Len(t) \in Nat
           /\ \A i \in 1 .. Len(s) : c[i] = s[i]
           /\ \A i \in 1 .. Len(t) : c[Len(s) + i] = t[i]
<1>1. Len(s) \in Nat /\ Len(t) \in Nat
    OBVIOUS
<1>2. /\ c \in Seq(S) /\ Len(c) = Len(s) + Len(t)
      /\ \A i \in 1 .. Len(s) + Len(t) : c[i] = IF i <= Len(s) THEN s[i] ELSE t[i - Len(s)]
    BY ConcatProperties
<1>3. \A i \in 1 .. Len(s) : i \in 1 .. Len(s) + Len(t) /\ i <= Len(s)
    BY <1>1
<1>4. \A i \in 1 .. Len(t) : /\ Len(s) + i \in 1 .. Len(s) + Len(t) /\ ~(Len(s) + i <= Len(s))
                             /\ (Len(s) + i) - Len(s) = i
    BY <1>1
<1>5. \A i \in 1 .. Len(s) : c[i] = s[i]
    BY <1>2, <1>3
<1>6. \A i \in 1 .. Len(t) : c[Len(s) + i] = t[i]
    BY <1>2, <1>4
<1> QED BY <1>1, <1>2, <1>5, <1>6

(* A field without its padding: up to its last character.                  *)
Trimmed(field, n, p) ==
    /\ p \in 0 .. n
    /\ Unpadded(field) \in Seq(Bytes) /\ Len(Unpadded(field)) = p
    /\ \A i \in 1 .. p : Unpadded(field)[i] = field[i]
    /\ p = 0 \/ field[p] \notin Stops
    /\ \A i \in (p + 1) .. n : field[i] \in Stops

(* Every field has a last character, or none.                              *)
LEMMA UnpaddedIs ==
    ASSUME NEW n \in Nat, NEW field \in [1 .. n -> Bytes]
    PROVE  \E p \in 0 .. n : Trimmed(field, n, p)
<1> DEFINE used == {i \in DOMAIN field : field[i] \notin {EndMark, Space}}
           upto == {i \in DOMAIN field : \E j \in used : i <= j}
<1>1. DOMAIN field = 1 .. n
    OBVIOUS
<1>2. Unpadded(field) = [i \in 1 .. Cardinality(upto) |-> field[i]]
    BY DEF Unpadded
<1>3. \E p \in 0 .. n : /\ upto = 1 .. p
                        /\ p = 0 \/ field[p] \notin Stops
                        /\ \A i \in (p + 1) .. n : field[i] \in Stops
    <2>1. CASE used = {}
        <3>1. upto = {} /\ 1 .. 0 = {}
            BY <2>1
        <3>2. \A i \in 1 .. n : field[i] \in Stops
            BY <1>1, <2>1 DEF Stops
        <3>3. 0 \in 0 .. n /\ 0 + 1 = 1
            OBVIOUS
        <3> QED BY <3>1, <3>2, <3>3
    <2>2. CASE used # {}
        <3>1. used \in SUBSET (0 .. n)
            BY <1>1
        <3>2. \E k \in used : \A j \in used : j <= k
            <4> HIDE DEF used
            <4> QED BY <2>2, <3>1, Greatest
        <3>3. PICK k \in used : \A j \in used : j <= k
            BY <3>2
        <3>4. k \in 1 .. n /\ field[k] \notin Stops
            BY <1>1, <3>3 DEF Stops
        <3>5. upto = 1 .. k
            <4>1. ASSUME NEW i \in upto PROVE i \in 1 .. k
                <5>1. PICK j \in used : i <= j
                    OBVIOUS
                <5>2. j <= k /\ i \in 1 .. n /\ j \in 1 .. n
                    BY <1>1, <3>3, <5>1
                <5> QED BY <3>4, <5>1, <5>2
            <4>2. ASSUME NEW i \in 1 .. k PROVE i \in upto
                <5>1. i \in DOMAIN field /\ i <= k
                    BY <1>1, <3>4
                <5> HIDE DEF used
                <5> QED BY <3>3, <5>1
            <4> QED BY <4>1, <4>2
        <3>6. ASSUME NEW i \in (k + 1) .. n PROVE field[i] \in Stops
            <4>1. i \in DOMAIN field /\ ~(i <= k)
                BY <1>1, <3>4
            <4>2. i \notin used
                BY <3>3, <4>1
            <4> QED BY <4>1, <4>2 DEF Stops
        <3>7. k \in 0 .. n
            BY <3>4
        <3> HIDE DEF used, upto
        <3> QED BY <3>4, <3>5, <3>6, <3>7
    <2> QED BY <2>1, <2>2
<1> HIDE DEF used, upto
<1>4. PICK p \in 0 .. n : /\ upto = 1 .. p
                          /\ p = 0 \/ field[p] \notin Stops
                          /\ \A i \in (p + 1) .. n : field[i] \in Stops
    BY <1>3
<1>5. Cardinality(upto) = p
    <2>1. p \in Int /\ 1 \in Int /\ p >= 0
        OBVIOUS
    <2>2. Cardinality(1 .. p) = IF 1 > p THEN 0 ELSE p - 1 + 1
        BY <2>1, FS_Interval
    <2> QED BY <1>4, <2>1, <2>2
<1>6. Unpadded(field) = [i \in 1 .. p |-> field[i]]
    BY <1>2, <1>5
<1>7. p \in Nat /\ \A i \in 1 .. p : field[i] \in Bytes
    OBVIOUS
<1>8. Unpadded(field) \in [1 .. p -> Bytes]
    BY <1>6, <1>7
<1>9. Unpadded(field) \in Seq(Bytes) /\ Len(Unpadded(field)) = p
    BY <1>7, <1>8
<1> QED BY <1>4, <1>6, <1>9 DEF Trimmed

(* The bytes of an item, where they are in memory.                         *)
LEMMA MemoryIs ==
    ASSUME NEW item \in DirectoryItems
    PROVE  /\ Memory(item) \in Seq(Bytes) /\ Len(Memory(item)) = NameLen + ExtLen + 2
           /\ \A i \in 1 .. NameLen : Memory(item)[i] = item.filename[i]
           /\ \A i \in 1 .. ExtLen : Memory(item)[NameLen + i] = item.ext[i]
           /\ Memory(item)[NameLen + ExtLen + 1] = item.attribute
           /\ Memory(item)[NameLen + ExtLen + 2] = 0
<1> DEFINE f == item.filename
           e == item.ext
           last == <<item.attribute, 0>>
<1>1. NameLen \in Nat /\ ExtLen \in Nat
    BY NamesAssumption
<1>2. f \in [1 .. NameLen -> Bytes] /\ e \in [1 .. ExtLen -> Bytes] /\ item.attribute \in Bytes
    BY DEF DirectoryItems
<1> HIDE DEF f, e
<1>3. f \in Seq(Bytes) /\ Len(f) = NameLen /\ e \in Seq(Bytes) /\ Len(e) = ExtLen
    BY <1>1, <1>2
<1>4. last \in Seq(Bytes) /\ Len(last) = 2 /\ last[1] = item.attribute /\ last[2] = 0
    <2>1. 0 \in Bytes
        BY DEF Bytes
    <2> QED BY <1>2, <2>1
<1> HIDE DEF last
<1> DEFINE fe == f \o e
<1>5. /\ fe \in Seq(Bytes) /\ Len(fe) = NameLen + ExtLen
      /\ \A i \in 1 .. NameLen : fe[i] = f[i]
      /\ \A i \in 1 .. ExtLen : fe[NameLen + i] = e[i]
    BY <1>1, <1>3
<1> HIDE DEF fe
<1> DEFINE m == fe \o last
<1>6. /\ m \in Seq(Bytes) /\ Len(m) = NameLen + ExtLen + 2
      /\ \A i \in 1 .. (NameLen + ExtLen) : m[i] = fe[i]
      /\ m[NameLen + ExtLen + 1] = item.attribute /\ m[NameLen + ExtLen + 2] = 0
    <2>0. m = fe \o last
        OBVIOUS
    <2> HIDE DEF m
    <2>1. /\ m \in Seq(Bytes) /\ Len(m) = Len(fe) + Len(last)
          /\ \A i \in 1 .. Len(fe) : m[i] = fe[i]
          /\ \A i \in 1 .. Len(last) : m[Len(fe) + i] = last[i]
        <3>1. fe \in Seq(Bytes) /\ last \in Seq(Bytes)
            BY <1>4, <1>5
        <3> QED BY <2>0, <3>1, JoinIs
    <2>2. 1 \in 1 .. 2 /\ 2 \in 1 .. 2
        OBVIOUS
    <2> QED BY <1>4, <1>5, <2>1, <2>2
<1>7. Memory(item) = m
    BY DEF Memory, m, fe, f, e, last
<1> HIDE DEF m
<1>8. \A i \in 1 .. NameLen : i \in 1 .. (NameLen + ExtLen)
    BY <1>1
<1>9. \A i \in 1 .. ExtLen : NameLen + i \in 1 .. (NameLen + ExtLen)
    BY <1>1
<1> QED BY <1>5, <1>6, <1>7, <1>8, <1>9 DEF f, e

(* fat16_to_proper_string: the bytes up to the first that ends the string. *)
Ended(item, from, l) ==
    /\ l \in Nat /\ from + l <= NameLen + ExtLen + 2
    /\ ProperString(item, from) \in Seq(Bytes) /\ Len(ProperString(item, from)) = l
    /\ \A i \in 1 .. l : /\ ProperString(item, from)[i] = Memory(item)[from + i - 1]
                         /\ Memory(item)[from + i - 1] \notin Stops
    /\ Memory(item)[from + l] \in Stops

(* The string that starts in an item ends in it, at the reserved byte at   *)
(* the latest.                                                             *)
LEMMA ProperStringIs ==
    ASSUME NEW item \in DirectoryItems, NEW from \in 1 .. (NameLen + ExtLen + 2)
    PROVE  \E l \in Nat : Ended(item, from, l)
<1> DEFINE m == Memory(item)
           n == NameLen + ExtLen + 2
           stops == {k \in from .. Len(m) : m[k] \in {0, Space}}
           stop == CHOOSE k \in stops : \A j \in stops : k <= j
<1>1. n \in Nat
    BY NamesAssumption
<1>2. m \in Seq(Bytes) /\ Len(m) = n /\ m[n] = 0
    BY MemoryIs
<1>3. ProperString(item, from) = SubSeq(m, from, stop - 1)
    BY DEF ProperString
<1>4. stops \in SUBSET Nat
    BY <1>1, <1>2
<1>5. stops # {}
    <2>1. n \in from .. Len(m)
        BY <1>1, <1>2
    <2>2. n \in stops
        BY <1>2, <2>1
    <2> QED BY <2>2
<1>6. \E k \in stops : \A j \in stops : k <= j
    <2> HIDE DEF stops
    <2> QED BY <1>4, <1>5, Least
<1>7. stop \in stops /\ \A j \in stops : stop <= j
    BY <1>6
<1> HIDE DEF m, n, stop
<1>8. stop \in from .. n /\ m[stop] \in Stops
    BY <1>2, <1>7 DEF Stops, EndMark
<1>9. \A i \in from .. (stop - 1) : m[i] \notin Stops
    <2>1. SUFFICES ASSUME NEW i \in from .. (stop - 1), m[i] \in Stops PROVE FALSE
        OBVIOUS
    <2>2. i \in from .. n /\ ~(stop <= i)
        BY <1>1, <1>8
    <2>3. i \in stops
        BY <1>2, <2>1, <2>2 DEF Stops, EndMark
    <2> HIDE DEF stops
    <2> QED BY <1>7, <2>2, <2>3
<1> DEFINE l == stop - from
<1>10. l \in Nat /\ from + l = stop /\ stop - 1 = from + l - 1
    BY <1>1, <1>8
<1>11. /\ SubSeq(m, from, stop - 1) \in Seq(Bytes)
       /\ Len(SubSeq(m, from, stop - 1)) = l
       /\ \A i \in 1 .. l : SubSeq(m, from, stop - 1)[i] = m[from + i - 1]
    <2>1. from \in 1 .. (Len(m) + 1) /\ stop - 1 \in (from - 1) .. Len(m)
        BY <1>1, <1>2, <1>8
    <2>2. Len(SubSeq(m, from, stop - 1)) =
            IF from <= stop - 1 THEN (stop - 1) - from + 1 ELSE 0
        BY <1>2, <2>1, SubSeqProperties
    <2>3. Len(SubSeq(m, from, stop - 1)) = l
        BY <1>1, <1>8, <2>2
    <2> QED BY <1>2, <2>1, <2>3, SubSeqProperties
<1>12. \A i \in 1 .. l : from + i - 1 \in from .. (stop - 1)
    BY <1>1, <1>8
<1> HIDE DEF stops, l
<1>13. from + l <= n
    BY <1>1, <1>8, <1>10
<1> QED BY <1>3, <1>8, <1>9, <1>10, <1>11, <1>12, <1>13 DEF Ended, m, n

(* Where a string ends, from what is known of the memory.                  *)
LEMMA EndsNotBefore ==
    ASSUME NEW item, NEW from \in Nat, NEW l, Ended(item, from, l), NEW k \in Nat,
           \A i \in 1 .. k : Memory(item)[from + i - 1] \notin Stops
    PROVE  k <= l
<1>1. l \in Nat /\ Memory(item)[from + l] \in Stops
    BY DEF Ended
<1>2. l < k => l + 1 \in 1 .. k /\ from + (l + 1) - 1 = from + l
    BY <1>1
<1>3. ~(l < k)
    BY <1>1, <1>2
<1> QED BY <1>1, <1>3

(* A string ends no later than at the first stop.                          *)
LEMMA EndsNotBehind ==
    ASSUME NEW item, NEW from \in Nat, NEW l, Ended(item, from, l), NEW k \in Nat,
           Memory(item)[from + k] \in Stops
    PROVE  l <= k
<1>1. l \in Nat /\ \A i \in 1 .. l : Memory(item)[from + i - 1] \notin Stops
    BY DEF Ended
<1>2. k < l => k + 1 \in 1 .. l /\ from + (k + 1) - 1 = from + k
    BY <1>1
<1>3. ~(k < l)
    BY <1>1, <1>2
<1> QED BY <1>1, <1>3

(* A name, a dot, and an extension.                                        *)
Dotted(a, b) == a \o (<<Dot>> \o b)

(* The same, character by character.                                       *)
DotBetween(n, a, b) ==
    /\ n \in Seq(Bytes) /\ Len(n) = Len(a) + 1 + Len(b)
    /\ \A i \in 1 .. Len(a) : n[i] = a[i]
    /\ n[Len(a) + 1] = Dot
    /\ \A j \in 1 .. Len(b) : n[Len(a) + 1 + j] = b[j]

(* The characters of a name with an extension, one by one.                 *)
LEMMA WithExtension ==
    ASSUME NEW a \in Seq(Bytes), NEW b \in Seq(Bytes), NEW n, n = Dotted(a, b)
    PROVE  DotBetween(n, a, b)
<1> DEFINE dot == <<Dot>>
           d == dot \o b
           c == a \o d
<1>1. dot \in Seq(Bytes) /\ Len(dot) = 1 /\ dot[1] = Dot
    BY DEF Dot, Bytes
<1>0. d = dot \o b /\ c = a \o d
    OBVIOUS
<1> HIDE DEF dot, d, c
<1>2. /\ d \in Seq(Bytes) /\ Len(d) = Len(dot) + Len(b) /\ Len(b) \in Nat
      /\ \A i \in 1 .. Len(dot) : d[i] = dot[i]
      /\ \A i \in 1 .. Len(b) : d[Len(dot) + i] = b[i]
    <2>1. dot \in Seq(Bytes)
        BY <1>1
    <2> QED BY <1>0, <2>1, JoinIs
<1>3. /\ c \in Seq(Bytes) /\ Len(c) = Len(a) + Len(d) /\ Len(a) \in Nat
      /\ \A i \in 1 .. Len(a) : c[i] = a[i]
      /\ \A i \in 1 .. Len(d) : c[Len(a) + i] = d[i]
    <2>1. d \in Seq(Bytes)
        BY <1>2
    <2> QED BY <1>0, <2>1, JoinIs
<1>4. 1 \in 1 .. 1 /\ 1 \in 1 .. (1 + Len(b)) /\ d[1] = Dot
    BY <1>1, <1>2
<1>5. c[Len(a) + 1] = Dot
    BY <1>1, <1>2, <1>3, <1>4
<1>6. ASSUME NEW j \in 1 .. Len(b) PROVE c[Len(a) + 1 + j] = b[j]
    <2>1. 1 + j \in 1 .. (1 + Len(b)) /\ Len(a) + 1 + j = Len(a) + (1 + j)
        BY <1>2, <1>3
    <2>2. d[1 + j] = b[j]
        BY <1>1, <1>2
    <2> QED BY <1>1, <1>2, <1>3, <2>1, <2>2
<1>7. Len(c) = Len(a) + 1 + Len(b)
    BY <1>1, <1>2, <1>3
<1>8. n = c
    BY DEF c, d, dot, Dotted
<1> QED BY <1>3, <1>5, <1>6, <1>7, <1>8 DEF DotBetween

(* The characters of the name as it was written.                           *)
LEMMA DosNameIs ==
    ASSUME NEW item \in DirectoryItems,
           NEW p \in 0 .. NameLen, Trimmed(item.filename, NameLen, p),
           NEW q \in 0 .. ExtLen, Trimmed(item.ext, ExtLen, q)
    PROVE  /\ DosName(item) \in Seq(Bytes)
           /\ Len(DosName(item)) = IF q = 0 THEN p ELSE p + 1 + q
           /\ \A i \in 1 .. p : DosName(item)[i] = item.filename[i]
           /\ q # 0 => /\ DosName(item)[p + 1] = Dot
                       /\ \A j \in 1 .. q : DosName(item)[p + 1 + j] = item.ext[j]
<1> DEFINE a == Unpadded(item.filename)
           b == Unpadded(item.ext)
<1>1. /\ a \in Seq(Bytes) /\ Len(a) = p /\ \A i \in 1 .. p : a[i] = item.filename[i]
      /\ b \in Seq(Bytes) /\ Len(b) = q /\ \A i \in 1 .. q : b[i] = item.ext[i]
    BY DEF Trimmed
<1>2. DosName(item) = a \o (IF b = <<>> THEN <<>> ELSE <<Dot>> \o b)
    BY DEF DosName
<1> HIDE DEF a, b
<1>3. CASE q = 0
    <2>1. b = <<>>
        BY <1>1, <1>3
    <2>2. DosName(item) = a
        <3>1. a \o <<>> = a
            BY <1>1, ConcatEmptySeq
        <3> QED BY <1>2, <2>1, <3>1
    <2> QED BY <1>1, <1>3, <2>2
<1>4. CASE q # 0
    <2>1. b # <<>>
        BY <1>1, <1>4
    <2>2. DosName(item) = Dotted(a, b)
        BY <1>2, <2>1 DEF Dotted
    <2>3. a \in Seq(Bytes) /\ b \in Seq(Bytes)
        BY <1>1
    <2>4. DotBetween(DosName(item), a, b)
        BY <2>2, <2>3, WithExtension
    <2> QED BY <1>1, <1>4, <2>4 DEF DotBetween
<1> QED BY <1>3, <1>4

(* fat16_get_full_relative_filename: the name, and behind a dot the        *)
(* extension unless it starts with padding. Either string may run on into  *)
(* the field behind its own.                                               *)
Composed(item, l, r) ==
    /\ FullName(item) \in Seq(Bytes)
    /\ Len(FullName(item)) = IF item.ext[1] \in Stops THEN l ELSE l + 1 + r
    /\ \A i \in 1 .. l : FullName(item)[i] = Memory(item)[i]
    /\ item.ext[1] \notin Stops =>
        /\ FullName(item)[l + 1] = Dot
        /\ \A j \in 1 .. r : FullName(item)[l + 1 + j] = Memory(item)[NameLen + j]

(* The characters of the name as the code reads it.                        *)
LEMMA FullNameIs ==
    ASSUME NEW item \in DirectoryItems, NEW l, Ended(item, 1, l),
           NEW r, Ended(item, NameLen + 1, r)
    PROVE  Composed(item, l, r)
<1> DEFINE a == ProperString(item, 1)
           b == ProperString(item, NameLen + 1)
<1>0. NameLen \in Nat /\ l \in Nat /\ r \in Nat
    BY NamesAssumption DEF Ended
<1>1. a \in Seq(Bytes) /\ Len(a) = l /\ \A i \in 1 .. l : a[i] = Memory(item)[i]
    <2>1. \A i \in 1 .. l : 1 + i - 1 = i
        BY <1>0
    <2> QED BY <2>1 DEF Ended
<1>2. b \in Seq(Bytes) /\ Len(b) = r /\ \A i \in 1 .. r : b[i] = Memory(item)[NameLen + i]
    <2>1. \A i \in 1 .. r : (NameLen + 1) + i - 1 = NameLen + i
        BY <1>0
    <2> QED BY <2>1 DEF Ended
<1>3. FullName(item) = a \o (IF item.ext[1] \in Stops THEN <<>> ELSE <<Dot>> \o b)
    BY DEF FullName, Stops, EndMark
<1> HIDE DEF a, b
<1>4. CASE item.ext[1] \in Stops
    <2>1. a \o <<>> = a
        BY <1>1, ConcatEmptySeq
    <2>2. FullName(item) = a
        BY <1>3, <1>4, <2>1
    <2> QED BY <1>1, <1>4, <2>2 DEF Composed
<1>5. CASE item.ext[1] \notin Stops
    <2>1. FullName(item) = Dotted(a, b)
        BY <1>3, <1>5 DEF Dotted
    <2>2. a \in Seq(Bytes) /\ b \in Seq(Bytes)
        BY <1>1, <1>2
    <2>3. DotBetween(FullName(item), a, b)
        BY <2>1, <2>2, WithExtension
    <2> QED BY <1>1, <1>2, <1>5, <2>3 DEF Composed, DotBetween
<1> QED BY <1>4, <1>5

(* The name of an item is read as it was written just if it is Plain.      *)
LEMMA NameReadsBack ==
    ASSUME NEW item \in DirectoryItems
    PROVE  FullName(item) = DosName(item) <=> Plain(item)
<1> DEFINE f == item.filename
           e == item.ext
           m == Memory(item)
           F == FullName(item)
           D == DosName(item)
<1>0. NameLen \in Nat \ {0} /\ ExtLen \in Nat \ {0}
    BY NamesAssumption
<1>1. f \in [1 .. NameLen -> Bytes] /\ e \in [1 .. ExtLen -> Bytes]
    BY DEF DirectoryItems
<1>2. PICK p \in 0 .. NameLen : Trimmed(f, NameLen, p)
    BY <1>0, <1>1, UnpaddedIs
<1>3. PICK q \in 0 .. ExtLen : Trimmed(e, ExtLen, q)
    BY <1>0, <1>1, UnpaddedIs
<1>4. PICK l \in Nat : Ended(item, 1, l)
    <2>1. 1 \in 1 .. (NameLen + ExtLen + 2)
        BY <1>0
    <2> QED BY <2>1, ProperStringIs
<1>5. PICK r \in Nat : Ended(item, NameLen + 1, r)
    <2>1. NameLen + 1 \in 1 .. (NameLen + ExtLen + 2)
        BY <1>0
    <2> QED BY <2>1, ProperStringIs
<1>6. /\ \A i \in 1 .. NameLen : m[i] = f[i]
      /\ \A i \in 1 .. ExtLen : m[NameLen + i] = e[i]
      /\ m[NameLen + ExtLen + 1] = item.attribute
    BY MemoryIs
<1>7. /\ F \in Seq(Bytes)
      /\ Len(F) = IF e[1] \in Stops THEN l ELSE l + 1 + r
      /\ \A i \in 1 .. l : F[i] = m[i]
      /\ e[1] \notin Stops => /\ F[l + 1] = Dot
                              /\ \A j \in 1 .. r : F[l + 1 + j] = m[NameLen + j]
    <2>1. Composed(item, l, r)
        BY <1>4, <1>5, FullNameIs
    <2> QED BY <2>1 DEF Composed
<1>8. /\ D \in Seq(Bytes)
      /\ Len(D) = IF q = 0 THEN p ELSE p + 1 + q
      /\ \A i \in 1 .. p : D[i] = f[i]
      /\ q # 0 => /\ D[p + 1] = Dot
                  /\ \A j \in 1 .. q : D[p + 1 + j] = e[j]
    BY <1>2, <1>3, DosNameIs
<1>9. /\ NoGap(f) <=> \A i \in 1 .. p : f[i] \notin Stops
      /\ NoGap(e) <=> \A i \in 1 .. q : e[i] \notin Stops
      /\ Plain(item) <=> /\ NoGap(f) /\ NoGap(e)
                         /\ p < NameLen \/ q = 0
                         /\ q < ExtLen \/ item.attribute \in Stops
    <2>1. Len(Unpadded(f)) = p /\ Len(Unpadded(e)) = q /\ (Unpadded(e) = <<>> <=> q = 0)
        BY <1>2, <1>3 DEF Trimmed
    <2> QED BY <2>1 DEF NoGap, Plain, Stops, EndMark, ArchiveAttribute, Space
<1>10. /\ \A i \in (p + 1) .. NameLen : f[i] \in Stops
       /\ \A i \in (q + 1) .. ExtLen : e[i] \in Stops
    BY <1>2, <1>3 DEF Trimmed
<1>11. Dot \notin Stops
    BY DEF Dot, Stops, EndMark, Space
(* Where the strings end.                                                  *)
<1>12. \A k \in Nat : (\A i \in 1 .. k : m[i] \notin Stops) => k <= l
    <2> SUFFICES ASSUME NEW k \in Nat, \A i \in 1 .. k : m[i] \notin Stops PROVE k <= l
        OBVIOUS
    <2>1. \A i \in 1 .. k : m[1 + i - 1] \notin Stops
        <3>1. \A i \in 1 .. k : 1 + i - 1 = i
            OBVIOUS
        <3> QED BY <3>1
    <2> QED BY <1>4, <2>1, EndsNotBefore
<1>13. \A k \in Nat : m[1 + k] \in Stops => l <= k
    BY <1>4, EndsNotBehind
<1>14. \A k \in Nat : (\A i \in 1 .. k : m[NameLen + i] \notin Stops) => k <= r
    <2> SUFFICES ASSUME NEW k \in Nat, \A i \in 1 .. k : m[NameLen + i] \notin Stops PROVE k <= r
        OBVIOUS
    <2>1. \A i \in 1 .. k : m[(NameLen + 1) + i - 1] \notin Stops
        <3>1. \A i \in 1 .. k : (NameLen + 1) + i - 1 = NameLen + i
            BY <1>0
        <3> QED BY <3>1
    <2>2. NameLen + 1 \in Nat
        BY <1>0
    <2> QED BY <1>5, <2>1, <2>2, EndsNotBefore
<1>15. \A k \in Nat : m[NameLen + 1 + k] \in Stops => r <= k
    <2>1. NameLen + 1 \in Nat
        BY <1>0
    <2> QED BY <1>5, <2>1, EndsNotBehind
<1> HIDE DEF f, e, m, F, D
<1>16. /\ m[1 + l] \in Stops /\ m[NameLen + 1 + r] \in Stops
    BY <1>4, <1>5 DEF Ended, m
<1>17. p < NameLen /\ (\A i \in 1 .. p : f[i] \notin Stops) => l = p
    <2> SUFFICES ASSUME p < NameLen, \A i \in 1 .. p : f[i] \notin Stops PROVE l = p
        OBVIOUS
    <2>1. p \in Nat /\ 1 + p \in (p + 1) .. NameLen /\ 1 + p \in 1 .. NameLen
        BY <1>0
    <2>2. \A i \in 1 .. p : i \in 1 .. NameLen
        BY <1>0
    <2>3. p <= l
        BY <1>6, <1>12, <2>1, <2>2
    <2>4. l <= p
        BY <1>6, <1>10, <1>13, <2>1
    <2> QED BY <2>1, <2>3, <2>4
<1>18. ASSUME F = D PROVE Plain(item)
    <2>1. \A i \in 1 .. p : f[i] \notin Stops
        <3>1. SUFFICES ASSUME NEW i \in 1 .. p, f[i] \in Stops PROVE FALSE
            OBVIOUS
        <3>2. i \in 1 .. NameLen /\ i - 1 \in Nat /\ 1 + (i - 1) = i
            BY <1>0
        <3>3. l <= i - 1
            BY <1>6, <1>13, <3>1, <3>2
        <3>4. l + 1 \in 1 .. p /\ 1 + l = l + 1 /\ l + 1 \in 1 .. NameLen
            BY <1>0, <3>2, <3>3
        <3>5. D[l + 1] \in Stops
            BY <1>6, <1>8, <1>16, <3>4
        <3>6. l < Len(F)
            BY <1>8, <1>18, <3>4
        <3>7. F[l + 1] = Dot
            BY <1>7, <3>6
        <3> QED BY <1>11, <1>18, <3>5, <3>7
    <2>2. p < NameLen \/ q = 0
        <3>1. SUFFICES ASSUME p = NameLen, q # 0 PROVE FALSE
            BY <1>0
        <3>2. NameLen <= l
            BY <1>0, <1>6, <1>12, <2>1, <3>1
        <3>3. 1 \in 1 .. ExtLen /\ q \in Nat /\ Len(D) = NameLen + 1 + q
            BY <1>0, <1>8, <3>1
        <3>4. m[NameLen + 1] = e[1]
            BY <1>6, <3>3
        <3>5. CASE e[1] \in Stops
            <4>1. 1 + NameLen = NameLen + 1
                BY <1>0
            <4>2. l <= NameLen
                BY <1>0, <1>13, <3>4, <3>5, <4>1
            <4> QED BY <1>0, <1>7, <1>18, <3>2, <3>3, <3>5, <4>2
        <3>6. CASE e[1] \notin Stops
            <4>1. l <= NameLen + r
                <5>1. NameLen + 1 + r = 1 + (NameLen + r) /\ NameLen + r \in Nat
                    BY <1>0
                <5> QED BY <1>13, <1>16, <5>1
            <4>2. r <= l - NameLen
                <5>1. l - NameLen \in Nat /\ NameLen + 1 + (l - NameLen) = 1 + l
                    BY <1>0, <3>2
                <5> QED BY <1>15, <1>16, <5>1
            <4>3. l = NameLen + r
                BY <1>0, <4>1, <4>2
            <4>4. 1 <= r
                <5>1. \A i \in 1 .. 1 : m[NameLen + i] \notin Stops
                    BY <3>4, <3>6
                <5> QED BY <1>14, <5>1
            <4>5. Len(F) = l + 1 + r
                BY <1>7, <3>6
            <4>6. q = r + r
                BY <1>0, <1>18, <3>3, <4>3, <4>5
            <4>7. r + 1 \in 1 .. q /\ r + 1 \in 1 .. ExtLen /\ 1 \in 1 .. r
                  /\ NameLen + 1 + (r + 1) = l + 1 + 1 /\ NameLen + (r + 1) = NameLen + 1 + r
                BY <1>0, <4>3, <4>4, <4>6
            <4>8. D[NameLen + 1 + (r + 1)] = e[r + 1]
                BY <1>8, <3>1, <4>7
            <4>9. e[r + 1] \in Stops
                BY <1>6, <1>16, <4>7
            <4>10. F[l + 1 + 1] = m[NameLen + 1]
                BY <1>7, <3>6, <4>7
            <4> QED BY <1>18, <3>4, <3>6, <4>7, <4>8, <4>9, <4>10
        <3> QED BY <3>5, <3>6
    <2>3. \A i \in 1 .. q : e[i] \notin Stops
        <3>1. SUFFICES ASSUME NEW i \in 1 .. q, e[i] \in Stops PROVE FALSE
            OBVIOUS
        <3>2. q # 0 /\ i \in 1 .. ExtLen /\ i - 1 \in Nat /\ NameLen + 1 + (i - 1) = NameLen + i
            BY <1>0
        <3>3. l = p
            BY <1>17, <2>1, <2>2, <3>2
        <3>4. r <= i - 1
            BY <1>6, <1>15, <3>1, <3>2
        <3>5. Len(D) = p + 1 + q /\ (Len(F) = p \/ Len(F) = p + 1 + r)
            BY <1>7, <1>8, <3>2, <3>3
        <3> QED BY <1>18, <3>2, <3>4, <3>5
    <2>4. q < ExtLen \/ item.attribute \in Stops
        <3>1. SUFFICES ASSUME q = ExtLen, item.attribute \notin Stops PROVE FALSE
            BY <1>0
        <3>2. q # 0 /\ 1 \in 1 .. q
            BY <1>0, <3>1
        <3>3. l = p
            BY <1>17, <2>1, <2>2, <3>2
        <3>4. \A i \in 1 .. (ExtLen + 1) : m[NameLen + i] \notin Stops
            <4>1. \A i \in 1 .. (ExtLen + 1) : i \in 1 .. ExtLen \/ i = ExtLen + 1
                BY <1>0
            <4>2. NameLen + (ExtLen + 1) = NameLen + ExtLen + 1
                BY <1>0
            <4> QED BY <1>6, <2>3, <3>1, <4>1, <4>2
        <3>5. ExtLen + 1 <= r
            <4>1. ExtLen + 1 \in Nat
                BY <1>0
            <4> QED BY <1>14, <3>4, <4>1
        <3>6. Len(F) = p + 1 + r /\ Len(D) = p + 1 + q
            BY <1>7, <1>8, <2>3, <3>2, <3>3
        <3> QED BY <1>0, <1>18, <3>1, <3>5, <3>6
    <2> QED BY <1>9, <2>1, <2>2, <2>3, <2>4
<1>19. ASSUME Plain(item) PROVE F = D
    <2>1. /\ \A i \in 1 .. p : f[i] \notin Stops
          /\ \A i \in 1 .. q : e[i] \notin Stops
          /\ p < NameLen \/ q = 0
          /\ q < ExtLen \/ item.attribute \in Stops
        BY <1>9, <1>19
    <2>2. q = 0 => e[1] \in Stops
        BY <1>0, <1>10
    <2>3. l = p
        <3>1. CASE p < NameLen
            BY <1>17, <2>1, <3>1
        <3>2. CASE ~(p < NameLen)
            <4>1. p = NameLen /\ q = 0 /\ 1 \in 1 .. ExtLen /\ NameLen + 1 = 1 + NameLen
                BY <1>0, <2>1, <3>2
            <4>2. NameLen <= l
                BY <1>0, <1>6, <1>12, <2>1, <4>1
            <4>3. l <= NameLen
                BY <1>0, <1>6, <1>13, <2>2, <4>1
            <4> QED BY <1>0, <4>1, <4>2, <4>3
        <3> QED BY <3>1, <3>2
    <2>4. \A i \in 1 .. p : F[i] = D[i]
        <3>1. \A i \in 1 .. p : i \in 1 .. NameLen
            BY <1>0
        <3> QED BY <1>6, <1>7, <1>8, <2>3, <3>1
    <2>5. CASE q = 0
        <3>1. Len(F) = p /\ Len(D) = p
            BY <1>7, <1>8, <2>2, <2>3, <2>5
        <3> QED BY <1>7, <1>8, <2>4, <3>1, SeqEqual
    <2>6. CASE q # 0
        <3>1. e[1] \notin Stops /\ q \in Nat /\ 1 \in 1 .. q
            BY <2>1, <2>6
        <3>2. \A i \in 1 .. q : m[NameLen + i] = e[i]
            BY <1>0, <1>6
        <3>3. q <= r
            BY <1>14, <2>1, <3>1, <3>2
        <3>4. r <= q
            <4>1. m[NameLen + 1 + q] \in Stops
                <5>1. CASE q < ExtLen
                    <6>1. q + 1 \in (q + 1) .. ExtLen /\ q + 1 \in 1 .. ExtLen
                          /\ NameLen + (q + 1) = NameLen + 1 + q
                        BY <1>0, <3>1, <5>1
                    <6> QED BY <1>6, <1>10, <6>1
                <5>2. CASE ~(q < ExtLen)
                    <6>1. NameLen + 1 + q = NameLen + ExtLen + 1
                        BY <1>0, <5>2
                    <6> QED BY <1>6, <2>1, <5>2, <6>1
                <5> QED BY <5>1, <5>2
            <4> QED BY <1>15, <3>1, <4>1
        <3>5. r = q
            BY <3>1, <3>3, <3>4
        <3>6. Len(F) = p + 1 + q /\ Len(D) = p + 1 + q
            BY <1>7, <1>8, <2>3, <2>6, <3>1, <3>5
        <3>7. F[p + 1] = Dot /\ D[p + 1] = Dot
            BY <1>7, <1>8, <2>3, <2>6, <3>1
        <3>8. \A j \in 1 .. q : F[p + 1 + j] = D[p + 1 + j]
            BY <1>7, <1>8, <2>3, <2>6, <3>1, <3>2, <3>5
        <3>9. \A i \in 1 .. (p + 1 + q) :
                i \in 1 .. p \/ i = p + 1 \/ \E j \in 1 .. q : i = p + 1 + j
            <4> SUFFICES ASSUME NEW i \in 1 .. (p + 1 + q), i \notin 1 .. p, i # p + 1
                         PROVE  \E j \in 1 .. q : i = p + 1 + j
                OBVIOUS
            <4>1. i - p - 1 \in 1 .. q /\ i = p + 1 + (i - p - 1)
                BY <3>1
            <4> QED BY <4>1
        <3>10. \A i \in 1 .. Len(F) : F[i] = D[i]
            BY <2>4, <3>6, <3>7, <3>8, <3>9
        <3> QED BY <1>7, <1>8, <3>6, <3>10, SeqEqual
    <2> QED BY <2>5, <2>6
<1> QED BY <1>18, <1>19 DEF F, D

(* fat16_get_full_relative_filename: the name of an item is read as it was *)
(* written exactly when Plain says so, for all lengths and all characters. *)
THEOREM NamesAreReadAsWritten == Spec => []NamesReadAsWritten
<1>1. MountInv => NamesReadAsWritten
    <2> SUFFICES ASSUME MountInv, NEW i \in DOMAIN image.directory
                 PROVE  FullName(image.directory[i]) = DosName(image.directory[i])
                            <=> Plain(image.directory[i])
        BY DEF NamesReadAsWritten
    <2>1. image.directory \in Seq(DirectoryItems)
        BY DiskIs DEF MountInv
    <2>2. image.directory[i] \in DirectoryItems
        BY <2>1
    <2> QED BY <2>2, NameReadsBack
<1> QED BY MountStart, MountStep, <1>1, PTL DEF Spec

-----------------------------------------------------------------------------
(* The parts of a path.                                                    *)

(* The strings of C: characters before the 0.                              *)
Strings == Seq(Bytes \ {0})

(* pathparser_get_path_part: a part ends at a slash or with the path.      *)
PartEnds(s, from, e) ==
    /\ e \in from .. (Len(s) + 1)
    /\ PartAt(s, from) = SubSeq(s, from, e - 1) /\ Len(PartAt(s, from)) = e - from
    /\ \A i \in from .. (e - 1) : s[i] # Slash
    /\ e = Len(s) + 1 \/ s[e] = Slash
    /\ PartAt(s, from) = <<>> <=> e = from
    /\ AfterPart(s, from) = IF e = Len(s) + 1 THEN e ELSE e + 1

(* Wherever a part starts in a path, it ends in it.                        *)
LEMMA PartIs ==
    ASSUME NEW s \in Strings, NEW from \in 1 .. (Len(s) + 1)
    PROVE  \E e \in from .. (Len(s) + 1) : PartEnds(s, from, e)
<1> DEFINE n == Len(s)
           ends == {k \in from .. (n + 1) : At(s, k) \in {0, Slash}}
           e == CHOOSE k \in ends : \A j \in ends : k <= j
<1>1. n \in Nat /\ DOMAIN s = 1 .. n /\ s \in Seq(Bytes \ {0})
    BY DEF Strings
<1>2. PartAt(s, from) = SubSeq(s, from, e - 1)
    BY DEF PartAt
<1>3. n + 1 \in ends
    BY <1>1 DEF At
<1>4. ends \in SUBSET Nat
    BY <1>1
<1>5. \E k \in ends : \A j \in ends : k <= j
    <2> HIDE DEF ends
    <2> QED BY <1>3, <1>4, Least
<1>6. e \in ends /\ \A j \in ends : e <= j
    BY <1>5
<1> HIDE DEF e
<1>7. e \in from .. (n + 1) /\ At(s, e) \in {0, Slash}
    BY <1>6
<1>8. \A i \in from .. n : s[i] # 0 /\ At(s, i) = s[i] /\ s[i] \in Bytes
    BY <1>1 DEF At
<1>9. e = n + 1 \/ (e \in from .. n /\ s[e] = Slash)
    BY <1>1, <1>7, <1>8
<1>10. \A i \in from .. (e - 1) : s[i] # Slash
    <2>1. SUFFICES ASSUME NEW i \in from .. (e - 1), s[i] = Slash PROVE FALSE
        OBVIOUS
    <2>2. i \in from .. n /\ i \in from .. (n + 1) /\ ~(e <= i)
        BY <1>1, <1>7
    <2>3. i \in ends
        BY <1>8, <2>1, <2>2
    <2> HIDE DEF ends
    <2> QED BY <1>6, <2>2, <2>3
<1>11. Len(PartAt(s, from)) = e - from /\ PartAt(s, from) \in Seq(Bytes)
    <2>1. \A i \in from .. (e - 1) : s[i] \in Bytes
        BY <1>1, <1>7, <1>8
    <2>2. from \in Int /\ e - 1 \in Int
        BY <1>1, <1>7
    <2>3. /\ SubSeq(s, from, e - 1) \in Seq(Bytes)
          /\ Len(SubSeq(s, from, e - 1)) = IF from <= e - 1 THEN (e - 1) - from + 1 ELSE 0
        BY <2>1, <2>2, SubSeqProperties
    <2>4. (IF from <= e - 1 THEN (e - 1) - from + 1 ELSE 0) = e - from
        BY <1>1, <1>7
    <2> QED BY <1>2, <2>3, <2>4
<1>12. PartAt(s, from) = <<>> <=> e = from
    <2>1. PartAt(s, from) = <<>> <=> Len(PartAt(s, from)) = 0
        BY <1>11
    <2> QED BY <1>1, <1>7, <1>11, <2>1
<1>13. AfterPart(s, from) = IF e = n + 1 THEN e ELSE e + 1
    <2>1. from + Len(PartAt(s, from)) = e
        BY <1>1, <1>7, <1>11
    <2>2. AfterPart(s, from) = IF At(s, e) = Slash THEN e + 1 ELSE e
        BY <2>1 DEF AfterPart
    <2>3. e = n + 1 => At(s, e) # Slash
        BY <1>1 DEF At, Slash
    <2>4. e \in from .. n => At(s, e) = s[e] /\ e # n + 1
        BY <1>1, <1>8
    <2> QED BY <1>9, <2>2, <2>3, <2>4
<1> HIDE DEF ends
<1>14. PartEnds(s, from, e)
    BY <1>2, <1>7, <1>9, <1>10, <1>11, <1>12, <1>13 DEF PartEnds
<1> QED BY <1>7, <1>14

(* A part that is not empty takes the search forward.                      *)
LEMMA PartsGoOn ==
    ASSUME NEW s \in Strings, NEW from \in 1 .. (Len(s) + 1)
    PROVE  /\ AfterPart(s, from) \in 1 .. (Len(s) + 1)
           /\ PartAt(s, from) # <<>> => AfterPart(s, from) > from
<1>1. PICK e \in from .. (Len(s) + 1) : PartEnds(s, from, e)
    BY PartIs
<1>2. Len(s) \in Nat
    BY DEF Strings
<1> QED BY <1>1, <1>2 DEF PartEnds

(* The recursive function of Parts, from one place of the path on.         *)
PartsBody(s, g, from) ==
    IF PartAt(s, from) = <<>> THEN <<>> ELSE <<PartAt(s, from)>> \o g[AfterPart(s, from)]

PartsStep(s, g) == [from \in 1 .. (Len(s) + 1) |-> PartsBody(s, g, from)]

(* A function that agrees with the recursion from place lo on.             *)
PartsFrom(s, lo, g) ==
    /\ g = [from \in 1 .. (Len(s) + 1) |-> g[from]]
    /\ \A from \in lo .. (Len(s) + 1) : g[from] = PartsBody(s, g, from)

(* The recursive function of Parts has a value: it is built from the end   *)
(* of the path.                                                            *)
LEMMA PartsExist ==
    ASSUME NEW s \in Strings
    PROVE  \E g : g = PartsStep(s, g)
<1> DEFINE n == Len(s) + 1
<1>1. n \in Nat /\ 1 <= n
    BY DEF Strings
<1>2. \E g : PartsFrom(s, n + 1, g)
    <2>1. PartsFrom(s, n + 1, [from \in 1 .. n |-> <<>>])
        <3>1. \A from : from \notin (n + 1) .. n
            BY <1>1
        <3> QED BY <3>1 DEF PartsFrom
    <2> QED BY <2>1
<1>3. ASSUME NEW lo \in 1 .. n, NEW g, PartsFrom(s, lo + 1, g)
      PROVE  \E h : PartsFrom(s, lo, h)
    <2> DEFINE h == [from \in 1 .. n |-> IF from = lo THEN PartsBody(s, g, lo) ELSE g[from]]
    <2>1. h = [from \in 1 .. n |-> h[from]]
        OBVIOUS
    <2>2. ASSUME NEW from \in lo .. n PROVE h[from] = PartsBody(s, h, from)
        <3>1. from \in 1 .. n /\ lo \in Nat /\ from \in Nat
            BY <1>1
        <3>2. PartAt(s, from) # <<>> => /\ AfterPart(s, from) \in 1 .. n
                                        /\ AfterPart(s, from) # lo
            BY <3>1, PartsGoOn
        <3>3. PartAt(s, from) # <<>> => h[AfterPart(s, from)] = g[AfterPart(s, from)]
            BY <3>2
        <3>4. PartsBody(s, h, from) = PartsBody(s, g, from)
            <4> HIDE DEF h
            <4> QED BY <3>3 DEF PartsBody
        <3>5. CASE from = lo
            <4>1. h[from] = PartsBody(s, g, from)
                BY <3>1, <3>5
            <4> QED BY <3>4, <4>1
        <3>6. CASE from # lo
            <4>1. from \in (lo + 1) .. n
                BY <1>1, <3>1, <3>6
            <4>2. g[from] = PartsBody(s, g, from)
                BY <1>3, <4>1 DEF PartsFrom
            <4>3. h[from] = g[from]
                BY <3>1, <3>6
            <4> QED BY <3>4, <4>2, <4>3
        <3> QED BY <3>5, <3>6
    <2> HIDE DEF h
    <2>3. PartsFrom(s, lo, h)
        BY <2>1, <2>2 DEF PartsFrom
    <2> QED BY <2>3
<1> HIDE DEF n
<1> DEFINE S == {lo \in 1 .. (n + 1) : \E g : PartsFrom(s, lo, g)}
<1>4. S \in SUBSET Nat /\ n + 1 \in S
    BY <1>1, <1>2
<1>5. \E lo \in S : \A j \in S : lo <= j
    <2> HIDE DEF S
    <2> QED BY <1>4, Least
<1>6. PICK lo \in S : \A j \in S : lo <= j
    BY <1>5
<1>7. lo = 1
    <2>1. SUFFICES ASSUME lo # 1 PROVE FALSE
        OBVIOUS
    <2>2. lo - 1 \in 1 .. n /\ (lo - 1) + 1 = lo /\ lo - 1 \in 1 .. (n + 1) /\ ~(lo <= lo - 1)
        BY <1>1, <2>1
    <2>3. \E g : PartsFrom(s, (lo - 1) + 1, g)
        BY <2>2
    <2>4. \E g : PartsFrom(s, lo - 1, g)
        BY <1>3, <2>2, <2>3
    <2>5. lo - 1 \in S
        BY <2>2, <2>4
    <2> HIDE DEF S
    <2> QED BY <1>6, <2>2, <2>5
<1>8. PICK g : PartsFrom(s, 1, g)
    BY <1>7
<1>9. g = PartsStep(s, g)
    BY <1>8 DEF PartsFrom, PartsStep
<1> QED BY <1>9

(* Parts is a chain: each part begins where the one before it ends, and    *)
(* the first that is empty is not one.                                     *)
ChainFrom(s, from, parts, k, at) ==
    /\ k \in Nat /\ at \in [1 .. (k + 1) -> 1 .. (Len(s) + 1)]
    /\ at[1] = from
    /\ parts = [i \in 1 .. k |-> PartAt(s, at[i])]
    /\ \A i \in 1 .. k : PartAt(s, at[i]) # <<>> /\ at[i + 1] = AfterPart(s, at[i])
    /\ PartAt(s, at[k + 1]) = <<>>

(* A chain that starts behind a part, with the part before it, is a chain. *)
LEMMA ChainGrows ==
    ASSUME NEW s, NEW from \in 1 .. (Len(s) + 1), PartAt(s, from) # <<>>,
           NEW rest, NEW k, NEW at, ChainFrom(s, AfterPart(s, from), rest, k, at)
    PROVE  \E m, a : ChainFrom(s, from, <<PartAt(s, from)>> \o rest, m, a)
<1> DEFINE a == [i \in 1 .. (k + 2) |-> IF i = 1 THEN from ELSE at[i - 1]]
           p == <<PartAt(s, from)>> \o rest
           T == {PartAt(s, from)} \cup {rest[i] : i \in 1 .. k}
<1>1. /\ k \in Nat /\ at \in [1 .. (k + 1) -> 1 .. (Len(s) + 1)]
      /\ at[1] = AfterPart(s, from)
      /\ rest = [i \in 1 .. k |-> PartAt(s, at[i])]
      /\ \A i \in 1 .. k : PartAt(s, at[i]) # <<>> /\ at[i + 1] = AfterPart(s, at[i])
      /\ PartAt(s, at[k + 1]) = <<>>
    BY DEF ChainFrom
<1>2. \A i \in 1 .. (k + 2) : i = 1 \/ (i # 1 /\ i - 1 \in 1 .. (k + 1) /\ i \in Int)
    BY <1>1
<1>3. a \in [1 .. (k + 2) -> 1 .. (Len(s) + 1)]
    BY <1>1, <1>2
<1>4. 1 \in 1 .. (k + 2) /\ a[1] = from
    BY <1>1
<1>5. \A i \in 1 .. (k + 1) : i + 1 \in 1 .. (k + 2) /\ i + 1 # 1 /\ (i + 1) - 1 = i
    BY <1>1
<1>6. \A i \in 1 .. (k + 1) : a[i + 1] = at[i]
    BY <1>5
<1>7. /\ p \in Seq(T) /\ Len(p) = 1 + k
      /\ p[1] = PartAt(s, from)
      /\ \A i \in 1 .. k : p[1 + i] = rest[i]
    <2> DEFINE one == <<PartAt(s, from)>>
    <2>1. one \in Seq(T) /\ Len(one) = 1 /\ one[1] = PartAt(s, from)
        OBVIOUS
    <2>2. rest \in Seq(T) /\ Len(rest) = k
        <3>1. rest \in [1 .. k -> T]
            BY <1>1
        <3> HIDE DEF T
        <3> QED BY <1>1, <3>1
    <2>3. p = one \o rest
        OBVIOUS
    <2> HIDE DEF one, p, T
    <2>4. /\ p \in Seq(T) /\ Len(p) = Len(one) + Len(rest)
          /\ \A i \in 1 .. Len(one) : p[i] = one[i]
          /\ \A i \in 1 .. Len(rest) : p[Len(one) + i] = rest[i]
        <3>1. one \in Seq(T) /\ rest \in Seq(T)
            BY <2>1, <2>2
        <3> QED BY <2>3, <3>1, JoinIs
    <2>5. 1 \in 1 .. 1
        OBVIOUS
    <2> QED BY <2>1, <2>2, <2>4, <2>5
<1> HIDE DEF a, p, T
<1>8. p = [i \in 1 .. (k + 1) |-> PartAt(s, a[i])]
    <2>1. DOMAIN p = 1 .. (k + 1) /\ p = [i \in DOMAIN p |-> p[i]]
        <3>1. DOMAIN p = 1 .. (1 + k)
            BY <1>7
        <3>2. 1 .. (1 + k) = 1 .. (k + 1)
            BY <1>1
        <3> QED BY <1>7, <3>1, <3>2
    <2>2. ASSUME NEW i \in 1 .. (k + 1) PROVE p[i] = PartAt(s, a[i])
        <3>1. CASE i = 1
            BY <1>4, <1>7, <3>1
        <3>2. CASE i # 1
            <4>1. i - 1 \in 1 .. k /\ 1 + (i - 1) = i /\ i - 1 \in 1 .. (k + 1) /\ (i - 1) + 1 = i
                BY <1>1, <3>2
            <4>2. p[1 + (i - 1)] = rest[i - 1] /\ a[(i - 1) + 1] = at[i - 1]
                BY <1>6, <1>7, <4>1
            <4>3. rest[i - 1] = PartAt(s, at[i - 1])
                BY <1>1, <4>1
            <4> QED BY <4>1, <4>2, <4>3
        <3> QED BY <3>1, <3>2
    <2> QED BY <2>1, <2>2
<1>9. ASSUME NEW i \in 1 .. (k + 1)
      PROVE  PartAt(s, a[i]) # <<>> /\ a[i + 1] = AfterPart(s, a[i])
    <2>1. CASE i = 1
        <3>1. 1 \in 1 .. (k + 1)
            BY <1>1
        <3>2. a[1 + 1] = at[1]
            BY <1>6, <3>1
        <3> QED BY <1>1, <1>4, <2>1, <3>2
    <2>2. CASE i # 1
        <3>1. i - 1 \in 1 .. k /\ i - 1 \in 1 .. (k + 1) /\ (i - 1) + 1 = i
            BY <1>1, <2>2
        <3>2. a[(i - 1) + 1] = at[i - 1] /\ a[i + 1] = at[i]
            BY <1>6, <3>1
        <3>3. PartAt(s, at[i - 1]) # <<>> /\ at[(i - 1) + 1] = AfterPart(s, at[i - 1])
            BY <1>1, <3>1
        <3> QED BY <3>1, <3>2, <3>3
    <2> QED BY <2>1, <2>2
<1>10. PartAt(s, a[(k + 1) + 1]) = <<>>
    <2>1. k + 1 \in 1 .. (k + 1)
        BY <1>1
    <2> QED BY <1>1, <1>6, <2>1
<1>11. k + 1 \in Nat /\ a \in [1 .. ((k + 1) + 1) -> 1 .. (Len(s) + 1)]
    <2>1. (k + 1) + 1 = k + 2
        BY <1>1
    <2> QED BY <1>1, <1>3, <2>1
<1>12. ChainFrom(s, from, p, k + 1, a)
    BY <1>4, <1>8, <1>9, <1>10, <1>11 DEF ChainFrom
<1> QED BY <1>12 DEF p

(* The parts of a path follow each other from behind its drive.            *)
LEMMA PartsChain ==
    ASSUME NEW s \in Strings, Len(s) >= 3
    PROVE  \E k, at : ChainFrom(s, 4, Parts(s), k, at)
<1> DEFINE f == CHOOSE g : g = PartsStep(s, g)
           n == Len(s) + 1
<1>1. f = PartsStep(s, f)
    BY PartsExist
<1>2. Parts(s) = f[4]
    BY DEF Parts, PartsStep, PartsBody
<1> HIDE DEF f
<1>3. \A from \in 1 .. n : f[from] = PartsBody(s, f, from)
    BY <1>1 DEF PartsStep
<1>4. n \in Nat /\ 4 \in 1 .. n
    BY DEF Strings
<1>5. \A from \in 1 .. n : \E k, at : ChainFrom(s, from, f[from], k, at)
    <2> DEFINE Bad == {from \in 1 .. n : ~\E k, at : ChainFrom(s, from, f[from], k, at)}
    <2>1. SUFFICES ASSUME Bad # {} PROVE FALSE
        OBVIOUS
    <2>2. Bad \in SUBSET (0 .. n)
        BY <1>4
    <2>3. \E from \in Bad : \A j \in Bad : j <= from
        <3> HIDE DEF Bad, n
        <3> QED BY <1>4, <2>1, <2>2, Greatest
    <2>4. PICK from \in Bad : \A j \in Bad : j <= from
        BY <2>3
    <2>5. from \in 1 .. n /\ f[from] = PartsBody(s, f, from)
        BY <1>3
    <2>6. CASE PartAt(s, from) = <<>>
        <3> DEFINE at == [i \in 1 .. 1 |-> from]
        <3>1. f[from] = <<>>
            BY <2>5, <2>6 DEF PartsBody
        <3>2. 0 + 1 = 1 /\ 1 \in 1 .. 1 /\ \A i : i \notin 1 .. 0
            OBVIOUS
        <3>3. at \in [1 .. 1 -> 1 .. n] /\ at[1] = from
            BY <2>5
        <3>4. <<>> = [i \in 1 .. 0 |-> PartAt(s, at[i])]
            BY <3>2
        <3> HIDE DEF at
        <3>5. ChainFrom(s, from, f[from], 0, at)
            BY <2>6, <3>1, <3>2, <3>3, <3>4 DEF ChainFrom
        <3> QED BY <2>4, <3>5
    <2>7. CASE PartAt(s, from) # <<>>
        <3> DEFINE next == AfterPart(s, from)
        <3>1. f[from] = <<PartAt(s, from)>> \o f[next]
            BY <2>5, <2>7 DEF PartsBody
        <3>2. next \in 1 .. n /\ next > from
            BY <2>5, <2>7, PartsGoOn
        <3>3. ~(next <= from)
            BY <1>4, <2>5, <3>2
        <3>4. next \notin Bad
            BY <2>4, <3>3
        <3>5. PICK k, at : ChainFrom(s, next, f[next], k, at)
            BY <3>2, <3>4
        <3>6. \E m, a : ChainFrom(s, from, f[from], m, a)
            BY <2>5, <2>7, <3>1, <3>5, ChainGrows
        <3> QED BY <2>4, <3>6
    <2> QED BY <2>6, <2>7
<1> QED BY <1>2, <1>4, <1>5

(* The parts joined by slashes: joined of ParsesThePath.                   *)
JoinStep(parts, g) ==
    [i \in 0 .. Len(parts) |-> IF i = 0 THEN <<>> ELSE g[i - 1] \o parts[i] \o <<Slash>>]

(* Where each part ends; the path begins behind its third character.       *)
EndsAt(s, at, k, e) ==
    /\ e[0] = 3
    /\ \A i \in 1 .. k : e[i] \in Nat /\ PartEnds(s, at[i], e[i]) /\ at[i] < e[i]

(* Each part ends where the next begins, but for the slash between them.   *)
LEMMA ChainEnds ==
    ASSUME NEW s \in Strings, Len(s) >= 3, NEW k, NEW at, ChainFrom(s, 4, Parts(s), k, at)
    PROVE  \E e : /\ EndsAt(s, at, k, e)
                  /\ \A i \in 0 .. k : e[i] \in 3 .. (Len(s) + 1)
                  /\ \A i \in 1 .. k : at[i] = e[i - 1] + 1 /\ e[i - 1] <= Len(s)
                  /\ at[k + 1] = IF e[k] = Len(s) + 1 THEN e[k] ELSE e[k] + 1
<1> DEFINE n == Len(s)
           e == [i \in 0 .. k |-> IF i = 0 THEN 3 ELSE at[i] + Len(PartAt(s, at[i]))]
<1>1. n \in Nat /\ k \in Nat /\ at \in [1 .. (k + 1) -> 1 .. (n + 1)] /\ at[1] = 4
      /\ n >= 3
    BY DEF Strings, ChainFrom
<1>2. /\ \A i \in 1 .. k : PartAt(s, at[i]) # <<>> /\ at[i + 1] = AfterPart(s, at[i])
      /\ PartAt(s, at[k + 1]) = <<>>
    BY DEF ChainFrom
<1>3. ASSUME NEW i \in 1 .. k
      PROVE  /\ e[i] \in Nat /\ PartEnds(s, at[i], e[i]) /\ at[i] < e[i] /\ e[i] <= n + 1
             /\ at[i + 1] = IF e[i] = n + 1 THEN e[i] ELSE e[i] + 1
    <2>1. i \in 1 .. (k + 1) /\ i \in 0 .. k /\ i # 0
        BY <1>1
    <2>2. at[i] \in 1 .. (n + 1)
        BY <1>1, <2>1
    <2>3. PICK x \in at[i] .. (n + 1) : PartEnds(s, at[i], x)
        BY <2>2, PartIs
    <2>4. e[i] = at[i] + Len(PartAt(s, at[i]))
        BY <2>1
    <2>5. Len(PartAt(s, at[i])) = x - at[i]
        BY <2>3 DEF PartEnds
    <2> HIDE DEF e
    <2>6. e[i] = x
        BY <1>1, <2>2, <2>4, <2>5
    <2>7. x # at[i]
        BY <1>2, <2>3 DEF PartEnds
    <2>8. at[i + 1] = IF x = n + 1 THEN x ELSE x + 1
        BY <1>2, <2>3 DEF PartEnds
    <2> QED BY <1>1, <2>2, <2>3, <2>6, <2>7, <2>8
<1>4. e[0] = 3
    BY <1>1
<1> HIDE DEF e
<1>5. ASSUME NEW i \in 1 .. k
      PROVE  at[i] = e[i - 1] + 1 /\ e[i - 1] <= n
    <2>1. CASE i = 1
        BY <1>1, <1>4, <2>1
    <2>2. CASE i # 1
        <3>1. i - 1 \in 1 .. k /\ (i - 1) + 1 = i
            BY <1>1, <2>2
        <3>2. /\ at[i] = IF e[i - 1] = n + 1 THEN e[i - 1] ELSE e[i - 1] + 1
              /\ e[i - 1] \in Nat /\ e[i - 1] <= n + 1
            BY <1>3, <3>1
        <3>3. at[i] < e[i] /\ e[i] <= n + 1 /\ e[i] \in Nat
            BY <1>3
        <3> QED BY <1>1, <3>2, <3>3
    <2> QED BY <2>1, <2>2
<1>6. \A i \in 0 .. k : e[i] \in 3 .. (n + 1)
    <2> SUFFICES ASSUME NEW i \in 0 .. k PROVE e[i] \in 3 .. (n + 1)
        OBVIOUS
    <2>1. CASE i = 0
        BY <1>1, <1>4, <2>1
    <2>2. CASE i # 0
        <3>1. i \in 1 .. k
            BY <1>1, <2>2
        <3>2. at[i] \in 1 .. (n + 1) /\ e[i] \in Nat /\ at[i] < e[i] /\ e[i] <= n + 1
            <4>1. i \in 1 .. (k + 1)
                BY <1>1, <3>1
            <4> QED BY <1>1, <1>3, <3>1, <4>1
        <3>3. PartEnds(s, at[i], e[i]) /\ at[i] >= 4
            <4>1. SUFFICES at[i] >= 4
                BY <1>3, <3>1
            <4> DEFINE Low == {j \in 1 .. k : ~(at[j] >= 4)}
            <4>2. SUFFICES ASSUME Low # {} PROVE FALSE
                BY <3>1
            <4>3. Low \in SUBSET Nat
                BY <1>1
            <4>4. \E j \in Low : \A h \in Low : j <= h
                <5> HIDE DEF Low
                <5> QED BY <4>2, <4>3, Least
            <4>5. PICK j \in Low : \A h \in Low : j <= h
                BY <4>4
            <4>6. j # 1
                BY <1>1
            <4>7. j - 1 \in 1 .. k /\ ~(j <= j - 1)
                BY <1>1, <4>6
            <4>8. at[j - 1] >= 4
                BY <4>5, <4>7
            <4>9. at[j] = e[j - 1] + 1 /\ at[j - 1] < e[j - 1] /\ e[j - 1] \in Nat
                BY <1>3, <1>5, <4>7
            <4>10. at[j - 1] \in Int /\ at[j] >= 4
                <5>1. j - 1 \in 1 .. (k + 1)
                    BY <1>1, <4>7
                <5>2. at[j - 1] \in Int
                    BY <1>1, <5>1
                <5> QED BY <4>8, <4>9, <5>2
            <4> QED BY <4>10
        <3> QED BY <1>1, <3>2, <3>3
    <2> QED BY <2>1, <2>2
<1>7. at[k + 1] = IF e[k] = n + 1 THEN e[k] ELSE e[k] + 1
    <2>1. CASE k = 0
        BY <1>1, <1>4, <2>1
    <2>2. CASE k # 0
        <3>1. k \in 1 .. k
            BY <1>1, <2>2
        <3> QED BY <1>3, <3>1
    <2> QED BY <2>1, <2>2
<1>8. EndsAt(s, at, k, e)
    BY <1>3, <1>4 DEF EndsAt
<1> QED BY <1>5, <1>6, <1>7, <1>8

(* A slash behind the path ends its last part like the others.             *)
Slashed(s) == s \o <<Slash>>

(* The path with a slash at its end, character by character.               *)
LEMMA SlashedIs ==
    ASSUME NEW s \in Strings
    PROVE  /\ Slashed(s) \in Seq(Bytes) /\ Len(Slashed(s)) = Len(s) + 1 /\ Len(s) \in Nat
           /\ \A i \in 1 .. Len(s) : Slashed(s)[i] = s[i]
           /\ Slashed(s)[Len(s) + 1] = Slash
<1> DEFINE slash == <<Slash>>
<1>1. slash \in Seq(Bytes) /\ Len(slash) = 1 /\ slash[1] = Slash
    BY DEF Slash, Bytes
<1>2. s \in Seq(Bytes)
    BY DEF Strings
<1>3. Slashed(s) = s \o slash
    BY DEF Slashed
<1> HIDE DEF slash
<1>4. slash \in Seq(Bytes)
    BY <1>1
<1>5. /\ Slashed(s) \in Seq(Bytes) /\ Len(Slashed(s)) = Len(s) + Len(slash) /\ Len(s) \in Nat
      /\ \A i \in 1 .. Len(s) : Slashed(s)[i] = s[i]
      /\ \A i \in 1 .. Len(slash) : Slashed(s)[Len(s) + i] = slash[i]
    BY <1>2, <1>3, <1>4, JoinIs
<1>6. 1 \in 1 .. 1
    OBVIOUS
<1> QED BY <1>1, <1>5, <1>6

(* What is cut from the path is cut from the path with the slash alike.    *)
LEMMA PieceOf ==
    ASSUME NEW s \in Strings, NEW m \in 1 .. (Len(s) + 1), NEW n \in (m - 1) .. Len(s)
    PROVE  SubSeq(Slashed(s), m, n) = SubSeq(s, m, n)
<1> DEFINE u == Slashed(s)
<1>1. u \in Seq(Bytes) /\ Len(u) = Len(s) + 1 /\ Len(s) \in Nat
      /\ \A i \in 1 .. Len(s) : u[i] = s[i]
    BY SlashedIs
<1>2. s \in Seq(Bytes)
    BY DEF Strings
<1> HIDE DEF u
<1>3. \A i \in m .. n : i \in 1 .. Len(s) /\ u[i] = s[i] /\ s[i] \in Bytes
    BY <1>1, <1>2
<1>4. m \in Int /\ n \in Int
    BY <1>1
<1>5. /\ SubSeq(s, m, n) \in Seq(Bytes)
      /\ Len(SubSeq(s, m, n)) = (IF m <= n THEN n - m + 1 ELSE 0)
      /\ \A i \in 1 .. (n - m + 1) : SubSeq(s, m, n)[i] = s[m + i - 1]
    BY <1>3, <1>4, SubSeqProperties
<1>6. /\ SubSeq(u, m, n) \in Seq(Bytes)
      /\ Len(SubSeq(u, m, n)) = (IF m <= n THEN n - m + 1 ELSE 0)
      /\ \A i \in 1 .. (n - m + 1) : SubSeq(u, m, n)[i] = u[m + i - 1]
    BY <1>3, <1>4, SubSeqProperties
<1>7. \A i \in 1 .. (n - m + 1) : m + i - 1 \in m .. n
    BY <1>4
<1>8. \A i \in 1 .. (IF m <= n THEN n - m + 1 ELSE 0) : i \in 1 .. (n - m + 1)
    BY <1>4
<1>9. \A i \in 1 .. Len(SubSeq(s, m, n)) : SubSeq(s, m, n)[i] = SubSeq(u, m, n)[i]
    BY <1>3, <1>5, <1>6, <1>7, <1>8
<1>10. SubSeq(s, m, n) = SubSeq(u, m, n)
    BY <1>5, <1>6, <1>9, SeqEqual
<1> QED BY <1>10 DEF u

(* One character, cut out of a sequence.                                   *)
LEMMA OnePiece ==
    ASSUME NEW S, NEW s \in Seq(S), NEW x \in 1 .. Len(s)
    PROVE  SubSeq(s, x, x) = <<s[x]>>
<1>1. x \in Int /\ \A i \in x .. x : i = x /\ s[i] \in S
    OBVIOUS
<1>2. /\ SubSeq(s, x, x) \in Seq(S)
      /\ Len(SubSeq(s, x, x)) = (IF x <= x THEN x - x + 1 ELSE 0)
      /\ \A i \in 1 .. (x - x + 1) : SubSeq(s, x, x)[i] = s[x + i - 1]
    BY <1>1, SubSeqProperties
<1>3. x - x + 1 = 1 /\ x <= x /\ x + 1 - 1 = x /\ 1 \in 1 .. 1
    BY <1>1
<1>4. Len(SubSeq(s, x, x)) = 1 /\ SubSeq(s, x, x)[1] = s[x]
    BY <1>2, <1>3
<1>5. s[x] \in S
    OBVIOUS
<1>6. <<s[x]>> \in Seq(S) /\ Len(<<s[x]>>) = 1 /\ <<s[x]>>[1] = s[x]
    BY <1>5
<1>7. \A i \in 1 .. 1 : i = 1
    OBVIOUS
<1> QED BY <1>2, <1>4, <1>6, <1>7, SeqEqual

(* What has been joined after i parts is the path up to the end of part i. *)
LEMMA JoinedIs ==
    ASSUME NEW s \in Strings, Len(s) >= 3, NEW k, NEW at, ChainFrom(s, 4, Parts(s), k, at),
           NEW e, EndsAt(s, at, k, e),
           \A i \in 0 .. k : e[i] \in 3 .. (Len(s) + 1),
           \A i \in 1 .. k : at[i] = e[i - 1] + 1 /\ e[i - 1] <= Len(s)
    PROVE  LET f == CHOOSE g : g = JoinStep(Parts(s), g)
           IN  f[Len(Parts(s))] = SubSeq(Slashed(s), 4, e[k])
<1> DEFINE u == Slashed(s)
           p == Parts(s)
           h == [i \in 0 .. k |-> SubSeq(u, 4, e[i])]
           f == CHOOSE g : g = JoinStep(p, g)
<1>1. /\ k \in Nat /\ at \in [1 .. (k + 1) -> 1 .. (Len(s) + 1)]
      /\ p = [i \in 1 .. k |-> PartAt(s, at[i])]
    BY DEF ChainFrom
<1>2. Len(p) = k
    BY <1>1
<1>3. /\ u \in Seq(Bytes) /\ Len(u) = Len(s) + 1 /\ Len(s) \in Nat
      /\ \A i \in 1 .. Len(s) : u[i] = s[i]
      /\ u[Len(s) + 1] = Slash
    BY SlashedIs
<1> HIDE DEF u, p
<1>4. SubSeq(u, 4, e[0]) = <<>>
    <2>1. e[0] = 3
        BY DEF EndsAt
    <2> QED BY <2>1, SubSeqEmpty
<1>5. ASSUME NEW i \in 1 .. k
      PROVE  SubSeq(u, 4, e[i - 1]) \o p[i] \o <<Slash>> = SubSeq(u, 4, e[i])
    <2>1. /\ e[i] \in Nat /\ PartEnds(s, at[i], e[i]) /\ at[i] < e[i]
          /\ at[i] = e[i - 1] + 1 /\ e[i - 1] <= Len(s)
        BY DEF EndsAt
    <2>2. e[i] \in 3 .. (Len(s) + 1) /\ e[i - 1] \in 3 .. Len(s) /\ at[i] \in 4 .. (Len(s) + 1)
        <3>1. i \in 0 .. k /\ i - 1 \in 0 .. k
            BY <1>1
        <3>2. e[i] \in 3 .. (Len(s) + 1) /\ e[i - 1] \in 3 .. (Len(s) + 1)
            BY <3>1
        <3> QED BY <1>3, <2>1, <3>2
    <2>3. p[i] = SubSeq(s, at[i], e[i] - 1)
        BY <1>1, <2>1 DEF PartEnds
    <2>4. p[i] = SubSeq(u, at[i], e[i] - 1)
        <3>1. at[i] \in 1 .. (Len(s) + 1) /\ e[i] - 1 \in (at[i] - 1) .. Len(s)
            BY <1>3, <2>1, <2>2
        <3>2. SubSeq(Slashed(s), at[i], e[i] - 1) = SubSeq(s, at[i], e[i] - 1)
            BY <3>1, PieceOf
        <3> QED BY <2>3, <3>2 DEF u
    <2>5. SubSeq(u, 4, e[i - 1]) \o SubSeq(u, e[i - 1] + 1, e[i] - 1) = SubSeq(u, 4, e[i] - 1)
        <3>1. /\ 4 \in 1 .. (Len(u) + 1) /\ e[i - 1] \in (4 - 1) .. Len(u)
              /\ e[i] - 1 \in e[i - 1] .. Len(u)
            BY <1>3, <2>1, <2>2
        <3> QED BY <1>3, <3>1, ConcatAdjacentSubSeq
    <2>6. SubSeq(u, e[i], e[i]) = <<Slash>>
        <3>1. e[i] \in 1 .. Len(u)
            BY <1>3, <2>2
        <3>2. SubSeq(u, e[i], e[i]) = <<u[e[i]]>>
            BY <1>3, <3>1, OnePiece
        <3>3. u[e[i]] = Slash
            <4>1. CASE e[i] = Len(s) + 1
                BY <1>3, <4>1
            <4>2. CASE e[i] # Len(s) + 1
                <5>1. s[e[i]] = Slash
                    BY <2>1, <4>2 DEF PartEnds
                <5>2. e[i] \in 1 .. Len(s)
                    BY <1>3, <2>2, <4>2
                <5> QED BY <1>3, <5>1, <5>2
            <4> QED BY <4>1, <4>2
        <3> QED BY <3>2, <3>3
    <2>7. SubSeq(u, 4, e[i] - 1) \o SubSeq(u, (e[i] - 1) + 1, e[i]) = SubSeq(u, 4, e[i])
        <3>1. /\ 4 \in 1 .. (Len(u) + 1) /\ e[i] - 1 \in (4 - 1) .. Len(u)
              /\ e[i] \in (e[i] - 1) .. Len(u)
            BY <1>3, <2>1, <2>2
        <3> QED BY <1>3, <3>1, ConcatAdjacentSubSeq
    <2>8. (e[i] - 1) + 1 = e[i]
        BY <2>1
    <2> QED BY <2>1, <2>4, <2>5, <2>6, <2>7, <2>8
<1>6. \E g : g = JoinStep(p, g)
    <2>1. \A i \in 0 .. k : h[i] = IF i = 0 THEN <<>> ELSE h[i - 1] \o p[i] \o <<Slash>>
        <3> SUFFICES ASSUME NEW i \in 0 .. k
                     PROVE  h[i] = IF i = 0 THEN <<>> ELSE h[i - 1] \o p[i] \o <<Slash>>
            OBVIOUS
        <3>1. CASE i = 0
            BY <1>1, <1>4, <3>1
        <3>2. CASE i # 0
            <4>1. i \in 1 .. k /\ i - 1 \in 0 .. k
                BY <1>1, <3>2
            <4>2. h[i - 1] = SubSeq(u, 4, e[i - 1]) /\ h[i] = SubSeq(u, 4, e[i])
                BY <4>1
            <4> HIDE DEF h
            <4> QED BY <1>5, <3>2, <4>1, <4>2
        <3> QED BY <3>1, <3>2
    <2>2. h = [i \in 0 .. k |-> h[i]]
        OBVIOUS
    <2> HIDE DEF h
    <2>3. h = JoinStep(p, h)
        BY <1>2, <2>1, <2>2 DEF JoinStep
    <2> QED BY <2>3
<1>7. f = JoinStep(p, f)
    BY <1>6
<1> HIDE DEF f
<1>8. \A i \in 0 .. k : f[i] = IF i = 0 THEN <<>> ELSE f[i - 1] \o p[i] \o <<Slash>>
    BY <1>2, <1>7 DEF JoinStep
<1> DEFINE Bad == {i \in 0 .. k : f[i] # SubSeq(u, 4, e[i])}
<1>9. Bad = {}
    <2>1. SUFFICES ASSUME Bad # {} PROVE FALSE
        OBVIOUS
    <2>2. Bad \in SUBSET Nat
        BY <1>1
    <2>3. \E i \in Bad : \A j \in Bad : i <= j
        <3> HIDE DEF Bad
        <3> QED BY <2>1, <2>2, Least
    <2>4. PICK i \in Bad : \A j \in Bad : i <= j
        BY <2>3
    <2>5. i # 0
        <3>1. 0 \in 0 .. k
            BY <1>1
        <3> QED BY <1>4, <1>8, <3>1
    <2>6. i \in 1 .. k /\ i - 1 \in 0 .. k /\ ~(i <= i - 1)
        BY <1>1, <2>5
    <2>7. f[i - 1] = SubSeq(u, 4, e[i - 1])
        BY <2>4, <2>6
    <2>8. f[i] = f[i - 1] \o p[i] \o <<Slash>>
        BY <1>8, <2>5
    <2> QED BY <1>5, <2>6, <2>7, <2>8
<1>10. k \in 0 .. k
    BY <1>1
<1>11. f[Len(p)] = SubSeq(u, 4, e[k])
    BY <1>2, <1>9, <1>10
<1> QED BY <1>11 DEF f, p, u

(* The length of what is behind the drive.                                 *)
LEMMA WithoutDrive ==
    ASSUME NEW n \in Nat, n >= 3
    PROVE  (IF 4 <= n THEN n - 4 + 1 ELSE 0) = n - 3 /\ n - 4 + 1 = n - 3
OBVIOUS

(* The path that is opened is a string of the kernel's, and what was found *)
(* is what fopen returns for it.                                           *)
PathInv == path \in Paths /\ (Tried => found \in Opened)

(* Nothing is opened when the kernel starts.                               *)
LEMMA PathStart == Init => PathInv
BY DEF Init, PathInv, Tried

(* Only fopen changes what is found, and nothing changes what it depends   *)
(* on later.                                                               *)
LEMMA PathStep ==
    ASSUME PathInv, [Next]_vars
    PROVE  PathInv'
<1>1. ASSUME path' = path, Tried' => UNCHANGED <<image, filesystem, root_directory, found>>,
             Tried' => Tried
      PROVE  PathInv'
    <2>1. ASSUME Tried'
          PROVE  found' \in Opened'
        <3>1. image' = image /\ filesystem' = filesystem /\ root_directory' = root_directory
              /\ found' = found /\ path' = path
            BY <1>1, <2>1
        <3>2. Opened' = Opened
            BY <3>1 DEF Opened, FindItem, Matching, Searched, Unknown
        <3> QED BY <1>1, <2>1, <3>1, <3>2 DEF PathInv
    <2> QED BY <1>1, <2>1 DEF PathInv
<1>2. CASE ClearScreen
    BY <1>1, <1>2 DEF ClearScreen, Tried
<1>3. CASE EncodeGdt
    BY <1>1, <1>3 DEF EncodeGdt, Tried
<1>4. CASE RefuseGdt
    BY <1>1, <1>4 DEF RefuseGdt, Panic, Tried
<1>5. CASE InitFilesystems
    BY <1>1, <1>5 DEF InitFilesystems, Tried
<1>6. CASE InitDisk
    BY <1>1, <1>6 DEF InitDisk, Tried
<1>7. CASE OpenProgram
    <2>1. /\ found' \in Opened /\ path' = path
          /\ image' = image /\ filesystem' = filesystem /\ root_directory' = root_directory
        BY <1>7 DEF OpenProgram, mountVars
    <2>2. Opened' = Opened
        BY <2>1 DEF Opened, FindItem, Matching, Searched, Unknown
    <2> QED BY <2>1, <2>2 DEF PathInv
<1>8. CASE RunProgram
    BY <1>1, <1>8 DEF RunProgram, Tried, mountVars
<1>9. CASE LoadFails
    BY <1>1, <1>9 DEF LoadFails, Panic, Tried
<1>10. CASE ProgramPrints
    BY <1>1, <1>10 DEF ProgramPrints, Tried, mountVars, bootVars
<1>11. CASE UNCHANGED vars
    BY <1>1, <1>11 DEF vars, Tried, mountVars, bootVars
<1> QED BY <1>2, <1>3, <1>4, <1>5, <1>6, <1>7, <1>8, <1>9, <1>10, <1>11 DEF Next, KernelMain

(* pparser.c: a path is taken apart without losing or inventing anything,  *)
(* for every string of any length; only two slashes in a row cut it short. *)
THEOREM PathsAreParsed == Spec => []ParsesThePath
<1>1. PathInv => ParsesThePath
    <2> SUFFICES ASSUME path \in Paths, Accepted(path) PROVE ParsesThePath
        BY DEF PathInv, ParsesThePath
    <2> DEFINE n == Len(path)
               body == SubSeq(path, 4, n)
               parts == Parts(path)
               f == CHOOSE g : g = JoinStep(parts, g)
               all == f[Len(parts)]
    <2>1. path \in Strings /\ n \in Nat /\ n >= 3 /\ path \in Seq(Bytes)
        BY KernelAssumption DEF Strings, Accepted, ValidFormat
    <2>2. PICK k, at : ChainFrom(path, 4, parts, k, at)
        BY <2>1, PartsChain
    <2>3. PICK e : /\ EndsAt(path, at, k, e)
                   /\ \A i \in 0 .. k : e[i] \in 3 .. (n + 1)
                   /\ \A i \in 1 .. k : at[i] = e[i - 1] + 1 /\ e[i - 1] <= n
                   /\ at[k + 1] = IF e[k] = n + 1 THEN e[k] ELSE e[k] + 1
        BY <2>1, <2>2, ChainEnds
    <2>4. all = SubSeq(Slashed(path), 4, e[k])
        BY <2>1, <2>2, <2>3, JoinedIs
    <2>5. /\ k \in Nat /\ at \in [1 .. (k + 1) -> 1 .. (n + 1)]
          /\ parts = [i \in 1 .. k |-> PartAt(path, at[i])]
          /\ \A i \in 1 .. k : PartAt(path, at[i]) # <<>>
          /\ PartAt(path, at[k + 1]) = <<>>
        BY <2>2 DEF ChainFrom
    <2>6. SUFFICES /\ \A i \in DOMAIN parts :
                        parts[i] # <<>> /\ \A j \in DOMAIN parts[i] : parts[i][j] # Slash
                   /\ \/ all = body \o <<Slash>>
                      \/ all = body
                      \/ Len(all) < Len(body) /\ SubSeq(body, 1, Len(all)) = all
                            /\ body[Len(all) + 1] = Slash
        BY DEF ParsesThePath, JoinStep
    <2>7. ASSUME NEW i \in DOMAIN parts
          PROVE  parts[i] # <<>> /\ \A j \in DOMAIN parts[i] : parts[i][j] # Slash
        <3>1. i \in 1 .. k /\ parts[i] = PartAt(path, at[i]) /\ parts[i] # <<>>
            BY <2>5
        <3>2. PartEnds(path, at[i], e[i]) /\ e[i] \in Nat /\ at[i] < e[i]
            BY <2>3, <3>1 DEF EndsAt
        <3>3. /\ parts[i] = SubSeq(path, at[i], e[i] - 1) /\ Len(parts[i]) = e[i] - at[i]
              /\ \A j \in at[i] .. (e[i] - 1) : path[j] # Slash
              /\ e[i] \in at[i] .. (n + 1)
            BY <3>1, <3>2 DEF PartEnds
        <3>4. at[i] \in 1 .. (n + 1)
            <4>1. i \in 1 .. (k + 1)
                BY <2>5, <3>1
            <4> QED BY <2>5, <4>1
        <3>5. \A j \in at[i] .. (e[i] - 1) : path[j] \in Bytes
            BY <2>1, <3>3, <3>4
        <3>6. at[i] \in Int /\ e[i] - 1 \in Int /\ (e[i] - 1) - at[i] + 1 = e[i] - at[i]
            BY <3>2, <3>4
        <3>7. /\ SubSeq(path, at[i], e[i] - 1) \in Seq(Bytes)
              /\ \A j \in 1 .. ((e[i] - 1) - at[i] + 1) :
                    SubSeq(path, at[i], e[i] - 1)[j] = path[at[i] + j - 1]
            BY <3>5, <3>6, SubSeqProperties
        <3>8. DOMAIN parts[i] = 1 .. (e[i] - at[i])
            BY <3>3, <3>7
        <3>9. \A j \in 1 .. (e[i] - at[i]) : at[i] + j - 1 \in at[i] .. (e[i] - 1)
            BY <3>6
        <3> QED BY <3>1, <3>3, <3>6, <3>7, <3>8, <3>9
    <2> HIDE DEF f
    <2>8. e[k] \in 3 .. (n + 1)
        <3>1. k \in 0 .. k
            BY <2>5
        <3> QED BY <2>3, <3>1
    <2>9. body \in Seq(Bytes) /\ Len(body) = n - 3
          /\ \A i \in 1 .. (n - 3) : body[i] = path[3 + i]
        <3>1. \A i \in 4 .. n : path[i] \in Bytes
            BY <2>1
        <3>2. 4 \in Int /\ n \in Int
            BY <2>1
        <3>3. /\ SubSeq(path, 4, n) \in Seq(Bytes)
              /\ Len(SubSeq(path, 4, n)) = (IF 4 <= n THEN n - 4 + 1 ELSE 0)
              /\ \A i \in 1 .. (n - 4 + 1) : SubSeq(path, 4, n)[i] = path[4 + i - 1]
            BY <3>1, <3>2, SubSeqProperties
        <3>4. (IF 4 <= n THEN n - 4 + 1 ELSE 0) = n - 3 /\ n - 4 + 1 = n - 3
            BY <2>1, WithoutDrive
        <3>5. \A i \in 1 .. (n - 3) : 4 + i - 1 = 3 + i
            BY <2>1
        <3> QED BY <3>3, <3>4, <3>5
    <2>10. CASE e[k] = n + 1
        <3>1. /\ 4 \in 1 .. (Len(Slashed(path)) + 1) /\ n \in (4 - 1) .. Len(Slashed(path))
              /\ n + 1 \in n .. Len(Slashed(path)) /\ n + 1 \in 1 .. Len(Slashed(path))
              /\ Slashed(path) \in Seq(Bytes) /\ Slashed(path)[n + 1] = Slash
            BY <2>1, SlashedIs
        <3>2. SubSeq(Slashed(path), 4, n) \o SubSeq(Slashed(path), n + 1, n + 1)
                = SubSeq(Slashed(path), 4, n + 1)
            BY <3>1, ConcatAdjacentSubSeq
        <3>3. SubSeq(Slashed(path), n + 1, n + 1) = <<Slash>>
            <4>1. SubSeq(Slashed(path), n + 1, n + 1) = <<Slashed(path)[n + 1]>>
                BY <3>1, OnePiece
            <4> QED BY <3>1, <4>1
        <3>4. SubSeq(Slashed(path), 4, n) = body
            <4>1. 4 \in 1 .. (n + 1) /\ n \in (4 - 1) .. n
                BY <2>1
            <4> QED BY <2>1, <4>1, PieceOf
        <3> QED BY <2>4, <2>7, <2>10, <3>2, <3>3, <3>4
    <2>11. CASE e[k] # n + 1
        <3>1. e[k] \in 3 .. n /\ at[k + 1] = e[k] + 1 /\ k + 1 \in 1 .. (k + 1)
            BY <2>1, <2>3, <2>5, <2>8, <2>11
        <3>2. all = SubSeq(path, 4, e[k])
            <4>1. 4 \in 1 .. (n + 1) /\ e[k] \in (4 - 1) .. n
                BY <2>1, <3>1
            <4>2. SubSeq(Slashed(path), 4, e[k]) = SubSeq(path, 4, e[k])
                BY <2>1, <4>1, PieceOf
            <4> QED BY <2>4, <4>2
        <3>3. CASE e[k] = n
            BY <2>7, <3>2, <3>3
        <3>4. CASE e[k] # n
            <4>0. e[k] + 1 \in 1 .. n /\ e[k] - 3 \in Nat /\ e[k] - 3 < n - 3
                BY <2>1, <3>1, <3>4
            <4>1. path[e[k] + 1] = Slash
                <5>1. PICK x \in at[k + 1] .. (n + 1) : PartEnds(path, at[k + 1], x)
                    <6>1. at[k + 1] \in 1 .. (n + 1)
                        BY <2>5, <3>1
                    <6> QED BY <2>1, <6>1, PartIs
                <5>2. x = at[k + 1]
                    BY <2>5, <5>1 DEF PartEnds
                <5>3. x = n + 1 \/ path[x] = Slash
                    BY <5>1 DEF PartEnds
                <5> QED BY <3>1, <4>0, <5>2, <5>3, <2>1
            <4>2. /\ all \in Seq(Bytes) /\ Len(all) = e[k] - 3
                  /\ \A i \in 1 .. (e[k] - 3) : all[i] = path[3 + i]
                <5>1. \A i \in 4 .. e[k] : path[i] \in Bytes
                    BY <2>1, <3>1
                <5>2. 4 \in Int /\ e[k] \in Int
                    BY <3>1
                <5>3. /\ SubSeq(path, 4, e[k]) \in Seq(Bytes)
                      /\ Len(SubSeq(path, 4, e[k])) = (IF 4 <= e[k] THEN e[k] - 4 + 1 ELSE 0)
                      /\ \A i \in 1 .. (e[k] - 4 + 1) : SubSeq(path, 4, e[k])[i] = path[4 + i - 1]
                    BY <5>1, <5>2, SubSeqProperties
                <5>4. (IF 4 <= e[k] THEN e[k] - 4 + 1 ELSE 0) = e[k] - 3 /\ e[k] - 4 + 1 = e[k] - 3
                    BY <3>1
                <5>5. \A i \in 1 .. (e[k] - 3) : 4 + i - 1 = 3 + i
                    BY <4>0
                <5> QED BY <3>2, <5>3, <5>4, <5>5
            <4> HIDE DEF all, body
            <4> DEFINE l == e[k] - 3
            <4>3. l \in Nat /\ l < n - 3 /\ 3 + (l + 1) = e[k] + 1 /\ l + 1 \in 1 .. (n - 3)
                BY <2>1, <3>1, <4>0
            <4>4. body[l + 1] = Slash
                BY <2>9, <4>1, <4>3
            <4> HIDE DEF l
            <4>5. SubSeq(body, 1, l) = all
                <5>1. \A i \in 1 .. l : i \in 1 .. (n - 3) /\ body[i] \in Bytes
                    BY <2>1, <2>9, <4>3
                <5>2. 1 \in Int /\ l \in Int
                    BY <4>3
                <5>3. /\ SubSeq(body, 1, l) \in Seq(Bytes)
                      /\ Len(SubSeq(body, 1, l)) = (IF 1 <= l THEN l - 1 + 1 ELSE 0)
                      /\ \A i \in 1 .. (l - 1 + 1) : SubSeq(body, 1, l)[i] = body[1 + i - 1]
                    BY <5>1, <5>2, SubSeqProperties
                <5>4. (IF 1 <= l THEN l - 1 + 1 ELSE 0) = l /\ l - 1 + 1 = l
                    BY <4>3
                <5>5. \A i \in 1 .. l : 1 + i - 1 = i
                    BY <4>3
                <5>6. Len(all) = l /\ \A i \in 1 .. l : all[i] = path[3 + i]
                    BY <4>2 DEF l
                <5>7. \A i \in 1 .. l : SubSeq(body, 1, l)[i] = body[i]
                    BY <5>3, <5>4, <5>5
                <5>8. \A i \in 1 .. l : body[i] = path[3 + i]
                    BY <2>9, <5>1
                <5>9. \A i \in 1 .. l : SubSeq(body, 1, l)[i] = all[i]
                    <6> HIDE DEF n
                    <6> QED BY <5>6, <5>7, <5>8
                <5> QED BY <4>2, <5>3, <5>4, <5>6, <5>9, SeqEqual
            <4>6. Len(all) = l
                BY <4>2 DEF l
            <4> QED BY <2>7, <2>9, <4>3, <4>4, <4>5, <4>6 DEF all, body
        <3> QED BY <3>3, <3>4
    <2> QED BY <2>10, <2>11
<1> QED BY PathStart, PathStep, <1>1, PTL DEF Spec

-----------------------------------------------------------------------------
(* Opening a file by its name.                                             *)

(* Sequences are as long as their domains.                                 *)
LEMMA SameInterval ==
    ASSUME NEW a \in Nat, NEW b \in Nat, 1 .. a = 1 .. b
    PROVE  a = b
<1>1. ASSUME NEW x \in Nat, NEW y \in Nat, 1 .. x = 1 .. y PROVE x <= y
    <2>1. CASE x = 0
        BY <2>1
    <2>2. CASE x # 0
        <3>1. x \in 1 .. x
            BY <2>2
        <3>2. x \in 1 .. y
            BY <1>1, <3>1
        <3> QED BY <3>2
    <2> QED BY <2>1, <2>2
<1>2. a <= b /\ b <= a
    BY <1>1
<1> QED BY <1>2

(* istrncmp: strings that fit are the same just if they read the same in   *)
(* lower case; neither may go on where the other has ended.                *)
LEMMA SameIsLower ==
    ASSUME NEW s \in Strings, NEW t \in Strings, NEW n \in Nat, Len(t) + 1 <= n
    PROVE  Same(s, t, n) <=> Lower(s) = Lower(t)
<1>1. /\ Len(s) \in Nat /\ Len(t) \in Nat /\ DOMAIN s = 1 .. Len(s) /\ DOMAIN t = 1 .. Len(t)
      /\ \A i \in 1 .. Len(s) : s[i] \in Bytes \ {0}
      /\ \A i \in 1 .. Len(t) : t[i] \in Bytes \ {0}
    BY DEF Strings
<1>2. /\ \A i \in 1 .. Len(s) : At(s, i) = s[i]
      /\ \A i \in 1 .. Len(t) : At(t, i) = t[i]
      /\ At(s, Len(s) + 1) = 0 /\ At(t, Len(t) + 1) = 0
    BY <1>1 DEF At
<1>3. ToLower(0) = 0 /\ \A c \in Bytes \ {0} : ToLower(c) # 0
    BY DEF ToLower, Bytes
<1>4. /\ Lower(s) = [i \in 1 .. Len(s) |-> ToLower(s[i])]
      /\ Lower(t) = [i \in 1 .. Len(t) |-> ToLower(t[i])]
    BY <1>1 DEF Lower, ToLower
<1>5. ASSUME Same(s, t, n) PROVE Lower(s) = Lower(t)
    <2>1. \A i \in 1 .. n : i <= Len(s) + 1 => ToLower(At(s, i)) = ToLower(At(t, i))
        BY <1>5 DEF Same
    <2>2. Len(s) <= Len(t)
        <3>1. SUFFICES ASSUME Len(t) < Len(s) PROVE FALSE
            BY <1>1
        <3>2. /\ Len(t) + 1 \in 1 .. n /\ Len(t) + 1 <= Len(s) + 1
              /\ Len(t) + 1 \in 1 .. Len(s)
            BY <1>1, <3>1
        <3>3. ToLower(s[Len(t) + 1]) = ToLower(0)
            BY <1>2, <2>1, <3>2
        <3> QED BY <1>1, <1>3, <3>2, <3>3
    <2>3. Len(t) <= Len(s)
        <3>1. SUFFICES ASSUME Len(s) < Len(t) PROVE FALSE
            BY <1>1
        <3>2. /\ Len(s) + 1 \in 1 .. n /\ Len(s) + 1 <= Len(s) + 1
              /\ Len(s) + 1 \in 1 .. Len(t)
            BY <1>1, <3>1
        <3>3. ToLower(0) = ToLower(t[Len(s) + 1])
            BY <1>2, <2>1, <3>2
        <3> QED BY <1>1, <1>3, <3>2, <3>3
    <2>4. Len(s) = Len(t)
        <3>1. Len(s) \in Nat /\ Len(t) \in Nat
            BY <1>1
        <3> QED BY <2>2, <2>3, <3>1
    <2>5. \A i \in 1 .. Len(s) : i \in 1 .. n /\ i <= Len(s) + 1 /\ i \in 1 .. Len(t)
        BY <1>1, <2>4
    <2>6. \A i \in 1 .. Len(s) : ToLower(s[i]) = ToLower(t[i])
        BY <1>2, <2>1, <2>5
    <2> QED BY <1>4, <2>4, <2>6
<1>6. ASSUME Lower(s) = Lower(t) PROVE Same(s, t, n)
    <2>1. 1 .. Len(s) = 1 .. Len(t)
        BY <1>4, <1>6
    <2>2. Len(s) = Len(t)
        <3>1. Len(s) \in Nat /\ Len(t) \in Nat
            BY <1>1
        <3> QED BY <2>1, <3>1, SameInterval
    <2>3. \A i \in 1 .. Len(s) : ToLower(s[i]) = ToLower(t[i])
        BY <1>4, <1>6, <2>2
    <2>4. ASSUME NEW i \in 1 .. n, i <= Len(s) + 1
          PROVE  ToLower(At(s, i)) = ToLower(At(t, i))
        <3>1. i \in 1 .. Len(s) \/ i = Len(s) + 1
            BY <1>1, <2>4
        <3>2. CASE i = Len(s) + 1
            BY <1>2, <2>2, <3>2
        <3>3. CASE i \in 1 .. Len(s)
            BY <1>2, <2>2, <2>3, <3>3
        <3> QED BY <3>1, <3>2, <3>3
    <2> QED BY <2>4 DEF Same
<1> QED BY <1>5, <1>6

(* A name that can be read is a string: no 0 ends it early.                *)
LEMMA PlainIsString ==
    ASSUME NEW item \in DirectoryItems, Plain(item)
    PROVE  DosName(item) \in Strings
<1> DEFINE f == item.filename
           e == item.ext
           D == DosName(item)
<1>1. /\ NameLen \in Nat /\ ExtLen \in Nat
      /\ f \in [1 .. NameLen -> Bytes] /\ e \in [1 .. ExtLen -> Bytes]
    BY NamesAssumption DEF DirectoryItems
<1>2. PICK p \in 0 .. NameLen : Trimmed(f, NameLen, p)
    BY <1>1, UnpaddedIs
<1>3. PICK q \in 0 .. ExtLen : Trimmed(e, ExtLen, q)
    BY <1>1, UnpaddedIs
<1>4. /\ D \in Seq(Bytes)
      /\ Len(D) = IF q = 0 THEN p ELSE p + 1 + q
      /\ \A i \in 1 .. p : D[i] = f[i]
      /\ q # 0 => /\ D[p + 1] = Dot
                  /\ \A j \in 1 .. q : D[p + 1 + j] = e[j]
    BY <1>2, <1>3, DosNameIs
<1>5. /\ \A i \in 1 .. p : f[i] # 0
      /\ \A i \in 1 .. q : e[i] # 0
    <2>1. Len(Unpadded(f)) = p /\ Len(Unpadded(e)) = q
        BY <1>2, <1>3 DEF Trimmed
    <2> QED BY <2>1 DEF Plain, NoGap, EndMark
<1>6. Len(D) \in Nat /\ p \in Nat /\ q \in Nat
    BY <1>1, <1>4
<1> HIDE DEF f, e, D
<1>7. ASSUME NEW i \in 1 .. Len(D) PROVE D[i] # 0
    <2>1. \/ i \in 1 .. p
          \/ q # 0 /\ i = p + 1
          \/ q # 0 /\ i - (p + 1) \in 1 .. q /\ i = p + 1 + (i - (p + 1))
        BY <1>4, <1>6
    <2>2. CASE i \in 1 .. p
        BY <1>4, <1>5, <2>2
    <2>3. CASE q # 0 /\ i = p + 1
        BY <1>4, <2>3 DEF Dot
    <2>4. CASE q # 0 /\ i - (p + 1) \in 1 .. q /\ i = p + 1 + (i - (p + 1))
        <3>1. PICK j \in 1 .. q : i = p + 1 + j
            BY <2>4
        <3> QED BY <1>4, <1>5, <2>4, <3>1
    <2> QED BY <2>1, <2>2, <2>3, <2>4
<1>8. \A i \in 1 .. Len(D) : D[i] \in Bytes \ {0}
    BY <1>4, <1>7
<1>9. D = [i \in 1 .. Len(D) |-> D[i]]
    BY <1>4
<1>10. D \in Seq(Bytes \ {0})
    BY <1>6, <1>8, <1>9
<1> QED BY <1>10 DEF Strings, D

(* Where nothing is left, or a slash comes at once, there is no part.      *)
LEMMA NoPart ==
    ASSUME NEW s \in Strings, NEW from \in 1 .. (Len(s) + 1)
    PROVE  PartAt(s, from) = <<>> <=> from = Len(s) + 1 \/ s[from] = Slash
<1>1. PICK e \in from .. (Len(s) + 1) : PartEnds(s, from, e)
    BY PartIs
<1>2. Len(s) \in Nat
    BY DEF Strings
<1>3. /\ PartAt(s, from) = <<>> <=> e = from
      /\ \A i \in from .. (e - 1) : s[i] # Slash
      /\ e = Len(s) + 1 \/ s[e] = Slash
    BY <1>1 DEF PartEnds
<1>4. e # from => from \in from .. (e - 1) /\ from # Len(s) + 1
    BY <1>1, <1>2
<1> QED BY <1>3, <1>4

(* A path has one part if the first is one and the second is none.         *)
LEMMA OnePart ==
    ASSUME NEW s \in Strings, Len(s) >= 3, NEW e, PartEnds(s, 4, e)
    PROVE  /\ Len(Parts(s)) = 1 <=> e # 4 /\ (e >= Len(s) \/ s[e + 1] = Slash)
           /\ Len(Parts(s)) = 1 => Parts(s)[1] = PartAt(s, 4)
<1>1. PICK k, at : ChainFrom(s, 4, Parts(s), k, at)
    BY PartsChain
<1>2. /\ k \in Nat /\ at \in [1 .. (k + 1) -> 1 .. (Len(s) + 1)] /\ at[1] = 4
      /\ Parts(s) = [i \in 1 .. k |-> PartAt(s, at[i])]
      /\ \A i \in 1 .. k : PartAt(s, at[i]) # <<>> /\ at[i + 1] = AfterPart(s, at[i])
      /\ PartAt(s, at[k + 1]) = <<>>
    BY <1>1 DEF ChainFrom
<1>3. Len(Parts(s)) = k /\ (k = 1 => Parts(s)[1] = PartAt(s, 4))
    BY <1>2
<1>4. /\ e \in 4 .. (Len(s) + 1)
      /\ PartAt(s, 4) = <<>> <=> e = 4
      /\ AfterPart(s, 4) = IF e = Len(s) + 1 THEN e ELSE e + 1
    BY DEF PartEnds
<1>5. Len(s) \in Nat
    BY DEF Strings
<1>6. CASE e = 4
    <2>1. ~(1 \in 1 .. k)
        BY <1>2, <1>4, <1>6
    <2> QED BY <1>2, <1>3, <1>6, <2>1
<1>7. CASE e # 4
    <2>1. k # 0
        BY <1>2, <1>4, <1>7
    <2>2. 1 \in 1 .. k /\ 2 \in 1 .. (k + 1) /\ 1 + 1 = 2
        BY <1>2, <2>1
    <2>3. at[2] = IF e = Len(s) + 1 THEN e ELSE e + 1
        BY <1>2, <1>4, <2>2
    <2>4. k = 1 <=> PartAt(s, at[2]) = <<>>
        <3>1. k # 1 => 2 \in 1 .. k
            BY <1>2, <2>1
        <3> QED BY <1>2, <2>2, <3>1
    <2>5. at[2] \in 1 .. (Len(s) + 1)
        BY <1>2, <2>2
    <2>6. PartAt(s, at[2]) = <<>> <=> at[2] = Len(s) + 1 \/ s[at[2]] = Slash
        BY <2>5, NoPart
    <2>7. at[2] = Len(s) + 1 <=> e >= Len(s)
        BY <1>4, <1>5, <2>3
    <2>8. e < Len(s) => at[2] = e + 1
        BY <1>4, <1>5, <2>3
    <2>9. e < Len(s) \/ e >= Len(s)
        BY <1>4, <1>5
    <2> QED BY <1>3, <1>7, <2>4, <2>6, <2>7, <2>8, <2>9
<1> QED BY <1>6, <1>7

(* The name a path asks for is its first part.                             *)
LEMMA PathNameIs ==
    ASSUME path \in Strings, Len(path) >= 3, NEW e, PartEnds(path, 4, e)
    PROVE  PathName = PartAt(path, 4) /\ Len(PathName) = e - 4
<1> DEFINE n == Len(path)
           body == SubSeq(path, 4, n)
           ends == {i \in DOMAIN body : body[i] = Slash} \cup {Len(body) + 1}
           end == CHOOSE i \in ends : \A j \in ends : i <= j
<1>1. n \in Nat /\ n >= 3 /\ \A i \in 1 .. n : path[i] \in Bytes
    BY DEF Strings
<1>2. /\ e \in 4 .. (n + 1)
      /\ PartAt(path, 4) = SubSeq(path, 4, e - 1) /\ Len(PartAt(path, 4)) = e - 4
      /\ \A i \in 4 .. (e - 1) : path[i] # Slash
      /\ e = n + 1 \/ path[e] = Slash
    BY DEF PartEnds
<1> HIDE DEF n
<1>3. /\ body \in Seq(Bytes) /\ Len(body) = n - 3
      /\ \A i \in 1 .. (n - 3) : body[i] = path[3 + i]
    <2>1. \A i \in 4 .. n : path[i] \in Bytes
        BY <1>1
    <2>2. 4 \in Int /\ n \in Int
        BY <1>1
    <2>3. /\ SubSeq(path, 4, n) \in Seq(Bytes)
          /\ Len(SubSeq(path, 4, n)) = (IF 4 <= n THEN n - 4 + 1 ELSE 0)
          /\ \A i \in 1 .. (n - 4 + 1) : SubSeq(path, 4, n)[i] = path[4 + i - 1]
        BY <2>1, <2>2, SubSeqProperties
    <2>4. (IF 4 <= n THEN n - 4 + 1 ELSE 0) = n - 3 /\ n - 4 + 1 = n - 3
        BY <1>1, WithoutDrive
    <2>5. \A i \in 1 .. (n - 3) : 4 + i - 1 = 3 + i
        BY <1>1
    <2> QED BY <2>3, <2>4, <2>5
<1>4. DOMAIN body = 1 .. (n - 3)
    BY <1>3
<1> HIDE DEF body
<1>5. e - 3 \in ends
    <2>1. CASE e = n + 1
        <3>1. e - 3 = (n - 3) + 1
            BY <1>1, <2>1
        <3> QED BY <1>3, <3>1
    <2>2. CASE e # n + 1
        <3>1. e - 3 \in 1 .. (n - 3) /\ 3 + (e - 3) = e
            BY <1>1, <1>2, <2>2
        <3> QED BY <1>2, <1>3, <1>4, <2>2, <3>1
    <2> QED BY <2>1, <2>2
<1>6. \A j \in ends : j \in Int /\ e - 3 <= j
    <2> SUFFICES ASSUME NEW j \in ends PROVE j \in Int /\ e - 3 <= j
        OBVIOUS
    <2>1. CASE j = (n - 3) + 1
        BY <1>1, <1>2, <2>1
    <2>2. CASE j # (n - 3) + 1
        <3>1. j \in 1 .. (n - 3) /\ body[j] = Slash
            BY <1>3, <1>4, <2>2
        <3>2. path[3 + j] = Slash
            BY <1>3, <3>1
        <3>3. 3 + j \notin 4 .. (e - 1)
            BY <1>2, <3>2
        <3> QED BY <1>1, <1>2, <3>1, <3>3
    <2> QED BY <2>1, <2>2
<1>7. e - 3 \in Int
    BY <1>2
<1> HIDE DEF ends
<1>8. end \in ends /\ \A j \in ends : end <= j
    BY <1>5, <1>6
<1>9. end = e - 3
    <2>1. end \in Int /\ e - 3 <= end /\ end <= e - 3
        BY <1>5, <1>6, <1>8
    <2> HIDE DEF end
    <2> QED BY <1>7, <2>1
<1>10. PathName = SubSeq(body, 1, (e - 3) - 1)
    BY <1>9 DEF PathName, body, ends, n
<1>11. SubSeq(SubSeq(path, 4, n), 1, e - 4) = SubSeq(path, 4, e - 1)
    <2>1. path \in Seq(Bytes) /\ Len(path) = n
        BY DEF n, Strings
    <2>2. 4 \in 1 .. (n + 1) /\ n \in (4 - 1) .. n
        BY <1>1
    <2>3. 1 \in 1 .. (n - 4 + 2) /\ e - 4 \in (1 - 1) .. (n - 4 + 1)
        BY <1>1, <1>2
    <2>4. 4 + 1 - 1 = 4 /\ 4 + (e - 4) - 1 = e - 1
        BY <1>2
    <2>5. SubSeq(SubSeq(path, 4, n), 1, e - 4) = SubSeq(path, 4 + 1 - 1, 4 + (e - 4) - 1)
        BY <2>1, <2>2, <2>3
    <2> QED BY <2>4, <2>5
<1>12. (e - 3) - 1 = e - 4
    BY <1>2
<1> QED BY <1>2, <1>10, <1>11, <1>12 DEF body

(* OneName says of the characters what the code says of the parts.         *)
LEMMA OneNameIs ==
    ASSUME path \in Strings, MaxPath \in Nat
    PROVE  /\ OneName <=> Accepted(path) /\ Drive(path) = 0 /\ Len(Parts(path)) = 1
           /\ OneName => Parts(path)[1] = PathName /\ PathName \in Strings
                            /\ Len(PathName) + 1 <= MaxPath
<1> DEFINE n == Len(path)
           rest == SubSeq(path, 4 + Len(PathName), n)
<1>1. /\ n \in Nat /\ path \in Seq(Bytes \ {0})
      /\ \A i \in 1 .. n : path[i] \in Bytes \ {0}
    BY DEF Strings
<1>2. CASE n < 3
    BY <1>1, <1>2 DEF OneName, Accepted, ValidFormat
<1>3. CASE ~(n < 3)
    <2>1. n >= 3
        BY <1>1, <1>3
    <2>2. PICK e \in 4 .. (n + 1) : PartEnds(path, 4, e)
        <3>1. 4 \in 1 .. (n + 1)
            BY <1>1, <2>1
        <3> QED BY <3>1, PartIs
    <2>3. PathName = PartAt(path, 4) /\ Len(PathName) = e - 4
        BY <2>1, <2>2, PathNameIs
    <2>4. /\ Len(Parts(path)) = 1 <=> e # 4 /\ (e >= n \/ path[e + 1] = Slash)
          /\ Len(Parts(path)) = 1 => Parts(path)[1] = PathName
        BY <2>1, <2>2, <2>3, OnePart
    <2>5. PathName = <<>> <=> e = 4
        BY <2>2, <2>3 DEF PartEnds
    <2>6. Len(rest) <= 1 \/ rest[2] = Slash <=> e >= n \/ path[e + 1] = Slash
        <3>1. 4 + Len(PathName) = e /\ e \in Int
            BY <2>2, <2>3
        <3>2. rest = SubSeq(path, e, n)
            BY <3>1
        <3> HIDE DEF n, rest
        <3>3. \A i \in e .. n : path[i] \in Bytes
            BY <1>1, <2>2
        <3>4. /\ Len(SubSeq(path, e, n)) = (IF e <= n THEN n - e + 1 ELSE 0)
              /\ \A i \in 1 .. (n - e + 1) : SubSeq(path, e, n)[i] = path[e + i - 1]
            BY <1>1, <3>1, <3>3, SubSeqProperties
        <3>5. CASE e >= n
            <4>1. (IF e <= n THEN n - e + 1 ELSE 0) <= 1
                BY <1>1, <3>1, <3>5
            <4> QED BY <3>2, <3>4, <3>5, <4>1
        <3>6. CASE ~(e >= n)
            <4>1. (IF e <= n THEN n - e + 1 ELSE 0) > 1 /\ 2 \in 1 .. (n - e + 1)
                  /\ e + 2 - 1 = e + 1
                BY <1>1, <3>1, <3>6
            <4>2. rest[2] = path[e + 1] /\ Len(rest) > 1
                BY <3>2, <3>4, <4>1
            <4>3. Len(rest) \in Int
                BY <1>1, <3>1, <3>2, <3>4
            <4> QED BY <3>6, <4>2, <4>3
        <3> QED BY <3>5, <3>6
    <2>7. SubSeq(path, 1, 3) = <<48, Colon, Slash>>
            <=> path[1] = 48 /\ path[2] = Colon /\ path[3] = Slash
        <3>1. \A i \in 1 .. 3 : path[i] \in Bytes /\ i \in Int
            BY <1>1, <2>1
        <3>2. /\ SubSeq(path, 1, 3) \in Seq(Bytes)
              /\ Len(SubSeq(path, 1, 3)) = (IF 1 <= 3 THEN 3 - 1 + 1 ELSE 0)
              /\ \A i \in 1 .. (3 - 1 + 1) : SubSeq(path, 1, 3)[i] = path[1 + i - 1]
            BY <3>1, SubSeqProperties
        <3>3. /\ Len(SubSeq(path, 1, 3)) = 3
              /\ SubSeq(path, 1, 3)[1] = path[1] /\ SubSeq(path, 1, 3)[2] = path[2]
              /\ SubSeq(path, 1, 3)[3] = path[3]
            BY <3>2
        <3>4. <<48, Colon, Slash>> \in Seq(Bytes) /\ Len(<<48, Colon, Slash>>) = 3
            BY DEF Colon, Slash, Bytes
        <3>5. \A i \in 1 .. 3 : i = 1 \/ i = 2 \/ i = 3
            OBVIOUS
        <3>6. ASSUME path[1] = 48, path[2] = Colon, path[3] = Slash
              PROVE  SubSeq(path, 1, 3) = <<48, Colon, Slash>>
            <4>1. \A i \in 1 .. 3 : SubSeq(path, 1, 3)[i] = <<48, Colon, Slash>>[i]
                BY <3>3, <3>5, <3>6
            <4> QED BY <3>2, <3>3, <3>4, <4>1, SeqEqual
        <3>7. ASSUME SubSeq(path, 1, 3) = <<48, Colon, Slash>>
              PROVE  path[1] = 48 /\ path[2] = Colon /\ path[3] = Slash
            <4>1. /\ <<48, Colon, Slash>>[1] = 48 /\ <<48, Colon, Slash>>[2] = Colon
                  /\ <<48, Colon, Slash>>[3] = Slash
                OBVIOUS
            <4> QED BY <3>3, <3>7, <4>1
        <3> QED BY <3>6, <3>7
    <2>8. Accepted(path) /\ Drive(path) = 0
            <=> n <= MaxPath /\ path[1] = 48 /\ path[2] = Colon /\ path[3] = Slash
        <3>0. 1 \in 1 .. n /\ Bytes \subseteq Int
            <4> HIDE DEF n
            <4> QED BY <1>1, <2>1 DEF Bytes
        <3>1. path[1] \in Int
            BY <1>1, <3>0
        <3>2. IsDigit(path[1]) /\ Drive(path) = 0 <=> path[1] = 48
            BY <3>1 DEF IsDigit, Drive, ToNumericDigit
        <3> QED BY <2>1, <3>2 DEF Accepted, ValidFormat
    <2>9. OneName <=> /\ n \in 3 .. MaxPath /\ SubSeq(path, 1, 3) = <<48, Colon, Slash>>
                      /\ PathName # <<>>
                      /\ Len(rest) <= 1 \/ rest[2] = Slash
        BY DEF OneName
    <2>10. n \in 3 .. MaxPath <=> n <= MaxPath
        BY <1>1, <2>1
    <2>11. OneName <=> Accepted(path) /\ Drive(path) = 0 /\ Len(Parts(path)) = 1
        <3> HIDE DEF n, rest
        <3> QED BY <2>4, <2>5, <2>6, <2>7, <2>8, <2>9, <2>10
    <2>12. PathName \in Strings
        <3>1. \A i \in 4 .. (e - 1) : path[i] \in Bytes \ {0}
            BY <1>1, <2>2
        <3>2. 4 \in Int /\ e - 1 \in Int
            BY <2>2
        <3>3. SubSeq(path, 4, e - 1) \in Seq(Bytes \ {0})
            BY <3>1, <3>2, SubSeqProperties
        <3>4. PathName = SubSeq(path, 4, e - 1)
            BY <2>2, <2>3 DEF PartEnds
        <3> QED BY <3>3, <3>4 DEF Strings
    <2>13. OneName => Len(PathName) + 1 <= MaxPath
        <3> HIDE DEF n
        <3>1. ASSUME n <= MaxPath PROVE (e - 4) + 1 <= MaxPath
            BY <1>1, <2>2, <3>1
        <3> QED BY <2>3, <2>9, <2>10, <3>1
    <2> QED BY <2>4, <2>11, <2>12, <2>13
<1> QED BY <1>2, <1>3

(* On a regular disk the search looks at the items that are reached, and   *)
(* takes those of the name.                                                *)
LEMMA SearchFinds ==
    ASSUME MountInv, Mounted, Regular, NEW name \in Strings, Len(name) + 1 <= MaxPath
    PROVE  /\ filesystem = "FAT16"
           /\ Matching(name) = NamedSlots(name)
           /\ ~(root_directory.total > Len(root_directory.item))
<1>1. image \in Images /\ GoodDisk /\ HasEnd /\ MaxPath \in Nat
    BY NamesAssumption DEF MountInv, Regular
<1>2. filesystem = "FAT16" /\ root_directory = RootDirectory
    BY <1>1 DEF MountInv, GoodDisk
<1> DEFINE E == image.header.root_dir_entries
           T == Cardinality(NamesInUse)
<1>3. PICK n \in 0 .. E :
         /\ n <= Len(image.directory)
         /\ Slots = 1 .. n
         /\ TotalItems(RootSector) = T
         /\ NamesInUse \subseteq 1 .. n
         /\ \A i \in 1 .. n : RootDirectory.item[i] = image.directory[i]
    BY <1>1, GoodDirectory
<1>4. E \in Nat /\ image.directory \in Seq(DirectoryItems) /\ n \in Nat
    BY <1>1, DiskIs
<1>5. T \in Nat /\ T <= n
    <2>0. n \in Nat /\ 1 \in Int
        BY <1>4
    <2>1. IsFiniteSet(1 .. n) /\ Cardinality(1 .. n) = n
        <3>1. IsFiniteSet(1 .. n) /\ Cardinality(1 .. n) = IF 1 > n THEN 0 ELSE n - 1 + 1
            BY <2>0, FS_Interval
        <3> QED BY <2>0, <3>1
    <2>2. Cardinality(NamesInUse) <= n /\ IsFiniteSet(NamesInUse)
        BY <1>3, <2>1, FS_Subset
    <2> QED BY <2>0, <2>2, FS_CardinalityType
<1>6. Len(root_directory.item) = E /\ root_directory.total = T
    <2>1. Len(RootDirectory.item) = E
        BY <1>1, RootDirectoryIs
    <2>2. RootDirectory.total = TotalItems(RootSector)
        BY DEF RootDirectory
    <2> QED BY <1>2, <1>3, <2>1, <2>2
<1> HIDE DEF E, T
<1>7. T <= E /\ n <= E
    BY <1>3, <1>4, <1>5
<1>8. Searched = 1 .. T
    BY <1>4, <1>5, <1>6, <1>7 DEF Searched
<1>9. Reached = 1 .. T
    BY <1>3, <1>4, <1>5 DEF Reached, T
<1>10. ASSUME NEW i \in 1 .. T
       PROVE  Same(FullName(root_directory.item[i]), name, MaxPath)
                <=> Lower(DosName(image.directory[i])) = Lower(name)
    <2>1. i \in 1 .. n /\ i \in 1 .. Len(image.directory)
        BY <1>3, <1>4, <1>5
    <2>2. root_directory.item[i] = image.directory[i]
        BY <1>2, <1>3, <2>1
    <2>3. image.directory[i] \in DirectoryItems
        BY <1>4, <2>1
    <2>4. Plain(image.directory[i])
        BY <1>3, <2>1 DEF Regular
    <2>5. FullName(image.directory[i]) = DosName(image.directory[i])
        BY <2>3, <2>4, NameReadsBack
    <2>6. DosName(image.directory[i]) \in Strings
        BY <2>3, <2>4, PlainIsString
    <2>7. Same(DosName(image.directory[i]), name, MaxPath)
            <=> Lower(DosName(image.directory[i])) = Lower(name)
        BY <1>1, <2>6, SameIsLower
    <2> QED BY <2>2, <2>5, <2>7
<1>11. Matching(name) = NamedSlots(name)
    BY <1>8, <1>9, <1>10 DEF Matching, NamedSlots
<1>12. ~(T > E)
    BY <1>4, <1>5, <1>7
<1> QED BY <1>2, <1>6, <1>11, <1>12

(* fopen at boot: a path opens the file of its name, whatever its case, on *)
(* every disk whose names can be read, and no other path opens any.        *)
THEOREM FilesAreOpenedByName == Spec => []OpensByName
<1>1. MountInv /\ PathInv => OpensByName
    <2> SUFFICES ASSUME MountInv, PathInv, Tried, Regular
                 PROVE  IF OneName /\ NamedSlots(PathName) # {} THEN found \in NamedSlots(PathName)
                        ELSE found = 0
        BY DEF OpensByName
    <2>1. path \in Strings /\ MaxPath \in Nat /\ found \in Opened /\ Mounted
        BY KernelAssumption, NamesAssumption DEF Strings, PathInv, Tried, Mounted
    <2>2. /\ OneName <=> Accepted(path) /\ Drive(path) = 0 /\ Len(Parts(path)) = 1
          /\ OneName => Parts(path)[1] = PathName /\ PathName \in Strings
                           /\ Len(PathName) + 1 <= MaxPath
        BY <2>1, OneNameIs
    <2>3. CASE ~OneName
        BY <2>1, <2>2, <2>3 DEF Opened
    <2>4. CASE OneName
        <3>1. /\ filesystem = "FAT16"
              /\ Matching(PathName) = NamedSlots(PathName)
              /\ ~(root_directory.total > Len(root_directory.item))
            BY <2>1, <2>2, <2>4, SearchFinds
        <3>2. found \in FindItem(PathName)
            BY <2>1, <2>2, <2>4, <3>1 DEF Opened
        <3> QED BY <2>4, <3>1, <3>2 DEF FindItem
    <2> QED BY <2>3, <2>4
<1> QED BY MountStart, MountStep, PathStart, PathStep, <1>1, PTL DEF Spec
=============================================================================
