---------------------------- MODULE Fat16Proofs -----------------------------
(***************************************************************************)
(* What holds of fread for every size of sector and cluster, every file    *)
(* and every call. The inductive invariant counts: whatever the loops over *)
(* items, clusters and sectors are at, what has been copied and what is    *)
(* left of the piece add up to the items done and the part of the item     *)
(* done. For a read the code gets right (Simple), it also says where the   *)
(* streamer stands: at the byte of the file that comes next, and with no   *)
(* more wanted than its sector still holds.                                *)
(***************************************************************************)
EXTENDS Fat16, SequenceTheorems, TLAPS

Bytes == Int \cup {Stack}

Locals == [size : Nat, nmemb : Nat, i : Nat, offset : Nat, total : Nat,
           cluster : Nat, ahead : Nat, left : Nat]

(* What the loops have asked the streamer for before this piece.           *)
Before == rd.i * rd.size + (rd.size - rd.total)

Counted ==
    /\ rd \in Locals /\ out \in Seq(Bytes)
    /\ at = "idle" => rd = NoRead /\ out = <<>>
    /\ at # "idle" => rd.size > 0 /\ rd.nmemb \in Counts /\ rd.i < rd.nmemb
    /\ at \in {"read", "cluster", "sector", "piece"} =>
          rd.total \in 1 .. rd.size /\ rd.offset = pos + Before
    /\ at \in {"read", "cluster"} => rd.left = 0 /\ Len(out) = Before
    /\ at = "sector" => rd.left > 0 /\ Len(out) + rd.left = Before + PieceSize
    /\ at = "piece" => rd.left = 0 /\ Len(out) = Before + PieceSize
    /\ at = "done" => /\ rd.left = 0 /\ Len(out) <= Wanted
                      /\ res > 0 => Len(out) = Wanted

RInv == TypeOK /\ Counted

-----------------------------------------------------------------------------
(* The numbers.                                                            *)
LEMMA Sizes16 ==
    /\ SectorSize \in Nat \ {0} /\ ClusterSize \in Nat \ {0}
    /\ Sizes \subseteq Nat /\ Counts \subseteq Nat /\ Offsets \subseteq Nat
    /\ MaxPos \in Nat /\ FatStart \in Nat
<1>1. /\ SectorSize \in Nat /\ SectorSize # 0 /\ ClusterSectors \in Nat /\ ClusterSectors # 0
      /\ ReservedSectors \in Nat
  BY Fat16Assumption
<1>2. ClusterSectors * SectorSize \in Nat /\ ClusterSectors * SectorSize # 0
  BY <1>1
<1>3. ReservedSectors * SectorSize \in Nat
  BY <1>1
<1>. QED
  BY <1>1, <1>2, <1>3, Fat16Assumption DEF ClusterSize, FatStart

(* n items of s bytes: those before item i, item i, and the others.        *)
LEMMA ItemsFit ==
    ASSUME NEW i \in Nat, NEW n \in Nat, NEW s \in Nat, i < n
    PROVE  /\ i * s \in Nat /\ s * n \in Nat
           /\ (i + 1) * s = i * s + s
           /\ i * s + s <= s * n
           /\ i + 1 = n => i * s + s = s * n
<1>1. i * s \in Nat /\ s * n \in Nat
  OBVIOUS
<1>2. (i + 1) * s = i * s + s
  OBVIOUS
<1>3. PICK d \in Nat : n = (i + 1) + d
  <2>1. n - (i + 1) \in Nat /\ n = (i + 1) + (n - (i + 1))
    OBVIOUS
  <2>. QED
    BY <2>1
<1>4. s * n = (i * s + s) + d * s /\ d * s \in Nat
  BY <1>3
<1>5. i + 1 = n => d = 0
  BY <1>3
<1>6. d = 0 => d * s = 0
  OBVIOUS
<1>. QED
  BY <1>1, <1>2, <1>4, <1>5, <1>6

(* The smaller of two numbers is one of them and no more than either.      *)
LEMMA SmallerIs ==
    ASSUME NEW a \in Nat, NEW b \in Nat
    PROVE  /\ Smaller(a, b) \in Nat /\ Smaller(a, b) <= a /\ Smaller(a, b) <= b
           /\ Smaller(a, b) = a \/ Smaller(a, b) = b
           /\ a <= b => Smaller(a, b) = a
           /\ a > 0 /\ b > 0 => Smaller(a, b) > 0
  BY DEF Smaller

(* A quotient and a remainder are the only ones.                           *)
LEMMA OneRemainder ==
    ASSUME NEW d \in Nat \ {0}, NEW q \in Int, NEW r \in 0 .. (d - 1)
    PROVE  (q * d + r) % d = r
<1> DEFINE a == q * d + r
           p == a \div d
           t == a % d
<1>1. a \in Int /\ p \in Int /\ t \in 0 .. (d - 1) /\ a = d * p + t
  <2>1. q * d \in Int
    OBVIOUS
  <2>2. a \in Int
    BY <2>1
  <2> HIDE DEF a
  <2>. QED
    BY <2>2
<1>2. q * d + r = d * p + t
  BY <1>1
<1> HIDE DEF p, t
<1>3. ~(p < q)
  <2>1. SUFFICES ASSUME p < q PROVE FALSE
    OBVIOUS
  <2>2. PICK e \in Nat : q = p + 1 + e
    <3>1. q - (p + 1) \in Nat /\ q = p + 1 + (q - (p + 1))
      BY <1>1, <2>1
    <3>. QED
      BY <3>1
  <2>3. q * d = d * p + d + e * d /\ e * d \in Nat /\ d * p \in Int
    BY <1>1, <2>2
  <2>. QED
    BY <1>1, <1>2, <2>3
<1>4. ~(q < p)
  <2>1. SUFFICES ASSUME q < p PROVE FALSE
    OBVIOUS
  <2>2. PICK e \in Nat : p = q + 1 + e
    <3>1. p - (q + 1) \in Nat /\ p = q + 1 + (p - (q + 1))
      BY <1>1, <2>1
    <3>. QED
      BY <3>1
  <2>3. d * p = q * d + d + e * d /\ e * d \in Nat /\ q * d \in Int
    BY <1>1, <2>2
  <2>. QED
    BY <1>1, <1>2, <2>3
<1>5. p = q
  BY <1>1, <1>3, <1>4
<1>6. d * p = q * d /\ q * d \in Int
  BY <1>1, <1>5
<1>7. t = r
  BY <1>1, <1>2, <1>6
<1>. QED
  BY <1>7 DEF t

-----------------------------------------------------------------------------
(* What each step does to the counts.                                      *)
LEMMA InitCounted == Init => RInv
<1>. SUFFICES ASSUME Init PROVE RInv
  OBVIOUS
<1>1. 0 \in Nat /\ 0 \in 0 .. MaxPos
  BY Sizes16
<1>2. TypeOK
  BY <1>1 DEF Init, TypeOK, NoRead
<1>3. NoRead \in Locals /\ <<>> \in Seq(Bytes)
  BY <1>1 DEF NoRead, Locals
<1>. QED
  BY <1>2, <1>3 DEF Init, RInv, Counted

(* The piece that is next: from 1 byte to a cluster or the item's rest.    *)
LEMMA PieceFits ==
    ASSUME RInv, at \in {"read", "cluster", "sector", "piece"}
    PROVE  /\ PieceSize \in 1 .. rd.total /\ PieceSize <= ClusterSize
           /\ Before \in Nat /\ Wanted \in Nat
           /\ Before + rd.total = rd.i * rd.size + rd.size
           /\ Before + rd.total <= Wanted
           /\ rd.i + 1 = rd.nmemb => Before + rd.total = Wanted
<1>1. /\ rd.i \in Nat /\ rd.size \in Nat /\ rd.nmemb \in Nat /\ rd.i < rd.nmemb
      /\ rd.total \in 1 .. rd.size
  BY DEF RInv, Counted, Locals
<1>2. PieceSize \in 1 .. rd.total /\ PieceSize <= ClusterSize
  <2>1. rd.total \in Nat /\ rd.total > 0 /\ ClusterSize \in Nat /\ ClusterSize > 0
    BY <1>1, Sizes16
  <2>2. /\ Smaller(rd.total, ClusterSize) \in Nat /\ Smaller(rd.total, ClusterSize) > 0
        /\ Smaller(rd.total, ClusterSize) <= rd.total
        /\ Smaller(rd.total, ClusterSize) <= ClusterSize
    BY <2>1, SmallerIs
  <2>. QED
    BY <2>1, <2>2 DEF PieceSize
<1> DEFINE done == rd.i * rd.size
           all == rd.size * rd.nmemb
<1>3. /\ done \in Nat /\ all \in Nat /\ done + rd.size <= all
      /\ rd.i + 1 = rd.nmemb => done + rd.size = all
  BY <1>1, ItemsFit
<1>4. Before = done + (rd.size - rd.total) /\ Wanted = all
  BY DEF Before, Wanted, done, all
<1> HIDE DEF done, all
<1>5. Before \in Nat /\ Before + rd.total = done + rd.size
  BY <1>1, <1>3, <1>4
<1>. QED
  BY <1>2, <1>3, <1>4, <1>5 DEF done

(* The operations of the driver, one lemma each: a seek moves pos at most. *)
LEMMA SeekCounted ==
    ASSUME RInv, NEW offset \in Offsets, NEW whence \in {"set", "cur", "end"},
           Seek(offset, whence)
    PROVE  RInv'
<1>1. offset \in Nat /\ pos \in Nat /\ MaxPos \in Nat
  BY Sizes16 DEF RInv, TypeOK
<1>2. UNCHANGED <<file, stream, at, rd, out>> /\ at = "idle"
  BY DEF Seek
<1>3. pos' \in 0 .. MaxPos /\ res' \in {-1, 0}
  BY <1>1 DEF Seek, RInv, TypeOK
<1>4. TypeOK'
  BY <1>2, <1>3 DEF RInv, TypeOK
<1>. QED
  BY <1>2, <1>4 DEF RInv, Counted

(* fat16_read starts with nothing read and the whole of size * nmemb left. *)
LEMMA BeginReadCounted ==
    ASSUME RInv, NEW size \in Sizes, NEW nmemb \in Counts, BeginRead(size, nmemb)
    PROVE  RInv'
<1>1. size \in Nat /\ nmemb \in Nat /\ pos \in Nat
  BY Sizes16 DEF RInv, TypeOK
<1>2. UNCHANGED <<file, pos, stream, out>> /\ at = "idle" /\ out = <<>>
  BY DEF BeginRead, RInv, Counted
<1>3. CASE size = 0 \/ nmemb = 0
  <2>1. res' = -1 /\ UNCHANGED <<at, rd>>
    BY <1>3 DEF BeginRead
  <2>. QED
    BY <1>2, <2>1 DEF RInv, TypeOK, Counted
<1>4. CASE size > 0 /\ nmemb > 0
  <2>1. /\ rd' = [NoRead EXCEPT !.size = size, !.nmemb = nmemb,
                                !.offset = pos, !.total = size]
        /\ at' = "read" /\ res' = res
    BY <1>4 DEF BeginRead
  <2>2. /\ rd'.size = size /\ rd'.nmemb = nmemb /\ rd'.i = 0 /\ rd'.offset = pos
        /\ rd'.total = size /\ rd'.left = 0 /\ rd' \in Locals
    BY <1>1, <2>1 DEF NoRead, Locals
  <2>3. 0 * size + (size - size) = 0 /\ 0 * size \in Nat
    BY <1>1
  <2>4. Before' = 0
    BY <2>2, <2>3 DEF Before
  <2>5. TypeOK'
    BY <1>2, <2>1, <2>2 DEF RInv, TypeOK, Locals
  <2>6. Len(out) = 0 /\ out \in Seq(Bytes)
    BY <1>2 DEF RInv, Counted
  <2>7. Counted'
    BY <1>1, <1>2, <1>4, <2>1, <2>2, <2>4, <2>6 DEF Counted
  <2>. QED
    BY <2>5, <2>7 DEF RInv
<1>. QED
  BY <1>1, <1>3, <1>4

(* The two steps that find the cluster leave the counts alone.             *)
LEMMA EntriesNat ==
    ASSUME RInv, NEW position, NEW entry \in EntriesAt(position)
    PROVE  entry \in Nat
<1>1. file.chain \in Seq(Nat) /\ EndOfChain \in Nat /\ Elsewhere \subseteq Nat
  BY Fat16Assumption DEF RInv, TypeOK
<1>2. Len(file.chain) \in Nat /\ file.chain \in [1 .. Len(file.chain) -> Nat]
  BY <1>1, LenProperties
<1>3. \A i \in DOMAIN file.chain : i # Len(file.chain) => i + 1 \in 1 .. Len(file.chain)
  BY <1>2
<1>. QED
  BY <1>1, <1>2, <1>3 DEF EntriesAt

(* A piece starts at the head of the chain, with nothing left to copy.     *)
LEMMA StartPieceCounted == ASSUME RInv, StartPiece PROVE RInv'
<1>1. /\ rd' = [rd EXCEPT !.cluster = file.chain[1], !.ahead = rd.offset \div ClusterSize]
      /\ at = "read" /\ at' = "cluster" /\ UNCHANGED <<file, pos, stream, out, res>>
  BY DEF StartPiece
<1>2. file.chain[1] \in Nat
  <2>1. file.chain \in Seq(Nat) /\ file.chain # <<>>
    BY Fat16Assumption DEF RInv, TypeOK
  <2>. QED
    BY <2>1
<1>3. rd \in Locals /\ rd.offset \in Nat /\ ClusterSize \in Nat \ {0}
  BY Sizes16 DEF RInv, Counted, Locals
<1>4. rd.offset \div ClusterSize \in Nat
  BY <1>3
<1>5. /\ rd' \in Locals
      /\ rd'.size = rd.size /\ rd'.nmemb = rd.nmemb /\ rd'.i = rd.i
      /\ rd'.offset = rd.offset /\ rd'.total = rd.total /\ rd'.left = rd.left
  BY <1>1, <1>2, <1>3, <1>4 DEF Locals
<1>6. TypeOK'
  BY <1>1, <1>5 DEF RInv, TypeOK, Locals
<1>7. Before' = Before
  BY <1>5 DEF Before
<1>8. Counted'
  BY <1>1, <1>5, <1>7 DEF RInv, Counted
<1>. QED
  BY <1>6, <1>8 DEF RInv

(* A step along the chain copies nothing.                                  *)
LEMMA NextClusterCounted == ASSUME RInv, NextCluster PROVE RInv'
<1>1. /\ at = "cluster" /\ rd.ahead > 0 /\ UNCHANGED <<file, pos, stream, out>>
      /\ rd \in Locals
  BY DEF NextCluster, RInv, Counted
<1>2. PICK entry \in EntriesAt(EntryPosition(rd.cluster)) :
         IF entry \in FatMarks THEN Fail
         ELSE /\ rd' = [rd EXCEPT !.cluster = entry, !.ahead = @ - 1]
              /\ UNCHANGED <<at, res>>
  BY DEF NextCluster
<1>3. CASE entry \in FatMarks
  <2>1. at' = "done" /\ res' = -1 /\ rd' = rd
    BY <1>2, <1>3 DEF Fail
  <2>2. rd.left = 0 /\ Len(out) = Before /\ rd.total \in Nat
    BY <1>1 DEF RInv, Counted, Locals
  <2>3. Before \in Nat /\ Wanted \in Nat /\ Before + rd.total <= Wanted
    BY <1>1, PieceFits
  <2>4. Len(out) <= Wanted
    BY <2>2, <2>3
  <2>5. TypeOK'
    BY <1>1, <2>1 DEF RInv, TypeOK
  <2>6. Wanted' = Wanted /\ out' = out
    BY <1>1, <2>1 DEF Wanted
  <2>7. Counted'
    BY <1>1, <2>1, <2>2, <2>4, <2>6 DEF RInv, Counted
  <2>. QED
    BY <2>5, <2>7 DEF RInv
<1>4. CASE entry \notin FatMarks
  <2>1. rd' = [rd EXCEPT !.cluster = entry, !.ahead = rd.ahead - 1] /\ UNCHANGED <<at, res>>
    BY <1>2, <1>4
  <2>2. entry \in Nat /\ rd.ahead - 1 \in Nat
    BY <1>1, EntriesNat DEF Locals
  <2>3. /\ rd' \in Locals
        /\ rd'.size = rd.size /\ rd'.nmemb = rd.nmemb /\ rd'.i = rd.i
        /\ rd'.offset = rd.offset /\ rd'.total = rd.total /\ rd'.left = rd.left
    BY <1>1, <2>1, <2>2 DEF Locals
  <2>4. TypeOK'
    BY <1>1, <2>1, <2>3 DEF RInv, TypeOK, Locals
  <2>5. Before' = Before
    BY <2>3 DEF Before
  <2>6. Counted'
    BY <1>1, <2>1, <2>3, <2>5 DEF RInv, Counted
  <2>. QED
    BY <2>4, <2>6 DEF RInv
<1>. QED
  BY <1>3, <1>4

(* The stream is placed for the part of the piece that is in this cluster. *)
LEMMA SeekPieceCounted == ASSUME RInv, SeekPiece PROVE RInv'
<1>1. /\ at = "cluster" /\ at' = "sector" /\ UNCHANGED <<file, pos, out, res>>
      /\ stream' = PositionOf(rd.cluster, rd.offset)
      /\ rd' = [rd EXCEPT !.left = PieceSize]
  BY DEF SeekPiece
<1>2. rd \in Locals /\ rd.left = 0 /\ Len(out) = Before
  BY <1>1 DEF RInv, Counted
<1>3. PieceSize \in Nat /\ PieceSize > 0
  BY <1>1, <1>2, PieceFits DEF Locals
<1>4. /\ rd' \in Locals /\ rd'.left = PieceSize
      /\ rd'.size = rd.size /\ rd'.nmemb = rd.nmemb /\ rd'.i = rd.i
      /\ rd'.offset = rd.offset /\ rd'.total = rd.total /\ rd'.ahead = rd.ahead
  BY <1>1, <1>2, <1>3 DEF Locals
<1>5. PositionOf(rd.cluster, rd.offset) \in Int
  <2>1. /\ DataSector \in Int /\ rd.cluster - 2 \in Int /\ ClusterSectors \in Int
        /\ SectorSize \in Int
    BY <1>2, Fat16Assumption DEF Locals
  <2>2. (rd.cluster - 2) * ClusterSectors \in Int
    BY <2>1
  <2>3. (DataSector + (rd.cluster - 2) * ClusterSectors) * SectorSize \in Int
    BY <2>1, <2>2
  <2>4. rd.offset % ClusterSize \in Int
    BY <1>2, Sizes16 DEF Locals
  <2>. QED
    BY <2>3, <2>4 DEF PositionOf
<1>6. TypeOK'
  BY <1>1, <1>4, <1>5 DEF RInv, TypeOK, Locals
<1>7. Before' = Before /\ PieceSize' = PieceSize
  BY <1>4 DEF Before, PieceSize
<1>8. Len(out') + rd'.left = Before + PieceSize
  BY <1>1, <1>2, <1>4
<1>9. Counted'
  BY <1>1, <1>2, <1>3, <1>4, <1>7, <1>8 DEF RInv, Counted
<1>. QED
  BY <1>6, <1>9 DEF RInv

(* One sector's worth is copied.                                           *)
LEMMA CopiedBytes ==
    ASSUME RInv, ReadSector
    PROVE  \E n \in Nat :
              /\ n = Smaller(rd.left, SectorSize)
              /\ out' \in Seq(Bytes) /\ Len(out') = Len(out) + n
              /\ \A k \in 1 .. (Len(out) + n) :
                    out'[k] = IF k <= Len(out) THEN out[k]
                              ELSE SectorByte(stream, k - Len(out) - 1)
<1> DEFINE n == Smaller(rd.left, SectorSize)
           new == [i \in 1 .. n |-> SectorByte(stream, i - 1)]
<1>1. out' = out \o new
  BY DEF ReadSector
<1>2. rd.left \in Nat /\ out \in Seq(Bytes) /\ stream \in Int
  BY DEF RInv, TypeOK, Counted, Locals
<1>3. n \in Nat
  BY <1>2, SmallerIs, Sizes16
<1>4. \A i \in 1 .. n : SectorByte(stream, i - 1) \in Bytes
  BY <1>2, <1>3 DEF SectorByte, Bytes
<1> HIDE DEF n
<1>5. new \in Seq(Bytes) /\ Len(new) = n
  BY <1>3, <1>4
<1>6. \A i \in 1 .. n : new[i] = SectorByte(stream, i - 1)
  OBVIOUS
<1> HIDE DEF new
<1>7. /\ out \o new \in Seq(Bytes) /\ Len(out \o new) = Len(out) + n
      /\ \A k \in 1 .. (Len(out) + n) :
            (out \o new)[k] = IF k <= Len(out) THEN out[k] ELSE new[k - Len(out)]
  BY <1>2, <1>5, ConcatProperties
<1>8. \A k \in 1 .. (Len(out) + n) : ~(k <= Len(out)) => k - Len(out) \in 1 .. n
  BY <1>2, <1>3
<1>9. \A k \in 1 .. (Len(out) + n) :
         out'[k] = IF k <= Len(out) THEN out[k]
                   ELSE SectorByte(stream, k - Len(out) - 1)
  BY <1>1, <1>6, <1>7, <1>8
<1>. QED
  BY <1>1, <1>3, <1>7, <1>9 DEF n

(* A sector that is read is copied once, right after what came before it.  *)
LEMMA ReadSectorCounted == ASSUME RInv, ReadSector PROVE RInv'
<1>1. PICK n \in Nat :
         /\ n = Smaller(rd.left, SectorSize)
         /\ out' \in Seq(Bytes) /\ Len(out') = Len(out) + n
  BY CopiedBytes
<1>2. /\ at = "sector" /\ stream' = stream + n /\ UNCHANGED <<file, pos, res>>
      /\ rd' = [rd EXCEPT !.left = rd.left - n]
      /\ at' = IF rd.left > SectorSize THEN "sector" ELSE "piece"
  BY <1>1 DEF ReadSector
<1>3. /\ rd \in Locals /\ rd.left \in Nat /\ rd.left > 0
      /\ Len(out) + rd.left = Before + PieceSize
  BY <1>2 DEF RInv, Counted, Locals
<1>4. /\ n <= rd.left /\ n <= SectorSize
      /\ rd.left > SectorSize => n = SectorSize
      /\ rd.left <= SectorSize => n = rd.left
  BY <1>1, <1>3, SmallerIs, Sizes16 DEF Smaller
<1>5. rd.left - n \in Nat
  BY <1>3, <1>4
<1>6. /\ rd' \in Locals /\ rd'.left = rd.left - n
      /\ rd'.size = rd.size /\ rd'.nmemb = rd.nmemb /\ rd'.i = rd.i
      /\ rd'.offset = rd.offset /\ rd'.total = rd.total
  BY <1>2, <1>3, <1>5 DEF Locals
<1>7. DOMAIN out' = 1 .. Len(out') /\ \A k \in DOMAIN out' : out'[k] \in Int \cup {Stack}
  BY <1>1, LenProperties DEF Bytes
<1>8. TypeOK'
  <2>1. stream + n \in Int /\ at' \in {"sector", "piece"}
    BY <1>1, <1>2 DEF RInv, TypeOK
  <2>2. {rd.size, rd.nmemb, rd.i, rd.offset, rd.total, rd.ahead, rd.left}' \subseteq Nat
    BY <1>6 DEF Locals
  <2>3. file' \in Files /\ pos' \in 0 .. MaxPos /\ res' \in {-1, 0} \cup Counts
    BY <1>2 DEF RInv, TypeOK
  <2>. QED
    BY <1>2, <1>7, <2>1, <2>2, <2>3 DEF TypeOK
<1>9. Before' = Before /\ PieceSize' = PieceSize
  BY <1>6 DEF Before, PieceSize
<1>10. Len(out) \in Nat
  BY DEF RInv, Counted
<1>11. Len(out') + rd'.left = Before + PieceSize
  BY <1>1, <1>3, <1>5, <1>6, <1>10
<1>12. CASE rd.left > SectorSize
  <2>1. at' = "sector" /\ rd'.left > 0
    BY <1>2, <1>3, <1>4, <1>6, <1>12, Sizes16
  <2>. QED
    BY <1>1, <1>2, <1>6, <1>8, <1>9, <1>11, <2>1 DEF RInv, Counted
<1>13. CASE ~(rd.left > SectorSize)
  <2>1. at' = "piece" /\ rd'.left = 0
    BY <1>2, <1>3, <1>4, <1>6, <1>13, Sizes16
  <2>2. Len(out') = Before + PieceSize
    BY <1>1, <1>10, <1>11, <2>1
  <2>. QED
    BY <1>1, <1>2, <1>6, <1>8, <1>9, <2>1, <2>2 DEF RInv, Counted
<1>. QED
  BY <1>12, <1>13

(* What a piece has read is no longer left to read.                        *)
LEMMA NextPieceCounted == ASSUME RInv, NextPiece PROVE RInv'
<1>1. /\ at = "piece" /\ UNCHANGED <<file, pos, stream, out>>
      /\ rd \in Locals /\ rd.left = 0 /\ Len(out) = Before + PieceSize
      /\ rd.i < rd.nmemb /\ rd.total \in 1 .. rd.size /\ rd.offset = pos + Before
      /\ rd.i \in Nat /\ rd.size \in Nat /\ rd.nmemb \in Nat /\ rd.offset \in Nat
      /\ rd.nmemb \in Counts /\ rd.size > 0 /\ pos \in Nat
  BY Sizes16 DEF NextPiece, RInv, Counted, TypeOK, Locals
<1> DEFINE n == PieceSize
<1>2. /\ n \in 1 .. rd.total /\ Before \in Nat /\ Wanted \in Nat
      /\ Before + rd.total = rd.i * rd.size + rd.size
      /\ rd.i + 1 = rd.nmemb => Before + rd.total = Wanted
  BY <1>1, PieceFits
<1> HIDE DEF n
<1>3. n \in Nat /\ 1 <= n /\ n <= rd.total /\ rd.total \in Nat /\ rd.total <= rd.size
  BY <1>1, <1>2
<1>4. CASE /\ rd.total > n
           /\ rd' = [rd EXCEPT !.offset = rd.offset + n, !.total = rd.total - n]
           /\ at' = "read" /\ UNCHANGED res
  <2>1. rd.offset + n \in Nat /\ rd.total - n \in Nat /\ rd.total - n \in 1 .. rd.size
    <3>1. rd.offset \in Nat /\ rd.size \in Nat /\ rd.total > n
      BY <1>1, <1>4
    <3>2. rd.total - n \in Nat /\ 1 <= rd.total - n /\ rd.total - n <= rd.size
      BY <1>3, <3>1
    <3>. QED
      BY <1>3, <3>1, <3>2
  <2>2. /\ rd' \in Locals /\ rd'.left = 0 /\ rd'.size = rd.size /\ rd'.nmemb = rd.nmemb
        /\ rd'.i = rd.i /\ rd'.offset = rd.offset + n /\ rd'.total = rd.total - n
    BY <1>1, <1>4, <2>1 DEF Locals
  <2>3. Before' = rd.i * rd.size + (rd.size - (rd.total - n))
    BY <2>2 DEF Before
  <2>4. Before' = Before + n
    <3> DEFINE done == rd.i * rd.size
    <3>1. done \in Nat
      BY <1>1, ItemsFit
    <3>2. Before = done + (rd.size - rd.total) /\ Before' = done + (rd.size - (rd.total - n))
      BY <2>3 DEF Before
    <3>3. rd.size \in Nat /\ rd.total \in Nat /\ n \in Nat
      BY <1>1, <1>3
    <3> HIDE DEF done
    <3>. QED
      BY <3>1, <3>2, <3>3
  <2>5. rd'.offset = pos + Before' /\ Len(out) = Before'
    BY <1>1, <1>2, <2>2, <2>4 DEF n
  <2>6. TypeOK'
    BY <1>1, <1>4, <2>2 DEF RInv, TypeOK, Locals
  <2>7. Counted'
    BY <1>1, <1>4, <2>1, <2>2, <2>5 DEF RInv, Counted
  <2>. QED
    BY <2>6, <2>7 DEF RInv
<1>5. CASE /\ rd.total = n /\ rd.i + 1 < rd.nmemb
           /\ rd' = [rd EXCEPT !.offset = rd.offset + n, !.total = rd.size, !.i = rd.i + 1]
           /\ at' = "read" /\ UNCHANGED res
  <2>1. rd.offset + n \in Nat /\ rd.i + 1 \in Nat
    BY <1>1, <1>2
  <2>2. /\ rd' \in Locals /\ rd'.left = 0 /\ rd'.size = rd.size /\ rd'.nmemb = rd.nmemb
        /\ rd'.i = rd.i + 1 /\ rd'.offset = rd.offset + n /\ rd'.total = rd.size
    BY <1>1, <1>5, <2>1 DEF Locals
  <2>3. Before' = (rd.i + 1) * rd.size + (rd.size - rd.size)
    BY <2>2 DEF Before
  <2>4. (rd.i + 1) * rd.size = rd.i * rd.size + rd.size /\ rd.i * rd.size \in Nat
    BY <1>1, ItemsFit
  <2>5. Before' = Before + n
    BY <1>1, <1>2, <1>5, <2>3, <2>4
  <2>6. rd'.offset = pos + Before' /\ Len(out) = Before'
    BY <1>1, <1>2, <2>2, <2>5 DEF n
  <2>7. TypeOK'
    BY <1>1, <1>5, <2>2 DEF RInv, TypeOK, Locals
  <2>8. rd.size \in 1 .. rd.size
    BY <1>1
  <2>9. Counted'
    BY <1>1, <1>5, <2>2, <2>6, <2>8 DEF RInv, Counted
  <2>. QED
    BY <2>7, <2>9 DEF RInv
<1>6. CASE /\ rd.total = n /\ rd.i + 1 = rd.nmemb
           /\ at' = "done" /\ res' = rd.nmemb /\ UNCHANGED rd
  <2>1. Len(out) = Wanted
    BY <1>1, <1>2, <1>6 DEF n
  <2>2. TypeOK'
    BY <1>1, <1>6 DEF RInv, TypeOK
  <2>3. Wanted' = Wanted
    BY <1>6 DEF Wanted
  <2>4. Wanted <= Wanted
    BY <1>2
  <2>5. Counted'
    BY <1>1, <1>6, <2>1, <2>3, <2>4 DEF RInv, Counted
  <2>. QED
    BY <2>2, <2>5 DEF RInv
<1>. QED
  BY <1>4, <1>5, <1>6 DEF NextPiece, n

(* The answer is given when the count is done.                             *)
LEMMA ReturnCounted == ASSUME RInv, Return PROVE RInv'
<1>1. /\ at' = "idle" /\ rd' = NoRead /\ out' = <<>>
      /\ UNCHANGED <<file, pos, stream, res>>
  BY DEF Return
<1>2. NoRead \in Locals /\ <<>> \in Seq(Bytes)
  BY DEF NoRead, Locals
<1>3. TypeOK'
  BY <1>1, <1>2 DEF RInv, TypeOK, NoRead
<1>. QED
  BY <1>1, <1>2, <1>3 DEF RInv, Counted

(* Every step keeps the count of what is read and left.                    *)
LEMMA NextCounted == RInv /\ [Next]_vars => RInv'
<1>. SUFFICES ASSUME RInv, [Next]_vars PROVE RInv'
  OBVIOUS
<1>1. ASSUME NEW offset \in Offsets, NEW whence \in {"set", "cur", "end"},
             Seek(offset, whence)
      PROVE  RInv'
  BY <1>1, SeekCounted
<1>2. ASSUME NEW size \in Sizes, NEW nmemb \in Counts, BeginRead(size, nmemb)
      PROVE  RInv'
  BY <1>2, BeginReadCounted
<1>3. CASE Reading
  BY <1>3, StartPieceCounted, NextClusterCounted, SeekPieceCounted,
     ReadSectorCounted, NextPieceCounted, ReturnCounted DEF Reading
<1>4. CASE UNCHANGED vars
  BY <1>4 DEF vars, RInv, TypeOK, Counted, Before, PieceSize, Wanted
<1>. QED
  BY <1>1, <1>2, <1>3, <1>4 DEF Next

(* The counts are right in every state fread and fseek can reach.          *)
THEOREM ReadInvariant == Spec => []RInv
  BY InitCounted, NextCounted, PTL DEF Spec

(* The open file's position, fread's locals, its results and the caller's  *)
(* buffer keep their types.                                                *)
THEOREM ReadTypeCorrect == Spec => []TypeOK
<1>1. RInv => TypeOK
  BY DEF RInv
<1>. QED
  BY <1>1, ReadInvariant, PTL

(* fread never copies more than size * nmemb bytes, and when it returns    *)
(* success it has copied them all, for any sizes of sector and cluster.    *)
THEOREM ReadFillsTheBuffer == Spec => []FillsTheBuffer
<1>1. RInv => FillsTheBuffer
  <2>. SUFFICES ASSUME RInv PROVE FillsTheBuffer
    OBVIOUS
  <2>1. rd.left \in Nat /\ Len(out) \in Nat /\ rd.total \in Nat
    BY DEF RInv, Counted, Locals
  <2>2. CASE at = "idle"
    <3>1. Len(out) = 0 /\ rd.left = 0 /\ rd.size = 0 /\ rd.nmemb = 0
      BY <2>2 DEF RInv, Counted, NoRead
    <3>2. Wanted = 0
      BY <3>1 DEF Wanted
    <3>. QED
      BY <2>2, <3>1, <3>2 DEF FillsTheBuffer
  <2>3. CASE at = "done"
    <3>1. rd.left = 0 /\ Len(out) <= Wanted /\ (res > 0 => Len(out) = Wanted)
      BY <2>3 DEF RInv, Counted
    <3>. QED
      BY <2>1, <3>1 DEF FillsTheBuffer
  <2>4. CASE at \in {"read", "cluster", "sector", "piece"}
    <3>1. /\ PieceSize \in 1 .. rd.total /\ Before \in Nat /\ Wanted \in Nat
          /\ Before + rd.total <= Wanted
      BY <2>4, PieceFits
    <3>2. Len(out) + rd.left = Before \/ Len(out) + rd.left = Before + PieceSize
      BY <2>1, <2>4 DEF RInv, Counted
    <3>3. Len(out) + rd.left <= Wanted
      BY <2>1, <3>1, <3>2
    <3>. QED
      BY <2>4, <3>3 DEF FillsTheBuffer
  <2>. QED
    BY <2>2, <2>3, <2>4 DEF RInv, TypeOK
<1>. QED
  BY <1>1, ReadInvariant, PTL

-----------------------------------------------------------------------------
(* Reads within the first cluster, each item from the start of a sector or *)
(* from one sector alone: the streamer is where it should be.              *)
Straight ==
    Simple =>
        /\ \A k \in DOMAIN out : out[k] = FileByte(pos + k - 1)
        /\ at \in {"read", "cluster", "sector", "piece"} => rd.total = rd.size
        /\ at = "cluster" => rd.ahead = 0 /\ rd.cluster = file.chain[1]
        /\ at = "sector" =>
              /\ stream = FileByte(pos + Len(out))
              /\ (stream % SectorSize) + Smaller(rd.left, SectorSize) <= SectorSize

Base == (DataSector + (file.chain[1] - 2) * ClusterSectors) * SectorSize

(* The first cluster starts at a sector, and its bytes follow each other.  *)
LEMMA FirstCluster ==
    ASSUME RInv
    PROVE  /\ Base \in Int
           /\ \A k \in 0 .. (ClusterSize - 1) :
                 /\ PositionOf(file.chain[1], k) = Base + k
                 /\ FileByte(k) = Base + k
                 /\ (Base + k) % SectorSize = k % SectorSize
<1> DEFINE c == file.chain[1]
           q == DataSector + (c - 2) * ClusterSectors
<1>1. c \in Int
  <2>1. file.chain \in Seq(Nat) /\ file.chain # <<>>
    BY Fat16Assumption DEF RInv, TypeOK
  <2>. QED
    BY <2>1
<1>2. q \in Int
  <2>1. DataSector \in Int /\ ClusterSectors \in Int
    BY Fat16Assumption
  <2> HIDE DEF c
  <2>. QED
    BY <1>1, <2>1
<1>3. Base = q * SectorSize
  BY DEF Base
<1> HIDE DEF q
<1>4. Base \in Int
  BY <1>2, <1>3, Sizes16
<1>5. ASSUME NEW k \in 0 .. (ClusterSize - 1)
      PROVE  /\ PositionOf(c, k) = Base + k
             /\ FileByte(k) = Base + k
             /\ (Base + k) % SectorSize = k % SectorSize
  <2>1. k % ClusterSize = k /\ k \div ClusterSize = 0 /\ k \in Nat
    BY <1>5, Sizes16
  <2>2. PositionOf(c, k) = Base + k
    BY <2>1 DEF PositionOf, Base
  <2>3. FileByte(k) = PositionOf(c, k)
    BY <2>1 DEF FileByte
  <2>4. (Base + k) % SectorSize = k % SectorSize
    <3> DEFINE d == k \div SectorSize
               r == k % SectorSize
    <3>1. d \in Int /\ r \in 0 .. (SectorSize - 1) /\ k = SectorSize * d + r
      BY <2>1, Sizes16
    <3> HIDE DEF d, r
    <3>2. q + d \in Int /\ (q + d) * SectorSize = q * SectorSize + SectorSize * d
      BY <1>2, <3>1, Sizes16
    <3>3. q * SectorSize \in Int /\ SectorSize * d \in Int
      BY <1>2, <3>1, Sizes16
    <3>4. Base + k = (q + d) * SectorSize + r
      BY <1>3, <3>1, <3>2, <3>3
    <3>5. ((q + d) * SectorSize + r) % SectorSize = r
      BY <3>1, <3>2, OneRemainder, Sizes16
    <3>. QED
      BY <3>4, <3>5 DEF r
  <2>. QED
    BY <2>2, <2>3, <2>4
<1>. QED
  BY <1>4, <1>5

(* In such a read every item is one piece of the first cluster.            *)
LEMMA PieceIsItem ==
    ASSUME RInv, Straight, Simple, at \in {"read", "cluster", "sector", "piece"}
    PROVE  /\ rd.total = rd.size /\ PieceSize = rd.size
           /\ Before = rd.i * rd.size
           /\ rd.offset = pos + Before /\ rd.offset \in 0 .. (ClusterSize - 1)
           /\ pos \in Nat /\ Wanted \in Nat /\ pos + Wanted <= ClusterSize
<1>1. rd.total = rd.size
  BY DEF Straight
<1>2. /\ rd.offset = pos + Before /\ pos \in Nat /\ rd.total \in Nat /\ rd.total > 0
      /\ rd.i \in Nat /\ rd.size \in Nat /\ rd.nmemb \in Nat /\ rd.i < rd.nmemb
  BY Sizes16 DEF RInv, TypeOK, Counted, Locals
<1>3. Before \in Nat /\ Wanted \in Nat /\ Before + rd.total <= Wanted
  BY PieceFits
<1>4. pos + Wanted <= ClusterSize /\ ClusterSize \in Nat
  BY Sizes16 DEF Simple
<1>5. rd.total <= ClusterSize
  BY <1>2, <1>3, <1>4
<1>6. PieceSize = rd.total
  BY <1>2, <1>4, <1>5, SmallerIs DEF PieceSize
<1>7. Before = rd.i * rd.size
  <2>1. rd.i * rd.size \in Nat /\ rd.size - rd.size = 0
    BY <1>2, ItemsFit
  <2>. QED
    BY <1>1, <2>1 DEF Before
<1>8. rd.offset \in 0 .. (ClusterSize - 1)
  BY <1>2, <1>3, <1>4
<1>. QED
  BY <1>1, <1>2, <1>3, <1>4, <1>6, <1>7, <1>8

(* A piece of a simple read is in the first cluster.                       *)
LEMMA StartPieceStraight ==
    ASSUME RInv, Straight, StartPiece
    PROVE  Straight'
<1>1. /\ rd' = [rd EXCEPT !.cluster = file.chain[1], !.ahead = rd.offset \div ClusterSize]
      /\ at = "read" /\ at' = "cluster" /\ UNCHANGED <<file, pos, stream, out, res>>
      /\ rd \in Locals
  BY DEF StartPiece, RInv, Counted
<1>2. /\ rd'.size = rd.size /\ rd'.nmemb = rd.nmemb /\ rd'.total = rd.total
      /\ rd'.cluster = file.chain[1] /\ rd'.ahead = rd.offset \div ClusterSize
  BY <1>1 DEF Locals
<1>3. Simple' => Simple
  BY <1>1, <1>2 DEF Simple, Wanted
<1>4. ASSUME Simple PROVE rd.total = rd.size /\ rd'.ahead = 0
  <2>1. rd.total = rd.size /\ rd.offset \in 0 .. (ClusterSize - 1)
    BY <1>1, <1>4, PieceIsItem
  <2>2. rd.offset \div ClusterSize = 0
    BY <2>1, Sizes16
  <2>. QED
    BY <1>2, <2>1, <2>2
<1>5. Simple => \A k \in DOMAIN out : out[k] = FileByte(pos + k - 1)
  BY DEF Straight
<1>. QED
  BY <1>1, <1>2, <1>3, <1>4, <1>5 DEF Straight, FileByte

(* In the first cluster there is no chain to walk.                         *)
LEMMA NextClusterStraight ==
    ASSUME RInv, Straight, NextCluster
    PROVE  Straight'
<1>1. /\ at = "cluster" /\ rd.ahead > 0 /\ UNCHANGED <<file, pos, stream, out>>
      /\ rd \in Locals
  BY DEF NextCluster, RInv, Counted
<1>2. rd'.size = rd.size /\ rd'.nmemb = rd.nmemb
  BY <1>1 DEF NextCluster, Fail, Locals
<1>3. Simple' => Simple
  BY <1>1, <1>2 DEF Simple, Wanted
<1>4. ~Simple
  BY <1>1 DEF Straight
<1>. QED
  BY <1>3, <1>4 DEF Straight

(* The stream is placed on the byte that is wanted next.                   *)
LEMMA SeekPieceStraight ==
    ASSUME RInv, Straight, SeekPiece
    PROVE  Straight'
<1>1. /\ at = "cluster" /\ at' = "sector" /\ UNCHANGED <<file, pos, out, res>>
      /\ stream' = PositionOf(rd.cluster, rd.offset)
      /\ rd' = [rd EXCEPT !.left = PieceSize]
      /\ rd \in Locals
  BY DEF SeekPiece, RInv, Counted
<1>2. /\ rd'.size = rd.size /\ rd'.nmemb = rd.nmemb /\ rd'.total = rd.total
      /\ rd'.left = PieceSize
  BY <1>1 DEF Locals
<1>3. Simple' => Simple
  BY <1>1, <1>2 DEF Simple, Wanted
<1>4. ASSUME Simple
      PROVE  /\ rd.total = rd.size
             /\ stream' = FileByte(pos + Len(out))
             /\ (stream' % SectorSize) + Smaller(rd'.left, SectorSize) <= SectorSize
  <2>1. /\ rd.total = rd.size /\ PieceSize = rd.size
        /\ Before = rd.i * rd.size
        /\ rd.offset = pos + Before /\ rd.offset \in 0 .. (ClusterSize - 1)
    BY <1>1, <1>4, PieceIsItem
  <2>2. rd.cluster = file.chain[1] /\ Len(out) = Before
    BY <1>1, <1>4 DEF Straight, RInv, Counted
  <2>3. /\ stream' = FileByte(pos + Len(out))
        /\ stream' % SectorSize = rd.offset % SectorSize
    BY <1>1, <2>1, <2>2, FirstCluster
  <2>4. rd.i \in 0 .. (rd.nmemb - 1)
    BY <1>1 DEF RInv, Counted, Locals
  <2>5. ((pos + rd.i * rd.size) % SectorSize) + Smaller(rd.size, SectorSize) <= SectorSize
    BY <1>4, <2>4 DEF Simple
  <2>. QED
    BY <1>2, <2>1, <2>3, <2>5
<1>5. Simple => \A k \in DOMAIN out : out[k] = FileByte(pos + k - 1)
  BY DEF Straight
<1>. QED
  BY <1>1, <1>2, <1>3, <1>4, <1>5 DEF Straight, FileByte

(* The bytes of a sector go to where the file has them.                    *)
LEMMA ReadSectorStraight ==
    ASSUME RInv, Straight, ReadSector
    PROVE  Straight'
<1>1. PICK n \in Nat :
         /\ n = Smaller(rd.left, SectorSize)
         /\ out' \in Seq(Bytes) /\ Len(out') = Len(out) + n
         /\ \A k \in 1 .. (Len(out) + n) :
               out'[k] = IF k <= Len(out) THEN out[k]
                         ELSE SectorByte(stream, k - Len(out) - 1)
  BY CopiedBytes
<1>2. /\ at = "sector" /\ stream' = stream + n /\ UNCHANGED <<file, pos, res>>
      /\ rd' = [rd EXCEPT !.left = rd.left - n]
      /\ at' = IF rd.left > SectorSize THEN "sector" ELSE "piece"
      /\ rd \in Locals
  BY <1>1 DEF ReadSector, RInv, Counted
<1>3. /\ rd'.size = rd.size /\ rd'.nmemb = rd.nmemb /\ rd'.total = rd.total
      /\ rd'.left = rd.left - n
  BY <1>2 DEF Locals
<1>4. Simple' => Simple
  BY <1>2, <1>3 DEF Simple, Wanted
<1>. SUFFICES ASSUME Simple PROVE Straight'
  BY <1>4 DEF Straight
<1>5. /\ rd.total = rd.size /\ PieceSize = rd.size
      /\ pos \in Nat /\ Wanted \in Nat /\ pos + Wanted <= ClusterSize
  BY <1>2, PieceIsItem
<1>6. /\ stream = FileByte(pos + Len(out))
      /\ (stream % SectorSize) + n <= SectorSize
      /\ \A k \in DOMAIN out : out[k] = FileByte(pos + k - 1)
  BY <1>1, <1>2 DEF Straight
<1>7. /\ Len(out) \in Nat /\ DOMAIN out = 1 .. Len(out)
      /\ DOMAIN out' = 1 .. (Len(out) + n)
  BY <1>1, LenProperties DEF RInv, Counted
<1>8. rd.left \in Nat /\ rd.left > 0 /\ Len(out) + rd.left <= Wanted
  <2>1. rd.left \in Nat /\ rd.left > 0 /\ Len(out) + rd.left = Before + PieceSize
    BY <1>2 DEF RInv, Counted, Locals
  <2>2. Before \in Nat /\ Before + rd.total <= Wanted
    BY <1>2, PieceFits
  <2>. QED
    BY <1>5, <2>1, <2>2
<1>9. /\ n <= rd.left /\ (rd.left > SectorSize => n = SectorSize)
      /\ SectorSize \in Nat /\ SectorSize > 0 /\ ClusterSize \in Nat
  BY <1>1, <1>8, Sizes16, SmallerIs DEF Smaller
<1>10. Base \in Int /\ \A k \in 0 .. (ClusterSize - 1) : FileByte(k) = Base + k
  BY FirstCluster
<1>11. stream = Base + (pos + Len(out))
  <2>1. pos + Len(out) \in 0 .. (ClusterSize - 1)
    BY <1>5, <1>7, <1>8, <1>9
  <2>. QED
    BY <1>6, <1>10, <2>1
<1>12. ASSUME NEW k \in 1 .. (Len(out) + n) PROVE out'[k] = FileByte(pos + k - 1)
  <2>1. CASE k <= Len(out)
    <3>1. k \in DOMAIN out
      BY <1>7, <2>1
    <3>. QED
      BY <1>1, <1>6, <2>1, <3>1
  <2>2. CASE ~(k <= Len(out))
    <3> DEFINE i == k - Len(out) - 1
    <3>1. i \in Int /\ i < n /\ pos + k - 1 = (pos + Len(out)) + i
      BY <1>1, <1>5, <1>7, <2>2
    <3>2. pos + k - 1 \in 0 .. (ClusterSize - 1)
      BY <1>1, <1>5, <1>7, <1>8, <1>9, <2>2
    <3>3. FileByte(pos + k - 1) = Base + (pos + k - 1)
      BY <1>10, <3>2
    <3>4. out'[k] = SectorByte(stream, i)
      BY <1>1, <2>2
    <3> HIDE DEF i
    <3>5. stream \in Int
      BY <1>5, <1>7, <1>10, <1>11
    <3>6. (stream % SectorSize) + i < SectorSize
      <4> DEFINE r == stream % SectorSize
      <4>1. r \in Int
        BY <1>9, <3>5
      <4>2. r + n <= SectorSize
        BY <1>6
      <4> HIDE DEF r
      <4>3. r + i < SectorSize
        BY <1>9, <3>1, <4>1, <4>2
      <4>. QED
        BY <4>3 DEF r
    <3>7. SectorByte(stream, i) = stream + i
      BY <3>6 DEF SectorByte
    <3>8. stream + i = Base + ((pos + Len(out)) + i)
      BY <1>5, <1>7, <1>10, <1>11, <3>1
    <3>. QED
      BY <3>1, <3>3, <3>4, <3>7, <3>8
  <2>. QED
    BY <2>1, <2>2
<1>13. ASSUME rd.left > SectorSize
       PROVE  /\ stream + n = FileByte(pos + (Len(out) + n))
              /\ (stream + n) % SectorSize = 0
  <2>1. n = SectorSize /\ n < rd.left
    BY <1>9, <1>13
  <2>2. pos + (Len(out) + n) \in 0 .. (ClusterSize - 1)
    BY <1>1, <1>5, <1>7, <1>8, <1>9, <2>1
  <2>3. FileByte(pos + (Len(out) + n)) = Base + (pos + (Len(out) + n))
    BY <1>10, <2>2
  <2>4. stream + n = Base + (pos + (Len(out) + n))
    BY <1>1, <1>5, <1>7, <1>10, <1>11
  <2>5. stream \in Int
    BY <1>5, <1>7, <1>10, <1>11
  <2> DEFINE q == stream \div SectorSize
             r == stream % SectorSize
  <2>6. q \in Int /\ r \in 0 .. (SectorSize - 1) /\ stream = SectorSize * q + r
    BY <1>9, <2>5
  <2>7. r + n <= SectorSize
    BY <1>6
  <2> HIDE DEF q, r
  <2>8. r = 0
    BY <1>9, <2>1, <2>6, <2>7
  <2>9. /\ SectorSize * q \in Int
        /\ (q + 1) * SectorSize = SectorSize * q + SectorSize /\ q + 1 \in Int
    BY <1>9, <2>6
  <2>10. stream + n = (q + 1) * SectorSize + 0
    BY <1>9, <2>1, <2>6, <2>8, <2>9
  <2>11. 0 \in 0 .. (SectorSize - 1) /\ SectorSize \in Nat \ {0}
    BY <1>9
  <2>12. ((q + 1) * SectorSize + 0) % SectorSize = 0
    BY <2>9, <2>11, OneRemainder
  <2>. QED
    BY <2>3, <2>4, <2>10, <2>12
<1>14. \A k \in DOMAIN out' : out'[k] = (FileByte(pos + k - 1))'
  BY <1>2, <1>7, <1>12 DEF FileByte
<1>15. at' = "sector" =>
         /\ stream' = (FileByte(pos + Len(out)))'
         /\ (stream' % SectorSize) + Smaller(rd'.left, SectorSize) <= SectorSize
  <2>. SUFFICES ASSUME at' = "sector"
                PROVE  /\ stream' = (FileByte(pos + Len(out)))'
                       /\ (stream' % SectorSize) + Smaller(rd'.left, SectorSize)
                            <= SectorSize
    OBVIOUS
  <2>1. rd.left > SectorSize
    BY <1>2
  <2>2. rd.left - n \in Nat
    BY <1>1, <1>8, <1>9
  <2>3. Smaller(rd.left - n, SectorSize) \in Nat /\ Smaller(rd.left - n, SectorSize) <= SectorSize
    BY <1>9, <2>2, SmallerIs
  <2>4. (stream' % SectorSize) = 0 /\ stream' = FileByte(pos + (Len(out) + n))
    BY <1>2, <1>13, <2>1
  <2>5. (stream' % SectorSize) + Smaller(rd'.left, SectorSize) <= SectorSize
    BY <1>3, <1>9, <2>3, <2>4
  <2>6. stream' = (FileByte(pos + Len(out)))'
    BY <1>1, <1>2, <2>4 DEF FileByte
  <2>. QED
    BY <2>5, <2>6
<1>16. at' # "cluster" /\ rd'.total = rd'.size
  BY <1>2, <1>3, <1>5
<1>. QED
  BY <1>14, <1>15, <1>16 DEF Straight

(* The next piece starts where the last one ended.                         *)
LEMMA NextPieceStraight ==
    ASSUME RInv, Straight, NextPiece
    PROVE  Straight'
<1>1. /\ at = "piece" /\ at' \in {"read", "done"}
      /\ UNCHANGED <<file, pos, stream, out>> /\ rd \in Locals
  BY DEF NextPiece, RInv, Counted
<1>2. PieceSize \in Nat /\ rd.total \in Nat
  BY <1>1, PieceFits DEF Locals
<1>3. /\ rd'.size = rd.size /\ rd'.nmemb = rd.nmemb
      /\ rd.total = PieceSize => rd'.total = rd.size \/ at' = "done"
  <2> DEFINE n == PieceSize
  <2>1. CASE /\ rd.total > n
             /\ rd' = [rd EXCEPT !.offset = @ + n, !.total = @ - n]
    <3>1. rd.total # n
      BY <1>1, <1>2, <2>1
    <3>. QED
      BY <1>1, <2>1, <3>1 DEF Locals
  <2>2. CASE rd' = [rd EXCEPT !.offset = @ + n, !.total = rd.size, !.i = @ + 1]
    BY <1>1, <2>2 DEF Locals
  <2>3. CASE at' = "done" /\ rd' = rd
    BY <2>3
  <2>. QED
    BY <2>1, <2>2, <2>3 DEF NextPiece
<1>4. Simple' => Simple
  BY <1>1, <1>3 DEF Simple, Wanted
<1>5. Simple => rd.total = PieceSize
  BY <1>1, PieceIsItem
<1>6. Simple => \A k \in DOMAIN out : out[k] = FileByte(pos + k - 1)
  BY DEF Straight
<1>. QED
  BY <1>1, <1>3, <1>4, <1>5, <1>6 DEF Straight, FileByte

(* Every step keeps a simple read straight.                                *)
LEMMA NextStraight == RInv /\ Straight /\ [Next]_vars => Straight'
<1>. SUFFICES ASSUME RInv, Straight, [Next]_vars PROVE Straight'
  OBVIOUS
<1>0. at = "idle" => out = <<>>
  BY DEF RInv, Counted
<1>1. ASSUME NEW offset \in Offsets, NEW whence \in {"set", "cur", "end"},
             Seek(offset, whence)
      PROVE  Straight'
  <2>1. at' = "idle" /\ out' = <<>>
    BY <1>0, <1>1 DEF Seek
  <2>. QED
    BY <2>1 DEF Straight
<1>2. ASSUME NEW size \in Sizes, NEW nmemb \in Counts, BeginRead(size, nmemb)
      PROVE  Straight'
  <2>1. out' = <<>> /\ (at' = "idle" \/ (at' = "read" /\ rd'.total = rd'.size))
    BY <1>0, <1>2 DEF BeginRead, NoRead
  <2>. QED
    BY <2>1 DEF Straight
<1>3. CASE Return
  <2>1. at' = "idle" /\ out' = <<>>
    BY <1>3 DEF Return
  <2>. QED
    BY <2>1 DEF Straight
<1>4. CASE UNCHANGED vars
  BY <1>4 DEF vars, Straight, Simple, Wanted, FileByte
<1>. QED
  BY <1>1, <1>2, <1>3, <1>4, StartPieceStraight, NextClusterStraight, SeekPieceStraight,
     ReadSectorStraight, NextPieceStraight DEF Next, Reading

(* A read that stays in the file's first cluster, with items that start a  *)
(* sector or fit in one, puts the file's own bytes in the caller's buffer, *)
(* in order, through the loops over items, pieces and sectors.             *)
THEOREM SimpleReadsAreRight == Spec => []ReadsTheFile
<1>1. Init => Straight
  BY DEF Init, Straight
<1>2. RInv /\ Straight => ReadsTheFile
  <2>. SUFFICES ASSUME RInv, Straight, at = "done", res > 0, Simple
                PROVE  out = [k \in 1 .. Wanted |-> FileByte(pos + k - 1)]
    BY DEF ReadsTheFile
  <2>1. out \in Seq(Bytes) /\ Len(out) = Wanted
    BY DEF RInv, Counted
  <2>2. DOMAIN out = 1 .. Wanted /\ out \in [1 .. Wanted -> Bytes]
    BY <2>1, LenProperties
  <2>3. \A k \in 1 .. Wanted : out[k] = FileByte(pos + k - 1)
    BY <2>2 DEF Straight
  <2>. QED
    BY <2>2, <2>3
<1>. QED
  BY <1>1, <1>2, NextStraight, ReadInvariant, PTL DEF Spec
=============================================================================
