----------------------------- MODULE HeapProofs -----------------------------
(***************************************************************************)
(* What holds of the kernel heap for every size of heap, block, request    *)
(* and 32-bit limit. The inductive invariant is the table's encoding       *)
(* together with the disjointness of the ranges: the scan looks at flags   *)
(* only, so that what it finds is free of owners needs the encoding, and   *)
(* the encoding of a new range needs it to be disjoint from the others.    *)
(***************************************************************************)
EXTENDS Heap, WellFoundedInduction, TLAPS

IInv == TypeOK /\ LiveDisjoint /\ TableEncodesLive

-----------------------------------------------------------------------------
(* Rounding up a size gives a natural number of blocks, wrap included.     *)
LEMMA BlocksOfNat ==
    ASSUME NEW size \in Requests
    PROVE  BlocksOf(size) \in Nat
<1>1. size \in Nat /\ size < SizeMod
  BY RequestsAssumption, SizeModAssumption, SMT
<1>2. AlignUp(size) \in Nat
  <2>1. CASE size % BlockSize = 0
    BY <2>1, <1>1 DEF AlignUp
  <2>2. CASE size % BlockSize # 0
    <3> DEFINE up == (size - (size % BlockSize)) + BlockSize
    <3>1. up \in Int
      BY <1>1, BlockSizeAssumption
    <3>2. up % SizeMod \in Nat
      BY <3>1, SizeModAssumption
    <3>. QED
      BY <2>2, <3>2 DEF AlignUp
  <2>. QED
    BY <2>1, <2>2
<1>. QED
  BY <1>2, BlockSizeAssumption DEF BlocksOf

(* Whatever the scan returns starts a stretch that is free as far as the   *)
(* request goes, or as far as the table goes.                              *)
LEMMA StartBlockFree ==
    ASSUME NEW n \in Nat, NEW b \in StartBlock(n)
    PROVE  b \in Blocks /\ Free(b) /\ \A i \in Blocks \cap Run(b, n) : Free(i)
<1>1. CASE Fits(n) # {}
  <2>1. b \in Blocks /\ FitsAt(b, n)
    BY <1>1 DEF StartBlock, Fits
  <2>. QED
    BY <2>1, TotalAssumption, SMT DEF FitsAt, Run, Blocks
<1>2. CASE Fits(n) = {}
  <2>1. b \in Blocks /\ \A i \in b .. (Total - 1) : Free(i)
    BY <1>2 DEF StartBlock, TrailingRun
  <2>. QED
    BY <2>1, TotalAssumption, SMT DEF Run, Blocks
<1>. QED
  BY <1>1, <1>2

(* A free stretch has no owner: no range in use reaches into it, not even  *)
(* past the end of the table, where both would hold the last block.        *)
LEMMA FreeUnowned ==
    ASSUME IInv, NEW n \in Nat, NEW b \in Blocks,
           Free(b), \A i \in Blocks \cap Run(b, n) : Free(i)
    PROVE  live[b] = 0 /\ \A c \in Blocks : Run(b, n) \cap Owned(c) = {}
<1>0. live \in [Blocks -> Nat] /\ Total \in Nat
  BY TotalAssumption DEF IInv, TypeOK
<1>1. ASSUME NEW i \in Blocks, NEW c \in Blocks, i \in Owned(c)
      PROVE  ~Free(i)
  <2>1. entries[i] = MarkedEntry(c, live[c], i)
    BY <1>1 DEF IInv, TableEncodesLive
  <2>. QED
    BY <2>1 DEF MarkedEntry, Free
<1>2. live[b] = 0
  <2>1. SUFFICES ASSUME live[b] > 0 PROVE FALSE
    BY <1>0
  <2>2. b \in Owned(b)
    BY <2>1, <1>0, SMT DEF Owned, Run, Blocks
  <2>. QED
    BY <2>2, <1>1
<1>3. ASSUME NEW c \in Blocks, NEW k \in Run(b, n), k \in Owned(c)
      PROVE  FALSE
  <2>1. CASE k \in Blocks
    BY <2>1, <1>3, <1>1
  <2>2. CASE k \notin Blocks
    <3>1. k >= Total /\ k < b + n /\ k >= c /\ k < c + live[c]
      BY <2>2, <1>3, <1>0, SMT DEF Run, Owned, Blocks
    <3>2. Total - 1 \in Blocks \cap Run(b, n) /\ Total - 1 \in Owned(c)
      BY <3>1, <1>0, SMT DEF Run, Owned, Blocks
    <3>. QED
      BY <3>2, <1>1
  <2>. QED
    BY <2>1, <2>2
<1>. QED
  BY <1>2, <1>3

-----------------------------------------------------------------------------
(* The three kinds of step keep the invariant.                             *)

(* A successful allocation keeps the invariant.                            *)
LEMMA MallocKeepsIInv ==
    ASSUME IInv, NEW n \in Nat, MallocFound(n), zeroed' \subseteq Nat
    PROVE  IInv'
<1>0. /\ live \in [Blocks -> Nat] /\ entries \in [Blocks -> SUBSET Flags]
      /\ past \subseteq Nat /\ Total \in Nat
  BY TotalAssumption DEF IInv, TypeOK
<1>1. PICK b \in StartBlock(n) :
        /\ entries' = MarkTaken(b, n)
        /\ past' = past \cup (Run(b, n) \ Blocks)
        /\ live' = [live EXCEPT ![b] = n]
        /\ ret' = b /\ asked' = n
  BY DEF MallocFound
<1>2. b \in Blocks /\ Free(b) /\ \A i \in Blocks \cap Run(b, n) : Free(i)
  BY StartBlockFree
<1>3. live[b] = 0 /\ \A c \in Blocks : Run(b, n) \cap Owned(c) = {}
  BY <1>2, FreeUnowned
<1>4. \A c \in Blocks : Owned(c)' = IF c = b THEN Run(b, n) ELSE Owned(c)
  BY <1>0, <1>1, <1>2 DEF Owned, Run
<1>5. TypeOK'
  <2>1. entries' \in [Blocks -> SUBSET Flags]
    <3>1. \A i : MarkedEntry(b, n, i) \in SUBSET Flags
      BY DEF MarkedEntry, Flags
    <3>. QED
      BY <3>1, <1>0, <1>1 DEF MarkTaken
  <2>2. past' \subseteq Nat
    BY <1>0, <1>1, <1>2, SMT DEF Run, Blocks
  <2>3. live' \in [Blocks -> Nat] /\ ret' \in Blocks \cup {NULL} /\ asked' \in Nat
    BY <1>0, <1>1, <1>2
  <2>. QED
    BY <2>1, <2>2, <2>3 DEF TypeOK
<1>6. LiveDisjoint'
  BY <1>3, <1>4 DEF IInv, LiveDisjoint
<1>7. TableEncodesLive'
  <2>1. SUFFICES ASSUME NEW i \in Blocks
        PROVE /\ entries'[i] = {} \/ \E c \in Blocks : i \in Owned(c)'
              /\ \A c \in Blocks :
                    i \in Owned(c)' => entries'[i] = MarkedEntry(c, live'[c], i)
    BY DEF TableEncodesLive
  <2>2. CASE i \in Run(b, n)
    <3>1. entries'[i] = MarkedEntry(b, n, i) /\ live'[b] = n
      BY <2>2, <1>0, <1>1, <1>2 DEF MarkTaken
    <3>2. \A c \in Blocks : i \in Owned(c)' => c = b
      BY <2>2, <1>3, <1>4
    <3>. QED
      BY <3>1, <3>2, <2>2, <1>2, <1>4
  <2>3. CASE i \notin Run(b, n)
    <3>1. entries'[i] = entries[i]
      BY <2>3, <1>1 DEF MarkTaken
    <3>2. \A c \in Blocks : i \in Owned(c)' => c # b /\ i \in Owned(c) /\ live'[c] = live[c]
      BY <2>3, <1>0, <1>1, <1>4
    <3>3. entries[i] = {} \/ \E c \in Blocks : i \in Owned(c)'
      <4>1. i \notin Owned(b)
        BY <1>0, <1>2, <1>3, SMT DEF Owned, Run, Blocks
      <4>. QED
        BY <4>1, <1>4 DEF IInv, TableEncodesLive
    <3>. QED
      BY <3>1, <3>2, <3>3 DEF IInv, TableEncodesLive
  <2>. QED
    BY <2>2, <2>3
<1>. QED
  BY <1>5, <1>6, <1>7 DEF IInv

(* Following HAS_NEXT from the start of a range frees that range, all of   *)
(* it and nothing else, as far as the table reaches.                       *)
LEMMA FreedIsOwned ==
    ASSUME IInv, NEW b \in Blocks, live[b] > 0
    PROVE  FreedFrom(b) = Owned(b) \cap Blocks
<1>0. live \in [Blocks -> Nat] /\ Total \in Nat
  BY TotalAssumption DEF IInv, TypeOK
<1>1. \A i \in Blocks : i \in Owned(b) => entries[i] = MarkedEntry(b, live[b], i)
  BY DEF IInv, TableEncodesLive
<1>2. \A i \in Blocks : i \in Owned(b) =>
         ("has_next" \in entries[i] <=> i # b + live[b] - 1)
  BY <1>1 DEF MarkedEntry
<1>3. ASSUME NEW i \in FreedFrom(b) PROVE i \in Owned(b) \cap Blocks
  <2>1. i \in Blocks /\ i >= b /\ \A j \in b .. (i - 1) : "has_next" \in entries[j]
    BY <1>3 DEF FreedFrom
  <2>2. SUFFICES ASSUME i > b + live[b] - 1 PROVE FALSE
    BY <2>1, <1>0, SMT DEF Owned, Run, Blocks
  <2>3. /\ b + live[b] - 1 \in b .. (i - 1)
        /\ b + live[b] - 1 \in Blocks
        /\ b + live[b] - 1 \in Owned(b)
    BY <2>1, <2>2, <1>0, SMT DEF Owned, Run, Blocks
  <2>. QED
    BY <2>1, <2>3, <1>2
<1>4. ASSUME NEW i \in Owned(b) \cap Blocks PROVE i \in FreedFrom(b)
  <2>1. i \in Blocks /\ i >= b /\ i <= b + live[b] - 1
    BY <1>4, <1>0, SMT DEF Owned, Run, Blocks
  <2>2. ASSUME NEW j \in b .. (i - 1) PROVE "has_next" \in entries[j]
    <3>1. j \in Blocks /\ j \in Owned(b) /\ j # b + live[b] - 1
      BY <2>1, <1>0, SMT DEF Owned, Run, Blocks
    <3>. QED
      BY <3>1, <1>2
  <2>. QED
    BY <2>1, <2>2 DEF FreedFrom
<1>. QED
  BY <1>3, <1>4

(* kfree of a block keeps the invariant.                                   *)
LEMMA KFreeKeepsIInv ==
    ASSUME IInv, NEW b \in Blocks, KFree(b)
    PROVE  IInv'
<1>0. /\ live \in [Blocks -> Nat] /\ entries \in [Blocks -> SUBSET Flags]
      /\ Total \in Nat
  BY TotalAssumption DEF IInv, TypeOK
<1>1. FreedFrom(b) = Owned(b) \cap Blocks
  BY FreedIsOwned DEF KFree
<1>2. \A c \in Blocks : Owned(c)' = IF c = b THEN {} ELSE Owned(c)
  <2>1. live' = [live EXCEPT ![b] = 0]
    BY DEF KFree
  <2>2. Run(b, 0) = {}
    BY SMT DEF Run, Blocks
  <2>. QED
    BY <2>1, <2>2, <1>0 DEF Owned, Run
<1>3. \A i \in Blocks : entries'[i] = IF i \in Owned(b) THEN {} ELSE entries[i]
  BY <1>1 DEF KFree, MarkFree
<1>4. TypeOK'
  BY <1>0, SMT DEF KFree, MarkFree, IInv, TypeOK
<1>5. LiveDisjoint'
  BY <1>2 DEF IInv, LiveDisjoint
<1>6. TableEncodesLive'
  <2>1. SUFFICES ASSUME NEW i \in Blocks
        PROVE /\ entries'[i] = {} \/ \E c \in Blocks : i \in Owned(c)'
              /\ \A c \in Blocks :
                    i \in Owned(c)' => entries'[i] = MarkedEntry(c, live'[c], i)
    BY DEF TableEncodesLive
  <2>2. CASE i \in Owned(b)
    BY <2>2, <1>2, <1>3 DEF IInv, LiveDisjoint
  <2>3. CASE i \notin Owned(b)
    <3>1. entries'[i] = entries[i]
      BY <2>3, <1>3
    <3>2. \A c \in Blocks : c # b => live'[c] = live[c]
      BY <1>0 DEF KFree
    <3>. QED
      BY <2>3, <3>1, <3>2, <1>2 DEF IInv, TableEncodesLive
  <2>. QED
    BY <2>2, <2>3
<1>. QED
  BY <1>4, <1>5, <1>6 DEF IInv

(* The invariant holds for the empty table.                                *)
LEMMA InitIInv == Init => IInv
<1>. SUFFICES ASSUME Init PROVE IInv
  OBVIOUS
<1>1. TypeOK
  BY DEF Init, TypeOK
<1>2. \A b \in Blocks : Owned(b) = {}
  BY SMT DEF Init, Owned, Run, Blocks
<1>. QED
  BY <1>1, <1>2 DEF Init, IInv, LiveDisjoint, TableEncodesLive

(* What the assumptions say of the address space.                          *)
LEMMA AddressFacts ==
    /\ AddressBlocks \in Nat /\ SizeMod = AddressBlocks * BlockSize
    /\ ImageEntry \in Nat /\ HeapPage \in Nat \ {0} /\ Total \in Nat \ {0}
    /\ Total <= ImageEntry /\ ImageEntry + HeapPage <= AddressBlocks
<1>1. SizeMod = BlockSize * (SizeMod \div BlockSize) /\ SizeMod \div BlockSize \in Nat
  BY SizeModAssumption, BlockSizeAssumption
<1>2. SizeMod = AddressBlocks * BlockSize
  BY <1>1, SizeModAssumption, BlockSizeAssumption DEF AddressBlocks
<1>. QED
  BY <1>1, <1>2, AddressAssumption, TotalAssumption DEF AddressBlocks

(* The memory kzalloc clears has natural numbers.                          *)
LEMMA ZeroedByNat ==
    ASSUME NEW b \in Blocks, NEW size \in Requests
    PROVE  ZeroedBy(b, size) \subseteq Nat
<1>1. (size + BlockSize - 1) \div BlockSize \in Nat
  BY RequestsAssumption, SizeModAssumption, BlockSizeAssumption, SMT
<1>2. \A n \in Nat : Memory(b, n) \subseteq Nat
  <2>1. AddressBlocks \in Nat \ {0}
    BY AddressFacts
  <2>2. \A k \in Nat : k % AddressBlocks \in Nat
    BY <2>1
  <2>. QED
    BY <2>2 DEF Memory, Blocks
<1>. QED
  BY <1>1, <1>2 DEF ZeroedBy

(* An allocation keeps the invariant, granted or not.                      *)
LEMMA AllocationKeepsIInv ==
    ASSUME IInv, NEW size \in Requests, KMalloc(size) \/ KZalloc(size)
    PROVE  IInv'
<1>1. ASSUME NEW n \in Nat, MallocFailed(n), zeroed' = {} PROVE IInv'
  BY <1>1 DEF MallocFailed, IInv, TypeOK, LiveDisjoint, TableEncodesLive, Owned
<1>2. CASE KMalloc(size)
  BY <1>1, <1>2, BlocksOfNat, MallocKeepsIInv DEF KMalloc
<1>3. CASE KZalloc(size)
  <2>1. CASE MallocFound(BlocksOf(size)) /\ zeroed' = ZeroedBy(ret', size)
    <3>1. ret' \in Blocks
      BY <2>1, BlocksOfNat, StartBlockFree DEF MallocFound
    <3>. QED
      BY <2>1, <3>1, BlocksOfNat, ZeroedByNat, MallocKeepsIInv
  <2>2. CASE MallocFailed(BlocksOf(size)) /\ zeroed' = {}
    BY <2>2, <1>1, BlocksOfNat
  <2>. QED
    BY <1>3, <2>1, <2>2 DEF KZalloc
<1>. QED
  BY <1>2, <1>3

(* Every step of the heap keeps the invariant.                             *)
LEMMA NextIInv == IInv /\ [Next]_vars => IInv'
<1>. SUFFICES ASSUME IInv, [Next]_vars PROVE IInv'
  OBVIOUS
<1>1. CASE UNCHANGED vars
  BY <1>1 DEF vars, IInv, TypeOK, LiveDisjoint, TableEncodesLive, Owned
<1>. QED
  BY <1>1, AllocationKeepsIInv, KFreeKeepsIInv DEF Next

(* The table encodes the ranges in use, and no two of them meet, after any *)
(* sequence of kmalloc, kzalloc and kfree.                                 *)
THEOREM InvariantHolds == Spec => []IInv
  BY InitIInv, NextIInv, PTL DEF Spec

(* Type correctness of the heap.                                           *)
THEOREM TypeCorrect == Spec => []TypeOK
<1>1. IInv => TypeOK
  BY DEF IInv
<1>. QED
  BY <1>1, InvariantHolds, PTL

(* kmalloc never gives a block to two callers.                             *)
THEOREM NoSharedBlock == Spec => []LiveDisjoint
<1>1. IInv => LiveDisjoint
  BY DEF IInv
<1>. QED
  BY <1>1, InvariantHolds, PTL

(* The flags in the table are those of the range that owns each block.     *)
THEOREM TableIsFaithful == Spec => []TableEncodesLive
<1>1. IInv => TableEncodesLive
  BY DEF IInv
<1>. QED
  BY <1>1, InvariantHolds, PTL

-----------------------------------------------------------------------------
(* While the kernel is left alone, kzalloc fills only its own allocation:  *)
(* what it clears has not gone round the address space, so it is the range *)
(* just granted, which was free. That the other ranges have not gone round *)
(* either is known from their marks: all of them were made, and none has   *)
(* reached the kernel's image.                                             *)

MInv == IInv /\ \A b \in Blocks : Owned(b) \ Blocks \subseteq past

(* Every mark beyond the table was made and stays.                         *)
LEMMA NextMInv == MInv /\ [Next]_vars => MInv'
<1>. SUFFICES ASSUME MInv, [Next]_vars PROVE MInv'
  OBVIOUS
<1>0. IInv /\ IInv' /\ live \in [Blocks -> Nat]
  BY NextIInv DEF MInv, IInv, TypeOK
<1>1. ASSUME NEW n \in Nat, MallocFound(n)
      PROVE  \A c \in Blocks : Owned(c)' \ Blocks \subseteq past'
  <2>1. PICK b \in StartBlock(n) : /\ past' = past \cup (Run(b, n) \ Blocks)
                                   /\ live' = [live EXCEPT ![b] = n]
    BY <1>1 DEF MallocFound
  <2>2. \A c \in Blocks : Owned(c)' = IF c = b THEN Run(b, n) ELSE Owned(c)
    BY <1>0, <2>1 DEF Owned, Run
  <2>. QED
    BY <2>1, <2>2 DEF MInv
<1>2. ASSUME NEW size \in Requests, KMalloc(size) \/ KZalloc(size)
      PROVE  \A c \in Blocks : Owned(c)' \ Blocks \subseteq past'
  BY <1>1, <1>2, BlocksOfNat DEF KMalloc, KZalloc, MallocFailed, MInv, Owned
<1>3. ASSUME NEW b \in Blocks, KFree(b)
      PROVE  \A c \in Blocks : Owned(c)' \ Blocks \subseteq past'
  <2>1. live' = [live EXCEPT ![b] = 0] /\ past' = past
    BY <1>3 DEF KFree
  <2>2. Run(b, 0) = {}
    BY SMT DEF Run, Blocks
  <2>3. \A c \in Blocks : Owned(c)' = IF c = b THEN {} ELSE Owned(c)
    BY <1>0, <2>1, <2>2 DEF Owned, Run
  <2>. QED
    BY <2>1, <2>3 DEF MInv
<1>4. CASE UNCHANGED vars
  BY <1>0, <1>4 DEF vars, MInv, Owned
<1>. QED
  BY <1>0, <1>2, <1>3, <1>4 DEF MInv, Next

(* Memory that does not go round is a run of blocks.                       *)
LEMMA MemoryIsRun ==
    ASSUME NEW b \in Blocks, NEW n \in Nat, b + n <= AddressBlocks
    PROVE  Memory(b, n) = Run(b, n)
<1>1. b \in Nat /\ AddressBlocks \in Nat
  BY AddressFacts DEF Blocks
<1>2. \A i \in 0 .. (n - 1) : (b + i) % AddressBlocks = b + i
  BY <1>1
<1>3. Memory(b, n) = {b + i : i \in 0 .. (n - 1)}
  BY <1>2 DEF Memory
<1>4. \A j \in Run(b, n) : j - b \in 0 .. (n - 1) /\ b + (j - b) = j
  BY <1>1 DEF Run
<1>5. \A i \in 0 .. (n - 1) : b + i \in Run(b, n)
  BY <1>1 DEF Run
<1>. QED
  BY <1>3, <1>4, <1>5

(* What is cleared reaches the kernel as soon as it ends above it.         *)
LEMMA MemoryReachesKernel ==
    ASSUME NEW b \in Blocks, NEW n \in Nat, b + n > AddressBlocks - HeapPage
    PROVE  Memory(b, n) \cap KernelBlocks # {}
<1>1. PICK k \in Int : k = AddressBlocks - HeapPage
  BY AddressFacts
<1>2. /\ b \in Nat /\ b < k /\ k < AddressBlocks /\ b + n > k
      /\ k \in Nat /\ AddressBlocks \in Nat
  BY <1>1, AddressFacts DEF Blocks
<1>3. k - b \in 0 .. (n - 1) /\ b + (k - b) = k /\ k % AddressBlocks = k
  BY <1>2
<1>4. k \in Memory(b, n)
  BY <1>3 DEF Memory
<1>5. k \in KernelBlocks
  BY <1>1, <1>2 DEF KernelBlocks
<1>. QED
  BY <1>4, <1>5

(* The stretch kzalloc clears is the one it was granted.                   *)
LEMMA ZeroedLength ==
    ASSUME NEW size \in Requests, AlignUp(size) # 0 \/ size = 0
    PROVE  BlocksOf(size) = (size + BlockSize - 1) \div BlockSize
<1>1. size \in Nat /\ size < SizeMod /\ BlockSize \in Nat \ {0} /\ SizeMod \in Nat \ {0}
  BY RequestsAssumption, SizeModAssumption, BlockSizeAssumption, SMT
<1>2. PICK q \in Nat : SizeMod = q * BlockSize
  <2>1. SizeMod = BlockSize * (SizeMod \div BlockSize) + (SizeMod % BlockSize)
    BY <1>1
  <2>. QED
    BY <2>1, <1>1, SizeModAssumption
<1>. QED
  BY <1>1, <1>2 DEF BlocksOf, AlignUp

(* A size that wraps when it is rounded up makes memset go all the way.    *)
LEMMA WrappedLength ==
    ASSUME NEW size \in Requests, AlignUp(size) = 0, size # 0
    PROVE  (size + BlockSize - 1) \div BlockSize = AddressBlocks
<1>1. /\ size \in Nat /\ size < SizeMod /\ size > 0
      /\ BlockSize \in Nat \ {0} /\ SizeMod \in Nat \ {0}
  BY RequestsAssumption, SizeModAssumption, BlockSizeAssumption, SMT
<1>2. AddressBlocks \in Nat /\ SizeMod = AddressBlocks * BlockSize
  BY AddressFacts
<1>3. PICK q \in Nat, d \in Nat :
          size = q * BlockSize + d /\ d < BlockSize /\ d = size % BlockSize
  <2>1. size \div BlockSize \in Nat /\ size % BlockSize \in 0 .. (BlockSize - 1)
    BY <1>1
  <2>2. size = BlockSize * (size \div BlockSize) + (size % BlockSize)
    BY <1>1
  <2>3. size = (size \div BlockSize) * BlockSize + (size % BlockSize)
    BY <1>1, <2>1, <2>2
  <2>4. size % BlockSize \in Nat /\ size % BlockSize < BlockSize
    BY <1>1, <2>1
  <2>. QED
    BY <2>1, <2>3, <2>4, Zenon
<1>4. d # 0 /\ (q * BlockSize + BlockSize) % SizeMod = 0
  BY <1>1, <1>3 DEF AlignUp
<1>5. PICK e \in Int : e = q * BlockSize
  BY <1>1
<1>6. e + BlockSize = SizeMod
  <2>1. e >= 0 /\ e < SizeMod /\ e + BlockSize > size
    BY <1>1, <1>3, <1>5
  <2>2. e + BlockSize <= SizeMod
    <3>1. q < AddressBlocks
      BY <1>1, <1>2, <1>3
    <3>2. (q + 1) * BlockSize <= AddressBlocks * BlockSize
      BY <1>1, <1>2, <3>1
    <3>. QED
      BY <1>1, <1>2, <1>5, <3>2
  <2>. QED
    BY <1>1, <1>4, <1>5, <2>1, <2>2
<1>7. q + 1 = AddressBlocks
  BY <1>1, <1>2, <1>5, <1>6
<1>8. size + BlockSize - 1 = (q + 1) * BlockSize + (d - 1) /\ d - 1 \in 0 .. (BlockSize - 1)
  BY <1>1, <1>3, <1>4
<1>. QED
  BY <1>1, <1>7, <1>8

(* No step clears memory of another allocation and leaves the kernel, and  *)
(* a grant of no block for a size above 0 never leaves it.                 *)
LEMMA ZeroesOnlyItsOwnStep ==
    ASSUME MInv, [Next]_vars
    PROVE  [/\ KernelIntact' =>
                  \A b \in Blocks : b # ret' => zeroed' \cap Memory(b, live'[b]) = {}
            /\ asked' = 0 /\ zeroed' # {} => ~KernelIntact']_vars
<1>1. SUFFICES ASSUME Next, zeroed' # {}, KernelIntact'
               PROVE  /\ \A b \in Blocks : b # ret' => zeroed' \cap Memory(b, live'[b]) = {}
                      /\ asked' # 0
  OBVIOUS
<1>2. PICK size \in Requests : /\ MallocFound(BlocksOf(size))
                               /\ zeroed' = ZeroedBy(ret', size)
  BY <1>1 DEF Next, KMalloc, KZalloc, KFree
<1>3. PICK b \in StartBlock(BlocksOf(size)) :
          /\ b = ret' /\ asked' = BlocksOf(size)
          /\ live' = [live EXCEPT ![b] = BlocksOf(size)]
          /\ past \subseteq past'
  BY <1>2 DEF MallocFound
<1>4. b \in Blocks /\ Free(b) /\ \A i \in Blocks \cap Run(b, BlocksOf(size)) : Free(i)
  BY <1>3, BlocksOfNat, StartBlockFree
<1>5. PICK n \in Nat : n = (size + BlockSize - 1) \div BlockSize
  BY RequestsAssumption, SizeModAssumption, BlockSizeAssumption, SMT
<1>6. zeroed' = Memory(b, n)
  BY <1>2, <1>3, <1>5 DEF ZeroedBy
<1>7. ~(b + n > AddressBlocks - HeapPage)
  BY <1>1, <1>4, <1>6, MemoryReachesKernel DEF KernelIntact
<1>8. b + n <= AddressBlocks /\ n < AddressBlocks /\ n # 0
  <2>1. n # 0
    BY <1>1, <1>4, <1>6, SMT DEF Memory
  <2>. QED
    BY <1>4, <1>7, <2>1, AddressFacts DEF Blocks
<1>9. n = BlocksOf(size)
  BY <1>5, <1>8, WrappedLength, ZeroedLength
<1>10. ASSUME NEW c \in Blocks, c # ret' PROVE zeroed' \cap Memory(c, live'[c]) = {}
  <2>1. live'[c] = live[c] /\ live[c] \in Nat
    BY <1>3, <1>10 DEF MInv, IInv, TypeOK
  <2>2. zeroed' \cap Owned(c) = {}
    BY <1>4, <1>6, <1>8, <1>9, MemoryIsRun, FreeUnowned DEF MInv
  <2>3. c + live[c] <= AddressBlocks
    <3>1. SUFFICES ASSUME c + live[c] > AddressBlocks PROVE FALSE
      BY <2>1, AddressFacts DEF Blocks
    <3>2. AddressBlocks \in Owned(c) \ Blocks
      BY <2>1, <3>1, AddressFacts DEF Owned, Run, Blocks
    <3>3. AddressBlocks < ImageEntry
      BY <1>1, <1>3, <3>2 DEF MInv, KernelIntact
    <3>. QED
      BY <3>3, AddressFacts
  <2>. QED
    BY <2>1, <2>2, <2>3, MemoryIsRun DEF Owned
<1>. QED
  BY <1>3, <1>8, <1>9, <1>10

(* kzalloc clears memory of another allocation only where it destroys the  *)
(* kernel as well, and a size that wraps always makes it do that.          *)
THEOREM ZeroingIsLocal == Spec => ZeroesOnlyItsOwn
<1>1. Init => MInv
  <2>1. Init => \A b \in Blocks : Owned(b) = {}
    BY SMT DEF Init, Owned, Run, Blocks
  <2>. QED
    BY <2>1, InitIInv DEF MInv
<1>. QED
  BY <1>1, NextMInv, ZeroesOnlyItsOwnStep, PTL DEF Spec, ZeroesOnlyItsOwn

-----------------------------------------------------------------------------
(* The heap implements BlockAllocator. A grant maps to a grant because the *)
(* blocks found are nobody's; a refusal because blocks that nobody owns    *)
(* carry no flag, so a run of them would have been found.                  *)

(* The heap, empty, is the empty abstract allocator.                       *)
LEMMA InitRefines == Init => Promise!Init
  BY DEF Init, Promise!Init

(* What the table grants, the abstract allocator grants.                   *)
LEMMA GrantRefines ==
    ASSUME IInv, NEW n \in 0 .. SizeMod, MallocFound(n)
    PROVE  Promise!Next
<1>1. PICK b \in StartBlock(n) :
        live' = [live EXCEPT ![b] = n] /\ ret' = b /\ asked' = n
  BY DEF MallocFound
<1>2. b \in Blocks /\ live[b] = 0
      /\ \A c \in Blocks : Run(b, n) \cap Owned(c) = {}
  BY SizeModAssumption, StartBlockFree, FreeUnowned
<1>3. Promise!Grant(b, n)
  BY <1>1, <1>2 DEF Promise!Grant, Promise!Range, Owned, Run
<1>. QED
  BY <1>2, <1>3 DEF Promise!Next

(* What the table refuses, the abstract allocator may refuse.              *)
LEMMA RefuseRefines ==
    ASSUME IInv, NEW n \in 0 .. SizeMod, MallocFailed(n)
    PROVE  Promise!Next
<1>1. ASSUME NEW b \in Blocks, n > 0, Promise!FreeRun(b, n) PROVE FALSE
  <2>1. \A i \in Run(b, n) : i \in Blocks /\ \A c \in Blocks : i \notin Owned(c)
    BY <1>1 DEF Promise!FreeRun, Promise!Range, Run, Owned
  <2>2. \A i \in Run(b, n) : Free(i)
    BY <2>1 DEF IInv, TableEncodesLive, Free
  <2>3. b + n - 1 \in Run(b, n)
    BY <1>1, TotalAssumption, SizeModAssumption, SMT DEF Run, Blocks
  <2>4. FitsAt(b, n)
    BY <1>1, <2>1, <2>2, <2>3, TotalAssumption, SizeModAssumption, SMT
    DEF FitsAt, Run, Blocks
  <2>. QED
    BY <2>4 DEF MallocFailed, Fits
<1>2. Promise!Refuse(n)
  BY <1>1 DEF Promise!Refuse, MallocFailed
<1>. QED
  BY <1>2 DEF Promise!Next

(* A request asks for a number of blocks below the width of a size.        *)
LEMMA BlocksOfBound ==
    ASSUME NEW size \in Requests
    PROVE  BlocksOf(size) \in 0 .. SizeMod
<1>1. size \in Nat /\ size < SizeMod /\ SizeMod \in Nat \ {0} /\ BlockSize \in Nat \ {0}
  BY RequestsAssumption, SizeModAssumption, BlockSizeAssumption, SMT
<1>2. AlignUp(size) \in 0 .. SizeMod
  BY <1>1, SMT DEF AlignUp
<1>. QED
  BY <1>1, <1>2, SMT DEF BlocksOf

(* Every step of the heap is a step of the abstract allocator.             *)
LEMMA NextRefines == IInv /\ [Next]_vars => [Promise!Next]_(Promise!vars)
<1>. SUFFICES ASSUME IInv, [Next]_vars PROVE [Promise!Next]_(Promise!vars)
  OBVIOUS
<1>1. ASSUME NEW size \in Requests, KMalloc(size) \/ KZalloc(size)
      PROVE  Promise!Next
  BY <1>1, BlocksOfBound, GrantRefines, RefuseRefines DEF KMalloc, KZalloc
<1>2. ASSUME NEW b \in Blocks, KFree(b) PROVE Promise!Next
  BY <1>2 DEF KFree, Promise!Release, Promise!Next
<1>3. CASE UNCHANGED vars
  BY <1>3 DEF vars, Promise!vars
<1>. QED
  BY <1>1, <1>2, <1>3 DEF Next

(* kmalloc, kzalloc and kfree implement the allocator of whole blocks.     *)
THEOREM HeapKeepsPromise == Spec => KeepsPromise
  BY InitRefines, NextRefines, InvariantHolds, PTL
  DEF Spec, KeepsPromise, Promise!Spec

-----------------------------------------------------------------------------
(* The loop of heap_get_start_block.                                       *)

(* A set of natural numbers that is not empty has a least element: what    *)
(* the proof about the loop of heap_get_start_block goes by.               *)
LEMMA Least ==
    ASSUME NEW S \in SUBSET Nat, S # {}
    PROVE  \E k \in S : \A j \in S : k <= j
<1> DEFINE R == {ss \in Nat \X Nat : ss[1] < ss[2]}
<1>1. IsWellFoundedOn(R, Nat)
  BY NatLessThanWellFounded DEF OpToRel
<1>2. \E k \in S : \A j \in S : ~(<<j, k>> \in R)
  <2> HIDE DEF R
  <2>. QED BY <1>1, WFMin
<1>3. PICK k \in S : \A j \in S : ~(<<j, k>> \in R)
  BY <1>2
<1>4. ASSUME NEW j \in S PROVE k <= j
  <2>1. k \in Nat /\ j \in Nat OBVIOUS
  <2>2. ~(<<j, k>> \in R) BY <1>3
  <2>3. <<j, k>> \in Nat \X Nat BY <2>1
  <2>4. ~(j < k) BY <2>2, <2>3
  <2>. QED BY <2>1, <2>4
<1>. QED BY <1>4


(* The loop of heap_get_start_block as Scan states it, and a function that *)
(* records its first m turns.                                              *)
LoopStep(n, g) ==
    [i \in 0 .. Total |-> IF i = 0 THEN ScanBegin ELSE ScanStep(n, g[i - 1], i - 1)]

UpTo(n, m, g) ==
    /\ g = [i \in 0 .. m |-> g[i]]
    /\ g[0] = ScanBegin
    /\ \A i \in 1 .. m : g[i] = ScanStep(n, g[i - 1], i - 1)

(* Any number of turns can be recorded, so the recursive function of Scan  *)
(* exists.                                                                 *)
LEMMA LoopRuns ==
    ASSUME NEW n, NEW m \in Nat
    PROVE  \E g : UpTo(n, m, g)
<1>1. UpTo(n, 0, [i \in 0 .. 0 |-> ScanBegin])
  BY SMT DEF UpTo
<1>2. ASSUME NEW k \in Nat, NEW g, UpTo(n, k, g)
      PROVE  \E h : UpTo(n, k + 1, h)
  <2> DEFINE h == [i \in 0 .. (k + 1) |-> IF i <= k THEN g[i] ELSE ScanStep(n, g[k], k)]
  <2>1. h = [i \in 0 .. (k + 1) |-> h[i]]
    OBVIOUS
  <2>2. h[0] = ScanBegin
    BY <1>2 DEF UpTo
  <2>3. ASSUME NEW i \in 1 .. (k + 1) PROVE h[i] = ScanStep(n, h[i - 1], i - 1)
    <3>0. i \in Int /\ 1 <= i /\ i <= k + 1
      BY <2>3
    <3>1. i - 1 \in 0 .. (k + 1) /\ i - 1 <= k /\ i \in 0 .. (k + 1)
      BY <3>0
    <3>2. h[i - 1] = g[i - 1]
      BY <3>1
    <3>3. CASE i <= k
      <4>1. i \in 1 .. k
        BY <3>0, <3>3
      <4>2. g[i] = ScanStep(n, g[i - 1], i - 1)
        BY <1>2, <4>1 DEF UpTo
      <4>. QED
        BY <3>1, <3>2, <3>3, <4>2
    <3>4. CASE ~(i <= k)
      <4>1. i = k + 1 /\ i - 1 = k
        BY <3>4
      <4>. QED
        BY <3>1, <3>2, <4>1
    <3>. QED
      BY <3>3, <3>4
  <2> HIDE DEF h
  <2>. QED
    BY <2>1, <2>2, <2>3 DEF UpTo
<1> DEFINE S == {k \in Nat : ~\E g : UpTo(n, k, g)}
<1>3. SUFFICES ASSUME S # {} PROVE FALSE
  OBVIOUS
<1>4. PICK k \in S : \A j \in S : k <= j
  BY <1>3, Least
<1>5. k # 0
  BY <1>1
<1>6. k - 1 \in Nat /\ ~(k <= k - 1) /\ (k - 1) + 1 = k
  BY <1>5
<1>7. \E g : UpTo(n, k - 1, g)
  BY <1>4, <1>6
<1>. QED
  BY <1>2, <1>6, <1>7

(* Scan is the state after the last turn.                                  *)
LEMMA ScanUnrolled ==
    ASSUME NEW n
    PROVE  \E f : UpTo(n, Total, f) /\ Scan(n) = f[Total]
<1>0. Total \in Nat
  BY TotalAssumption
<1>1. \E g : g = LoopStep(n, g)
  <2>1. PICK g : UpTo(n, Total, g)
    BY <1>0, LoopRuns
  <2>2. LoopStep(n, g) = [i \in 0 .. Total |-> g[i]]
    <3>1. \A i \in 0 .. Total : i = 0 \/ i \in 1 .. Total
      BY <1>0
    <3>2. \A i \in 0 .. Total :
             g[i] = IF i = 0 THEN ScanBegin ELSE ScanStep(n, g[i - 1], i - 1)
      BY <2>1, <3>1 DEF UpTo
    <3>. QED
      BY <3>2 DEF LoopStep
  <2>. QED
    BY <2>1, <2>2 DEF UpTo
<1> DEFINE f == CHOOSE g : g = LoopStep(n, g)
<1>2. f = LoopStep(n, f)
  BY <1>1
<1>3. Scan(n) = f[Total]
  BY DEF Scan, LoopStep
<1> HIDE DEF f
<1>4. UpTo(n, Total, f)
  <2>1. f = [i \in 0 .. Total |-> IF i = 0 THEN ScanBegin ELSE ScanStep(n, f[i - 1], i - 1)]
    BY <1>2 DEF LoopStep
  <2>2. 0 \in 0 .. Total /\ \A i \in 1 .. Total : i \in 0 .. Total /\ i # 0
    BY <1>0
  <2>. QED
    BY <2>1, <2>2 DEF UpTo
<1>. QED
  BY <1>3, <1>4

(* What is true before turn i of the loop: the first run that fits has     *)
(* been found, or none ends before i and the state says whether block      *)
(* i - 1 is taken or where the free run that ends with it starts.          *)
NoneEndsBy(n, i) == \A c \in Blocks : FitsAt(c, n) => ~(c + n <= i)

ScanFound(n, s) ==
    /\ s.bc = n /\ s.bs \in Blocks
    /\ FitsAt(s.bs, n)
    /\ \A c \in Blocks : FitsAt(c, n) => s.bs <= c

ScanIdle(n, s, i) ==
    /\ s = ScanBegin
    /\ i > 0 => ~Free(i - 1)
    /\ NoneEndsBy(n, i)

ScanRunning(n, s, i) ==
    /\ s.bs \in 0 .. (i - 1) /\ s.bc = i - s.bs
    /\ n > 0 => s.bc < n
    /\ \A j \in s.bs .. (i - 1) : Free(j)
    /\ s.bs > 0 => ~Free(s.bs - 1)
    /\ NoneEndsBy(n, i)

ScanAt(n, s, i) == ScanFound(n, s) \/ ScanIdle(n, s, i) \/ ScanRunning(n, s, i)

(* A turn keeps the invariant of the loop.                                 *)
LEMMA TurnOfTheLoop ==
    ASSUME NEW n \in Nat, NEW i \in Blocks, NEW s, ScanAt(n, s, i)
    PROVE  ScanAt(n, ScanStep(n, s, i), i + 1)
<1>0. /\ Total \in Nat /\ i \in Nat /\ i + 1 <= Total /\ (i + 1) - 1 = i
      /\ \A c \in Blocks : c \in Nat /\ c < Total
  BY TotalAssumption DEF Blocks
<1>1. CASE ScanFound(n, s)
  <2>1. s.bc = n /\ s.bs # -1
    BY <1>0, <1>1 DEF ScanFound
  <2>2. ScanStep(n, s, i) = s
    BY <2>1 DEF ScanStep
  <2>. QED
    BY <1>1, <2>2 DEF ScanAt
<1>2. CASE ScanIdle(n, s, i) \/ ScanRunning(n, s, i)
  <2>1. ~(s.bc = n /\ s.bs # -1)
    BY <1>0, <1>2 DEF ScanIdle, ScanRunning, ScanBegin
  <2>2. NoneEndsBy(n, i)
    BY <1>2 DEF ScanIdle, ScanRunning
  <2>3. ASSUME NEW c \in Blocks, FitsAt(c, n), c + n <= i + 1
        PROVE  /\ c + n = i + 1 /\ c <= i /\ n > 0
               /\ \A j \in c .. i : Free(j)
    <3>1. ~(c + n <= i)
      BY <2>2, <2>3 DEF NoneEndsBy
    <3>2. c + n = i + 1 /\ c + n - 1 = i
      BY <1>0, <2>3, <3>1
    <3>3. n > 0 /\ \A j \in c .. (c + n - 1) : Free(j)
      BY <2>3 DEF FitsAt
    <3>4. c <= i
      BY <1>0, <3>2, <3>3
    <3>. QED
      BY <3>2, <3>3, <3>4
  <2>4. CASE ~Free(i)
    <3>1. ScanStep(n, s, i) = ScanBegin
      BY <2>1, <2>4 DEF ScanStep
    <3>2. ASSUME NEW c \in Blocks, FitsAt(c, n), c + n <= i + 1 PROVE FALSE
      <4>1. c <= i /\ \A j \in c .. i : Free(j)
        BY <2>3, <3>2
      <4>2. i \in c .. i
        BY <1>0, <4>1
      <4>. QED
        BY <2>4, <4>1, <4>2
    <3>3. NoneEndsBy(n, i + 1)
      BY <3>2 DEF NoneEndsBy
    <3>. QED
      BY <1>0, <2>4, <3>1, <3>3 DEF ScanAt, ScanIdle
  <2>5. CASE Free(i)
    <3> DEFINE b == IF s.bs = -1 THEN i ELSE s.bs
    <3>1. ScanStep(n, s, i) = [bc |-> s.bc + 1, bs |-> b]
      BY <2>1, <2>5 DEF ScanStep
    <3>2. /\ b \in Nat /\ b <= i /\ s.bc \in Nat /\ s.bc + 1 = (i + 1) - b
          /\ n > 0 => s.bc < n
          /\ b > 0 => ~Free(b - 1)
          /\ \A j \in b .. i : Free(j)
      <4>1. CASE ScanIdle(n, s, i)
        <5>1. s.bs = -1 /\ s.bc = 0 /\ b = i
          BY <4>1 DEF ScanIdle, ScanBegin
        <5>2. \A j \in i .. i : Free(j)
          <6>1. \A j \in i .. i : j = i
            BY <1>0
          <6>. QED
            BY <2>5, <6>1
        <5>3. i > 0 => ~Free(i - 1)
          BY <4>1 DEF ScanIdle
        <5>4. 0 + 1 = (i + 1) - i /\ i <= i /\ (n > 0 => 0 < n)
          BY <1>0
        <5> HIDE DEF b
        <5>. QED
          BY <1>0, <5>1, <5>2, <5>3, <5>4
      <4>2. CASE ScanRunning(n, s, i)
        <5>1. s.bs \in 0 .. (i - 1) /\ s.bc = i - s.bs
          BY <4>2 DEF ScanRunning
        <5>2. b = s.bs
          BY <1>0, <5>1
        <5>3. /\ n > 0 => s.bc < n
              /\ s.bs > 0 => ~Free(s.bs - 1)
              /\ \A j \in s.bs .. (i - 1) : Free(j)
          BY <4>2 DEF ScanRunning
        <5> HIDE DEF b
        <5>4. b \in Nat /\ b <= i /\ s.bc \in Nat /\ s.bc + 1 = (i + 1) - b
          BY <1>0, <5>1, <5>2
        <5>5. \A j \in b .. i : j \in b .. (i - 1) \/ j = i
          BY <1>0, <5>4
        <5>6. \A j \in b .. i : Free(j)
          BY <2>5, <5>2, <5>3, <5>5
        <5>. QED
          BY <5>2, <5>3, <5>4, <5>6
      <4>. QED
        BY <1>2, <4>1, <4>2
    <3> HIDE DEF b
    <3>3. ASSUME NEW c \in Blocks, FitsAt(c, n), c + n <= i + 1
          PROVE  c = b /\ s.bc + 1 = n
      <4>1. c \in Nat /\ c + n = i + 1 /\ c <= i /\ n > 0
        BY <1>0, <2>3, <3>3
      <4>2. \A j \in c .. i : Free(j)
        BY <2>3, <3>3
      <4>3. s.bc = i - b /\ s.bc < n
        BY <1>0, <3>2, <4>1
      <4>4. ~(c > b)
        BY <1>0, <3>2, <4>1, <4>3
      <4>5. ~(c < b)
        <5>1. SUFFICES ASSUME c < b PROVE FALSE
          OBVIOUS
        <5>2. b > 0 /\ b - 1 \in c .. i
          BY <1>0, <3>2, <4>1, <5>1
        <5>. QED
          BY <3>2, <4>2, <5>2
      <4>. QED
        BY <1>0, <3>2, <4>1, <4>3, <4>4, <4>5
    <3>4. CASE s.bc + 1 = n
      <4>1. b \in Blocks /\ b + n = i + 1 /\ b + n - 1 = i /\ n > 0
        BY <1>0, <3>2, <3>4 DEF Blocks
      <4>2. FitsAt(b, n)
        BY <1>0, <3>2, <4>1 DEF FitsAt
      <4>3. ASSUME NEW c \in Blocks, FitsAt(c, n) PROVE b <= c
        <5>1. CASE c + n <= i + 1
          BY <1>0, <3>2, <3>3, <4>3, <5>1
        <5>2. CASE ~(c + n <= i + 1)
          BY <1>0, <3>2, <4>1, <5>2
        <5>. QED
          BY <5>1, <5>2
      <4>4. ScanFound(n, [bc |-> s.bc + 1, bs |-> b])
        BY <3>4, <4>1, <4>2, <4>3 DEF ScanFound
      <4>. QED
        BY <3>1, <4>4 DEF ScanAt
    <3>5. CASE s.bc + 1 # n
      <4>1. NoneEndsBy(n, i + 1)
        BY <3>3, <3>5 DEF NoneEndsBy
      <4>2. b \in 0 .. ((i + 1) - 1) /\ (n > 0 => s.bc + 1 < n)
        BY <1>0, <3>2, <3>5
      <4>3. ScanRunning(n, [bc |-> s.bc + 1, bs |-> b], i + 1)
        BY <1>0, <3>2, <4>1, <4>2 DEF ScanRunning
      <4>. QED
        BY <3>1, <4>3 DEF ScanAt
    <3>. QED
      BY <3>4, <3>5
  <2>. QED
    BY <2>4, <2>5
<1>. QED
  BY <1>1, <1>2 DEF ScanAt

(* The loop ends with the first run that fits, or else with the start of   *)
(* the free run that reaches the end, if there is one.                     *)
LEMMA ScanFindsFirstFit ==
    ASSUME NEW n \in Nat
    PROVE  ScanStart(n) = StartBlock(n)
<1>0. Total \in Nat /\ Total > 0
  BY TotalAssumption
<1>1. PICK f : UpTo(n, Total, f) /\ Scan(n) = f[Total]
  BY ScanUnrolled
<1>2. ScanAt(n, f[Total], Total)
  <2> DEFINE S == {i \in 0 .. Total : ~ScanAt(n, f[i], i)}
  <2>1. SUFFICES ASSUME S # {} PROVE FALSE
    BY <1>0
  <2>2. S \in SUBSET Nat
    BY <1>0
  <2>3. \E i \in S : \A j \in S : i <= j
    <3> HIDE DEF S
    <3>. QED
      BY <2>1, <2>2, Least
  <2>4. PICK i \in S : \A j \in S : i <= j
    BY <2>3
  <2>5. ScanAt(n, f[0], 0)
    <3>1. f[0] = ScanBegin
      BY <1>1 DEF UpTo
    <3>2. NoneEndsBy(n, 0)
      BY <1>0 DEF NoneEndsBy, FitsAt, Blocks
    <3>. QED
      BY <3>1, <3>2 DEF ScanAt, ScanIdle
  <2>6. i \in Nat /\ i <= Total /\ i # 0
    BY <1>0, <2>5
  <2>7. i - 1 \in Blocks /\ i \in 1 .. Total /\ (i - 1) + 1 = i /\ i - 1 \in 0 .. Total
        /\ ~(i <= i - 1)
    BY <1>0, <2>6 DEF Blocks
  <2>8. ScanAt(n, f[i - 1], i - 1)
    BY <2>4, <2>7
  <2>9. f[i] = ScanStep(n, f[i - 1], i - 1)
    BY <1>1, <2>7 DEF UpTo
  <2>10. ScanAt(n, f[i], i)
    BY <2>7, <2>8, <2>9, TurnOfTheLoop
  <2>. QED
    BY <2>10
<1> DEFINE s == f[Total]
<1>3. ScanStart(n) = IF s.bs = -1 THEN {} ELSE {s.bs}
  BY <1>1 DEF ScanStart
<1>4. ScanAt(n, s, Total)
  BY <1>2
<1> HIDE DEF s
<1>5. CASE ScanFound(n, s)
  <2>1. s.bs \in Fits(n) /\ \A c \in Fits(n) : s.bs <= c /\ c \in Int
    BY <1>5 DEF ScanFound, Fits, Blocks
  <2>2. {b \in Fits(n) : \A c \in Fits(n) : b <= c} = {s.bs}
    BY <2>1
  <2>3. StartBlock(n) = {s.bs}
    BY <2>1, <2>2 DEF StartBlock
  <2>4. s.bs # -1
    BY <1>0, <1>5 DEF ScanFound, Blocks
  <2>. QED
    BY <1>3, <2>3, <2>4
<1>6. CASE NoneEndsBy(n, Total)
  <2>1. Fits(n) = {}
    BY <1>6 DEF NoneEndsBy, Fits, FitsAt
  <2>2. StartBlock(n) = TrailingRun
    BY <2>1 DEF StartBlock
  <2>3. CASE ScanIdle(n, s, Total)
    <3>1. ~Free(Total - 1)
      BY <1>0, <2>3 DEF ScanIdle
    <3>2. \A b \in Blocks : Total - 1 \in b .. (Total - 1)
      BY <1>0 DEF Blocks
    <3>3. TrailingRun = {}
      BY <3>1, <3>2 DEF TrailingRun
    <3>4. s.bs = -1
      BY <2>3 DEF ScanIdle, ScanBegin
    <3>. QED
      BY <1>3, <2>2, <3>3, <3>4
  <2>4. CASE ScanRunning(n, s, Total)
    <3>1. s.bs \in Blocks /\ s.bs \in Nat /\ s.bs # -1
      BY <1>0, <2>4 DEF ScanRunning, Blocks
    <3>2. s.bs \in TrailingRun
      BY <2>4, <3>1 DEF ScanRunning, TrailingRun
    <3>3. ASSUME NEW b \in TrailingRun PROVE b = s.bs
      <4>1. b \in Nat /\ b < Total /\ s.bs < Total
        BY <1>0, <3>1 DEF TrailingRun, Blocks
      <4>2. CASE b < s.bs
        <5>1. s.bs - 1 \in b .. (Total - 1) /\ s.bs > 0
          BY <1>0, <3>1, <4>1, <4>2
        <5>. QED
          BY <3>2, <5>1 DEF TrailingRun
      <4>3. CASE s.bs < b
        <5>1. b - 1 \in s.bs .. (Total - 1) /\ b > 0
          BY <1>0, <3>1, <4>1, <4>3
        <5>. QED
          BY <3>2, <5>1 DEF TrailingRun
      <4>. QED
        BY <3>1, <4>1, <4>2, <4>3
    <3>4. TrailingRun = {s.bs}
      BY <3>2, <3>3
    <3>. QED
      BY <1>3, <2>2, <3>1, <3>4
  <2>. QED
    BY <1>4, <1>5, <2>3, <2>4 DEF ScanAt
<1>. QED
  BY <1>4, <1>5, <1>6 DEF ScanAt, ScanIdle, ScanRunning

(* For every table and every number of blocks, the loop finds the start    *)
(* block that the specification of the allocator's answer names.           *)
THEOREM ScanCorrect == Spec => []ScanIsFirstFit
<1>1. ScanIsFirstFit
  <2>1. \A n \in 0 .. (Total + 1) : n \in Nat
    BY TotalAssumption
  <2>. QED
    BY <2>1, ScanFindsFirstFit DEF ScanIsFirstFit
<1>. QED
  BY <1>1, PTL
=============================================================================
