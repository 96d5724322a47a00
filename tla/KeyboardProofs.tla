--------------------------- MODULE KeyboardProofs ---------------------------
(***************************************************************************)
(* The keyboard buffer is a queue for every size, and whatever is typed:   *)
(* until it overruns. The inductive invariant is the one that makes the    *)
(* zero test of keyboard_pop sound: the slots that hold a key are those    *)
(* from head to tail. With it each handler is a step of KeyQueue.          *)
(***************************************************************************)
EXTENDS Keyboard, SequenceTheorems, TLAPS

KInv == TypeOK /\ KeysBetweenHeadAndTail

(* Two multiples of s less than s apart are one.                           *)
LEMMA Multiples ==
    ASSUME NEW s \in Nat \ {0}, NEW a \in Int, NEW b \in Int,
           s * a - s * b < s, s * b - s * a < s
    PROVE  a = b
<1>1. ASSUME NEW x \in Int, NEW y \in Int, x > y PROVE s * x - s * y >= s
  <2>1. PICK d \in Nat : x = y + 1 + d
    BY <1>1
  <2>2. s * x = s * y + s + s * d
    BY <2>1
  <2>3. s * d \in Nat /\ s * x \in Int /\ s * y \in Int
    BY <1>1
  <2>. QED
    BY <2>2, <2>3
<1>2. ~(a > b)
  BY <1>1
<1>3. ~(b > a)
  BY <1>1
<1>. QED
  BY <1>2, <1>3

(* A position of the ring is a number of turns and a slot.                 *)
LEMMA Euclid ==
    ASSUME NEW i \in Nat
    PROVE  /\ i \div Size \in Int /\ Slot(i) \in 0 .. (Size - 1)
           /\ i = Size * (i \div Size) + Slot(i)
  BY KeyboardAssumption DEF Slot

(* Indices less than a buffer apart do not share a slot.                   *)
LEMMA SlotsDiffer ==
    ASSUME NEW i \in Nat, NEW j \in Nat, Slot(i) = Slot(j), i - j < Size, j - i < Size
    PROVE  i = j
<1>1. i \div Size = j \div Size
  <2>. DEFINE a == i \div Size
              b == j \div Size
  <2>1. /\ Size \in Nat \ {0} /\ a \in Int /\ b \in Int
        /\ Slot(i) \in Int /\ Slot(j) \in Int
        /\ i = Size * a + Slot(i) /\ j = Size * b + Slot(j)
    <3>1. a \in Int /\ Slot(i) \in 0 .. (Size - 1) /\ i = Size * a + Slot(i)
      BY Euclid
    <3>2. b \in Int /\ Slot(j) \in 0 .. (Size - 1) /\ j = Size * b + Slot(j)
      BY Euclid
    <3>. HIDE DEF a, b
    <3>. QED
      BY <3>1, <3>2, KeyboardAssumption
  <2>. HIDE DEF a, b
  <2>2. Size * a - Size * b < Size /\ Size * b - Size * a < Size
    BY <2>1
  <2>3. a = b
    BY <2>1, <2>2, Multiples
  <2>. QED
    BY <2>3 DEF a, b
<1>. QED
  BY <1>1, Euclid

(* Indices a buffer apart share one.                                       *)
LEMMA SlotWraps ==
    ASSUME NEW i \in Nat
    PROVE  Slot(i + Size) = Slot(i)
<1>. DEFINE j == i + Size
            a == i \div Size
            b == j \div Size
<1>1. /\ Size \in Nat \ {0} /\ j \in Nat
      /\ a \in Int /\ b \in Int /\ Slot(i) \in 0 .. (Size - 1) /\ Slot(j) \in 0 .. (Size - 1)
      /\ i = Size * a + Slot(i) /\ j = Size * b + Slot(j)
  <2>1. j \in Nat /\ Size \in Nat \ {0}
    BY KeyboardAssumption
  <2>. QED
    BY <2>1, Euclid
<1>2. j = i + Size
  OBVIOUS
<1>. HIDE DEF j, a, b
<1>3. Size * (a + 1) = Size * a + Size
  BY <1>1
<1>4. Size * (a + 1) - Size * b < Size /\ Size * b - Size * (a + 1) < Size
  BY <1>1, <1>2, <1>3
<1>5. a + 1 = b
  BY <1>1, <1>4, Multiples
<1>6. Slot(j) = Slot(i)
  BY <1>1, <1>2, <1>3, <1>5
<1>. QED
  BY <1>6 DEF j

(* keyboard_push keeps the invariant.                                      *)
LEMMA PushKeepsKInv ==
    ASSUME KInv, NEW c \in Keys, Push(c), UNCHANGED head
    PROVE  /\ buffer' \in [0 .. (Size - 1) -> Keys \cup {NoKey}]
           /\ tail' \in Nat /\ overrun' \in BOOLEAN
           /\ KeysBetweenHeadAndTail'
<1>0. /\ buffer \in [0 .. (Size - 1) -> Keys \cup {NoKey}]
      /\ head \in Nat /\ tail \in Nat /\ overrun \in BOOLEAN
      /\ Size \in Nat \ {0} /\ NoKey \notin Keys
  BY KeyboardAssumption DEF KInv, TypeOK
<1>1. buffer' = [buffer EXCEPT ![Slot(tail)] = c] /\ tail' = tail + 1 /\ head' = head
  BY DEF Push
<1>2. overrun' \in BOOLEAN /\ (~overrun' => ~overrun /\ tail - head # Size)
  BY <1>0 DEF Push
<1>3. ASSUME ~overrun'
      PROVE  /\ head' <= tail' /\ tail' - head' <= Size
             /\ \A i \in head' .. (head' + Size - 1) : (buffer'[Slot(i)] # NoKey) = (i < tail')
  <2>1. head <= tail /\ tail - head < Size
    BY <1>0, <1>2, <1>3 DEF KInv, KeysBetweenHeadAndTail
  <2>2. ASSUME NEW i \in head .. (head + Size - 1)
        PROVE  (buffer'[Slot(i)] # NoKey) = (i < tail + 1)
    <3>1. i \in Nat /\ Slot(i) \in 0 .. (Size - 1) /\ Slot(tail) \in 0 .. (Size - 1)
      <4>1. i \in Nat
        BY <1>0
      <4>. QED
        BY <1>0, <4>1, Euclid
    <3>2. CASE i = tail
      BY <1>0, <1>1, <3>1, <3>2
    <3>3. CASE i # tail
      <4>1. Slot(i) # Slot(tail)
        BY <1>0, <2>1, <3>1, <3>3, SlotsDiffer
      <4>2. buffer'[Slot(i)] = buffer[Slot(i)]
        BY <1>0, <1>1, <3>1, <4>1
      <4>3. (buffer[Slot(i)] # NoKey) = (i < tail)
        BY <1>2, <1>3 DEF KInv, KeysBetweenHeadAndTail
      <4>. QED
        BY <1>0, <3>3, <4>2, <4>3
    <3>. QED
      BY <3>2, <3>3
  <2>. QED
    BY <1>0, <1>1, <2>1, <2>2
<1>4. buffer' \in [0 .. (Size - 1) -> Keys \cup {NoKey}] /\ tail' \in Nat
  <2>1. Slot(tail) \in 0 .. (Size - 1)
    BY <1>0, Euclid
  <2>. QED
    BY <1>0, <1>1, <2>1
<1>. QED
  BY <1>2, <1>3, <1>4 DEF KeysBetweenHeadAndTail

(* keyboard_pop keeps the invariant.                                       *)
LEMMA PopKeepsKInv ==
    ASSUME KInv, Pop
    PROVE  KInv'
<1>0. /\ buffer \in [0 .. (Size - 1) -> Keys \cup {NoKey}]
      /\ head \in Nat /\ tail \in Nat /\ overrun \in BOOLEAN
      /\ Size \in Nat \ {0} /\ NoKey \notin Keys
      /\ Slot(head) \in 0 .. (Size - 1)
  BY KeyboardAssumption, Euclid DEF KInv, TypeOK
<1>1. TypeOK'
  BY <1>0 DEF Pop, KInv, TypeOK
<1>2. CASE buffer[Slot(head)] = NoKey
  BY <1>1, <1>2 DEF Pop, KInv, KeysBetweenHeadAndTail
<1>3. CASE buffer[Slot(head)] # NoKey
  <2>1. /\ buffer' = [buffer EXCEPT ![Slot(head)] = NoKey] /\ head' = head + 1
        /\ tail' = tail /\ overrun' = overrun
    BY <1>3 DEF Pop
  <2>2. SUFFICES ASSUME ~overrun
        PROVE /\ head + 1 <= tail /\ tail - (head + 1) <= Size
              /\ \A i \in (head + 1) .. (head + Size) :
                    (buffer'[Slot(i)] # NoKey) = (i < tail)
    BY <1>0, <1>1, <2>1 DEF KInv, KeysBetweenHeadAndTail
  <2>3. /\ head <= tail /\ tail - head <= Size
        /\ \A i \in head .. (head + Size - 1) : (buffer[Slot(i)] # NoKey) = (i < tail)
    BY <2>2 DEF KInv, KeysBetweenHeadAndTail
  <2>4. head < tail
    BY <1>0, <1>3, <2>3
  <2>5. ASSUME NEW i \in (head + 1) .. (head + Size)
        PROVE  (buffer'[Slot(i)] # NoKey) = (i < tail)
    <3>1. CASE i = head + Size
      <4>1. Slot(i) = Slot(head)
        BY <1>0, <3>1, SlotWraps
      <4>. QED
        BY <1>0, <2>1, <2>3, <3>1, <4>1
    <3>2. CASE i # head + Size
      <4>1. i \in head .. (head + Size - 1) /\ i # head
        BY <1>0, <3>2
      <4>2. i \in Nat /\ head \in head .. (head + Size - 1)
        BY <1>0, <4>1
      <4>3. Slot(i) # Slot(head)
        BY <1>0, <4>1, <4>2, SlotsDiffer
      <4>4. Slot(i) \in 0 .. (Size - 1)
        BY <4>2, Euclid
      <4>. QED
        BY <1>0, <2>1, <2>3, <4>1, <4>3, <4>4
    <3>. QED
      BY <3>1, <3>2
  <2>. QED
    BY <1>0, <2>3, <2>4, <2>5
<1>. QED
  BY <1>2, <1>3

(* keyboard_backspace keeps the invariant.                                 *)
LEMMA BackspaceKeepsKInv ==
    ASSUME KInv, Backspace
    PROVE  KInv'
<1>0. /\ buffer \in [0 .. (Size - 1) -> Keys \cup {NoKey}]
      /\ head \in Nat /\ tail \in Nat /\ overrun \in BOOLEAN
      /\ Size \in Nat \ {0} /\ NoKey \notin Keys
  BY KeyboardAssumption DEF KInv, TypeOK
<1>1. /\ tail > head /\ tail' = tail - 1 /\ head' = head /\ overrun' = overrun
      /\ buffer' = [buffer EXCEPT ![Slot(tail - 1)] = NoKey]
  BY DEF Backspace
<1>2. TypeOK'
  <2>1. tail - 1 \in Nat
    BY <1>0, <1>1
  <2>2. Slot(tail - 1) \in 0 .. (Size - 1)
    BY <2>1, Euclid
  <2>3. buffer' \in [0 .. (Size - 1) -> Keys \cup {NoKey}]
    BY <1>0, <1>1
  <2>. QED
    BY <1>1, <2>1, <2>3 DEF Backspace, KInv, TypeOK
<1>3. ASSUME ~overrun, NEW i \in head .. (head + Size - 1)
      PROVE  (buffer'[Slot(i)] # NoKey) = (i < tail - 1)
  <2>1. /\ tail - 1 \in head .. (head + Size - 1)
        /\ (buffer[Slot(i)] # NoKey) = (i < tail)
    BY <1>0, <1>1, <1>3 DEF KInv, KeysBetweenHeadAndTail
  <2>2. i \in Nat /\ Slot(i) \in 0 .. (Size - 1)
    <3>1. i \in Nat
      BY <1>0
    <3>. QED
      BY <3>1, Euclid
  <2>3. CASE i = tail - 1
    BY <1>0, <1>1, <2>2, <2>3
  <2>4. CASE i # tail - 1
    <3>1. tail - 1 \in Nat /\ i - (tail - 1) < Size /\ (tail - 1) - i < Size
      BY <1>0, <2>1, <2>2
    <3>2. Slot(i) # Slot(tail - 1)
      BY <2>2, <2>4, <3>1, SlotsDiffer
    <3>. QED
      BY <1>0, <1>1, <2>1, <2>2, <2>4, <3>2
  <2>. QED
    BY <2>3, <2>4
<1>. QED
  BY <1>0, <1>1, <1>2, <1>3 DEF KInv, KeysBetweenHeadAndTail

(* Every step of the keyboard keeps the invariant.                         *)
LEMMA NextKInv == KInv /\ [Next]_vars => KInv'
<1>. SUFFICES ASSUME KInv, [Next]_vars PROVE KInv'
  OBVIOUS
<1>1. ASSUME NEW byte \in Bytes, Type(byte) PROVE KInv'
  <2>1. port' \in Seq(Bytes) /\ Len(port') <= PortSize
    BY <1>1, KeyboardAssumption DEF Type, KInv, TypeOK
  <2>. QED
    BY <1>1, <2>1 DEF Type, KInv, TypeOK, KeysBetweenHeadAndTail
<1>2. CASE HandleInterrupt
  <2>1. port' \in Seq(Bytes) /\ Len(port') <= PortSize
    <3>1. port \in Seq(Bytes) /\ port # <<>> /\ Len(port) <= PortSize
      BY <1>2 DEF HandleInterrupt, KInv, TypeOK
    <3>2. Tail(port) \in Seq(Bytes) /\ Len(Tail(port)) = Len(port) - 1
      BY <3>1, HeadTailProperties
    <3>3. Len(port) \in Nat /\ PortSize \in Nat
      BY <3>1, KeyboardAssumption, LenProperties
    <3>4. CASE port' = Tail(port)
      <4>1. Len(Tail(port)) <= PortSize
        BY <3>1, <3>2, <3>3
      <4>. QED
        BY <3>2, <3>4, <4>1, Zenon
    <3>5. CASE Len(port) > 1 /\ port' = Tail(Tail(port))
      <4>1. Tail(port) # <<>>
        <5>1. Len(Tail(port)) # 0
          BY <3>2, <3>3, <3>5
        <5>. QED
          BY <5>1, EmptySeq, Zenon
      <4>2. Tail(Tail(port)) \in Seq(Bytes) /\ Len(Tail(Tail(port))) = Len(port) - 2
        BY <3>2, <3>3, <4>1, HeadTailProperties
      <4>3. Len(Tail(Tail(port))) <= PortSize
        BY <3>1, <3>3, <4>2
      <4>. QED
        BY <3>5, <4>2, <4>3, Zenon
    <3>. QED
      BY <1>2, <3>4, <3>5 DEF HandleInterrupt
  <2>2. CASE UNCHANGED <<buffer, tail, overrun>>
    BY <1>2, <2>1, <2>2 DEF HandleInterrupt, KInv, TypeOK, KeysBetweenHeadAndTail
  <2>3. CASE Head(port).key # NoKey /\ Push(Head(port).key)
    <3>1. Head(port) \in Bytes
      BY <1>2 DEF HandleInterrupt, KInv, TypeOK
    <3>2. Head(port).key \in Keys
      BY <2>3, <3>1 DEF Bytes, Pressed, Released
    <3>. QED
      BY <1>2, <2>1, <2>3, <3>2, PushKeepsKInv DEF HandleInterrupt, KInv, TypeOK
  <2>. QED
    BY <1>2, <2>2, <2>3 DEF HandleInterrupt
<1>3. CASE Pop
  BY <1>3, PopKeepsKInv
<1>4. CASE Backspace
  BY <1>4, BackspaceKeepsKInv
<1>5. CASE UNCHANGED vars
  BY <1>5 DEF vars, KInv, TypeOK, KeysBetweenHeadAndTail
<1>. QED
  BY <1>1, <1>2, <1>3, <1>4, <1>5 DEF Next

(* The ring starts empty.                                                  *)
LEMMA InitKInv == Init => KInv
<1>. SUFFICES ASSUME Init PROVE KInv
  OBVIOUS
<1>1. \A i \in 0 .. (Size - 1) : Slot(i) \in 0 .. (Size - 1)
  BY Euclid
<1>2. port \in Seq(Bytes) /\ Len(port) = 0
  BY EmptySeq DEF Init
<1>3. TypeOK
  <2>1. Len(port) <= PortSize
    BY <1>2, KeyboardAssumption
  <2>. QED
    BY <1>2, <2>1, KeyboardAssumption DEF Init, TypeOK
<1>4. KeysBetweenHeadAndTail
  BY <1>1, KeyboardAssumption DEF Init, KeysBetweenHeadAndTail
<1>. QED
  BY <1>3, <1>4 DEF KInv

(* The buffer, the port and the answers of the keyboard keep their types.  *)
THEOREM KeyboardTypes == Spec => []TypeOK
<1>1. KInv => TypeOK
  BY DEF KInv
<1>. QED
  BY <1>1, InitKInv, NextKInv, PTL DEF Spec

(* Until a key is pushed into a full buffer of any size, the slots that    *)
(* hold a key are those from head to tail.                                 *)
THEOREM RingIsSound == Spec => []KeysBetweenHeadAndTail
<1>1. KInv => KeysBetweenHeadAndTail
  BY DEF KInv
<1>. QED
  BY <1>1, InitKInv, NextKInv, PTL DEF Spec

-----------------------------------------------------------------------------
(* The buffer of any size implements KeyQueue: each handler is one of its  *)
(* steps, until the buffer overruns. The invariant is what makes it so: a  *)
(* slot that pop finds empty is one that no key waits in.                  *)

(* What Waiting is, while the buffer has not overrun.                      *)
WaitingOk ==
    /\ tail - head \in Nat /\ tail - head <= Size
    /\ Waiting \in Seq(Keys) /\ Len(Waiting) = tail - head
    /\ \A i \in 1 .. (tail - head) : Waiting[i] = buffer[Slot(head + i - 1)]

(* The invariant of the ring implies it.                                   *)
LEMMA WaitingIs == KInv /\ ~overrun => WaitingOk
<1>. SUFFICES ASSUME KInv, ~overrun PROVE WaitingOk
  OBVIOUS
<1>1. /\ head \in Nat /\ tail \in Nat /\ Size \in Nat \ {0}
      /\ tail - head \in Nat /\ tail - head <= Size
      /\ buffer \in [0 .. (Size - 1) -> Keys \cup {NoKey}]
  BY KeyboardAssumption DEF KInv, TypeOK, KeysBetweenHeadAndTail
<1>2. ASSUME NEW i \in 1 .. (tail - head)
      PROVE  buffer[Slot(head + i - 1)] \in Keys
  <2>1. /\ head + i - 1 \in head .. (head + Size - 1) /\ head + i - 1 \in Nat
        /\ head + i - 1 < tail
    BY <1>1
  <2>2. buffer[Slot(head + i - 1)] # NoKey
    BY <2>1 DEF KInv, KeysBetweenHeadAndTail
  <2>3. Slot(head + i - 1) \in 0 .. (Size - 1)
    BY <2>1, Euclid
  <2>. QED
    BY <1>1, <2>2, <2>3
<1>3. Waiting \in Seq(Keys) /\ Len(Waiting) = tail - head
  BY <1>1, <1>2 DEF Waiting
<1>. QED
  BY <1>1, <1>3 DEF Waiting, WaitingOk

(* keyboard_push into a buffer that is not full puts the key behind the    *)
(* others; into a full one, it ends the promise.                           *)
LEMMA PushIsPut ==
    ASSUME KInv, KInv', ~overrun, NEW c \in Keys, Push(c), head' = head, answer' = answer
    PROVE  Promise!Next \/ (overrun /\ overrun')
<1>0. /\ head \in Nat /\ tail \in Nat /\ Size \in Nat \ {0}
      /\ buffer \in [0 .. (Size - 1) -> Keys \cup {NoKey}]
      /\ WaitingOk
  BY KeyboardAssumption, WaitingIs DEF KInv, TypeOK
<1> USE DEF WaitingOk
<1>1. /\ tail' = tail + 1 /\ buffer' = [buffer EXCEPT ![Slot(tail)] = c]
      /\ overrun' = (tail - head = Size)
  BY DEF Push
<1>2. CASE tail - head = Size
  <2>1. Len(IF overrun THEN <<>> ELSE Waiting) = Size
    BY <1>0, <1>2
  <2>2. Promise!Overrun
    BY <1>1, <1>2, <2>1 DEF Promise!Overrun
  <2>. QED
    BY <2>2 DEF Promise!Next
<1>3. CASE tail - head # Size
  <2>1. ~overrun'
    BY <1>1, <1>3
  <2>2. /\ Waiting' \in Seq(Keys) /\ Len(Waiting') = tail' - head'
        /\ \A i \in 1 .. (tail' - head') : Waiting'[i] = buffer'[Slot(head' + i - 1)]
    <3>1. KInv' /\ ~overrun' => WaitingOk'
      BY WaitingIs, PTL
    <3>. QED
      BY <2>1, <3>1 DEF WaitingOk
  <2>. DEFINE more == Append(Waiting, c)
  <2>3. /\ more \in Seq(Keys) /\ Len(more) = tail - head + 1
        /\ \A i \in 1 .. (tail - head) : more[i] = Waiting[i]
        /\ more[tail - head + 1] = c
    BY <1>0, AppendProperties
  <2>4. ASSUME NEW i \in 1 .. (tail - head + 1)
        PROVE  Waiting'[i] = more[i]
    <3>1. Waiting'[i] = buffer'[Slot(head + i - 1)] /\ i \in Nat /\ head + i - 1 \in Nat
      BY <1>0, <1>1, <2>2
    <3>2. CASE i = tail - head + 1
      <4>0. head + i - 1 = tail
        BY <1>0, <3>2
      <4>1. head + i - 1 = tail /\ Slot(tail) \in 0 .. (Size - 1)
        BY <1>0, <4>0, Euclid
      <4>2. buffer'[Slot(tail)] = c
        BY <1>0, <1>1, <4>1
      <4>. QED
        BY <2>3, <3>1, <3>2, <4>1, <4>2
    <3>3. CASE i # tail - head + 1
      <4>1. i \in 1 .. (tail - head) /\ head + i - 1 # tail
            /\ (head + i - 1) - tail < Size /\ tail - (head + i - 1) < Size
        BY <1>0, <1>3, <3>3
      <4>2. Slot(head + i - 1) # Slot(tail)
        BY <1>0, <3>1, <4>1, SlotsDiffer
      <4>3. Slot(head + i - 1) \in 0 .. (Size - 1) /\ Slot(tail) \in 0 .. (Size - 1)
        BY <1>0, <3>1, Euclid
      <4>4. buffer'[Slot(head + i - 1)] = buffer[Slot(head + i - 1)]
        BY <1>0, <1>1, <4>2, <4>3
      <4>. QED
        BY <2>3, <3>1, <4>1, <4>4, <1>0
    <3>. QED
      BY <3>2, <3>3
  <2>5. Waiting' = more
    <3>. HIDE DEF more
    <3>1. Len(Waiting') = Len(more) /\ Len(more) = tail - head + 1
      BY <1>0, <1>1, <2>2, <2>3
    <3>. QED
      BY <2>2, <2>3, <2>4, <3>1, SeqEqual
  <2>6. Len(Waiting) < Size
    BY <1>0, <1>3
  <2>7. Promise!Put(c)
    <3>1. (IF overrun THEN <<>> ELSE Waiting)' = Waiting'
      BY <2>1
    <3>2. (IF overrun THEN <<>> ELSE Waiting) = Waiting
      OBVIOUS
    <3>3. overrun' = overrun
      BY <2>1 DEF KInv, TypeOK
    <3>. QED
      BY <2>5, <2>6, <3>1, <3>2, <3>3 DEF Promise!Put
  <2>. QED
    BY <2>7 DEF Promise!Next
<1>. QED
  BY <1>2, <1>3

(* keyboard_pop takes the oldest key, or finds none.                       *)
LEMMA PopIsRead ==
    ASSUME KInv, KInv', ~overrun, Pop
    PROVE  Promise!Next \/ (overrun /\ overrun')
<1>0. /\ head \in Nat /\ tail \in Nat /\ Size \in Nat \ {0}
      /\ buffer \in [0 .. (Size - 1) -> Keys \cup {NoKey}]
      /\ Slot(head) \in 0 .. (Size - 1) /\ NoKey \notin Keys
      /\ WaitingOk
  BY KeyboardAssumption, WaitingIs, Euclid DEF KInv, TypeOK
<1> USE DEF WaitingOk
<1>1. overrun' = overrun /\ tail' = tail /\ answer' = buffer[Slot(head)]
  BY DEF Pop
<1>2. (buffer[Slot(head)] # NoKey) = (head < tail)
  <2>1. head \in head .. (head + Size - 1)
    BY <1>0
  <2>. QED
    BY <2>1 DEF KInv, KeysBetweenHeadAndTail
<1>3. /\ (IF overrun THEN <<>> ELSE Waiting)' = Waiting'
      /\ (IF overrun THEN <<>> ELSE Waiting) = Waiting
  BY <1>1
<1>4. CASE buffer[Slot(head)] = NoKey
  <2>1. tail - head = 0
    BY <1>0, <1>2, <1>4
  <2>2. Waiting = <<>>
    BY <1>0, <2>1, EmptySeq
  <2>3. Waiting' = Waiting
    BY <1>1, <1>4 DEF Pop, Waiting
  <2>4. Promise!Read
    BY <1>1, <1>3, <1>4, <2>2, <2>3 DEF Promise!Read
  <2>. QED
    BY <2>4 DEF Promise!Next
<1>5. CASE buffer[Slot(head)] # NoKey
  <2>1. head < tail /\ tail - head \in Nat \ {0}
    BY <1>0, <1>2, <1>5
  <2>2. buffer' = [buffer EXCEPT ![Slot(head)] = NoKey] /\ head' = head + 1
    BY <1>5 DEF Pop
  <2>3. /\ Waiting # <<>>
        /\ Tail(Waiting) \in Seq(Keys) /\ Len(Tail(Waiting)) = tail - head - 1
        /\ \A i \in 1 .. (tail - head - 1) : Tail(Waiting)[i] = Waiting[i + 1]
    <3>1. Waiting # <<>>
      BY <1>0, <2>1, EmptySeq
    <3>. QED
      BY <1>0, <3>1, HeadTailProperties
  <2>4. Head(Waiting) = buffer[Slot(head)]
    <3>1. Head(Waiting) = Waiting[1] /\ 1 \in 1 .. (tail - head)
      BY <1>0, <2>1, <2>3
    <3>2. Waiting[1] = buffer[Slot(head + 1 - 1)] /\ head + 1 - 1 = head
      BY <1>0, <3>1
    <3>. QED
      BY <3>1, <3>2
  <2>5. WaitingOk'
    <3>1. KInv' /\ ~overrun' => WaitingOk'
      BY WaitingIs, PTL
    <3>. QED
      BY <1>1, <3>1
  <2>6. ASSUME NEW i \in 1 .. (tail - head - 1)
        PROVE  Waiting'[i] = Tail(Waiting)[i]
    <3>1. /\ i \in Nat /\ i + 1 \in 1 .. (tail - head) /\ head + i \in Nat
          /\ tail' - head' = tail - head - 1
      BY <1>0, <1>1, <2>1, <2>2
    <3>2. Waiting'[i] = buffer'[Slot(head' + i - 1)] /\ head' + i - 1 = head + i
      BY <1>0, <2>2, <2>5, <3>1
    <3>3. Waiting[i + 1] = buffer[Slot(head + (i + 1) - 1)] /\ head + (i + 1) - 1 = head + i
      BY <1>0, <3>1
    <3>4. head + i # head /\ head + i - head < Size /\ head - (head + i) < Size
      BY <1>0, <3>1
    <3>5. Slot(head + i) # Slot(head) /\ Slot(head + i) \in 0 .. (Size - 1)
      <4>1. Slot(head + i) # Slot(head)
        BY <1>0, <3>1, <3>4, SlotsDiffer
      <4>2. Slot(head + i) \in 0 .. (Size - 1)
        BY <3>1, Euclid
      <4>. QED
        BY <4>1, <4>2
    <3>6. buffer'[Slot(head + i)] = buffer[Slot(head + i)]
      BY <1>0, <2>2, <3>5
    <3>. QED
      BY <2>3, <3>2, <3>3, <3>6
  <2>7. Waiting' = Tail(Waiting)
    <3>1. /\ Waiting' \in Seq(Keys) /\ Len(Waiting') = tail - head - 1
      BY <1>0, <1>1, <2>2, <2>5
    <3>. QED
      BY <2>3, <2>6, <3>1, SeqEqual
  <2>8. Promise!Read
    BY <1>1, <1>3, <2>3, <2>4, <2>7 DEF Promise!Read
  <2>. QED
    BY <2>8 DEF Promise!Next
<1>. QED
  BY <1>4, <1>5

(* keyboard_backspace takes the youngest.                                  *)
LEMMA BackspaceIsRubOut ==
    ASSUME KInv, KInv', ~overrun, Backspace
    PROVE  Promise!Next \/ (overrun /\ overrun')
<1>0. /\ head \in Nat /\ tail \in Nat /\ Size \in Nat \ {0} /\ tail > head
      /\ buffer \in [0 .. (Size - 1) -> Keys \cup {NoKey}]
      /\ WaitingOk
  BY KeyboardAssumption, WaitingIs DEF KInv, TypeOK, Backspace
<1> USE DEF WaitingOk
<1>1. /\ overrun' = overrun /\ head' = head /\ answer' = answer /\ tail' = tail - 1
      /\ buffer' = [buffer EXCEPT ![Slot(tail - 1)] = NoKey]
  BY DEF Backspace
<1>2. WaitingOk'
  <2>1. KInv' /\ ~overrun' => WaitingOk'
    BY WaitingIs, PTL
  <2>. QED
    BY <1>1, <2>1
<1>. DEFINE less == SubSeq(Waiting, 1, Len(Waiting) - 1)
<1>3. /\ less \in Seq(Keys) /\ Len(less) = tail - head - 1
      /\ \A i \in 1 .. (tail - head - 1) : less[i] = Waiting[i]
  BY <1>0
<1>4. ASSUME NEW i \in 1 .. (tail - head - 1)
      PROVE  Waiting'[i] = less[i]
  <2>1. /\ i \in Nat /\ i \in 1 .. (tail - head) /\ head + i - 1 \in Nat
        /\ tail - 1 \in Nat /\ tail' - head' = tail - head - 1
    BY <1>0, <1>1
  <2>2. Waiting'[i] = buffer'[Slot(head + i - 1)]
    BY <1>1, <1>2, <2>1
  <2>3. Waiting[i] = buffer[Slot(head + i - 1)]
    BY <1>0, <2>1
  <2>4. /\ head + i - 1 # tail - 1
        /\ (head + i - 1) - (tail - 1) < Size /\ (tail - 1) - (head + i - 1) < Size
    BY <1>0, <2>1
  <2>5. Slot(head + i - 1) # Slot(tail - 1)
    BY <2>1, <2>4, SlotsDiffer
  <2>6. Slot(head + i - 1) \in 0 .. (Size - 1) /\ Slot(tail - 1) \in 0 .. (Size - 1)
    BY <2>1, Euclid
  <2>7. buffer'[Slot(head + i - 1)] = buffer[Slot(head + i - 1)]
    BY <1>0, <1>1, <2>5, <2>6
  <2>. QED
    BY <1>3, <2>2, <2>3, <2>7
<1>5. Waiting' = less
  <2>1. Waiting' \in Seq(Keys) /\ Len(Waiting') = tail - head - 1
    BY <1>0, <1>1, <1>2
  <2>. HIDE DEF less
  <2>. QED
    BY <1>3, <1>4, <2>1, SeqEqual
<1>6. Waiting # <<>>
  BY <1>0, EmptySeq
<1>7. /\ (IF overrun THEN <<>> ELSE Waiting)' = Waiting'
      /\ (IF overrun THEN <<>> ELSE Waiting) = Waiting
  BY <1>1
<1>8. Promise!RubOut
  BY <1>1, <1>5, <1>6, <1>7 DEF Promise!RubOut
<1>. QED
  BY <1>8 DEF Promise!Next

(* Every step of the keyboard is one of the queue, or comes to or after an *)
(* overrun.                                                                *)
LEMMA QueueStep ==
    ASSUME KInv, KInv', [Next]_vars
    PROVE  [Promise!Next \/ (overrun /\ overrun')]_(Promise!vars)
<1>0. CASE overrun
  BY <1>0 DEF Next, Type, HandleInterrupt, Push, Pop, Backspace, vars
<1>1. CASE ~overrun /\ UNCHANGED <<buffer, head, tail, answer, overrun>>
  BY <1>1 DEF Promise!vars, Waiting
<1>2. ASSUME ~overrun, NEW byte \in Bytes, Type(byte)
      PROVE  UNCHANGED <<buffer, head, tail, answer, overrun>>
  BY <1>2 DEF Type
<1>3. CASE ~overrun /\ HandleInterrupt
  <2>1. CASE UNCHANGED <<buffer, tail, overrun>>
    BY <1>1, <1>3, <2>1 DEF HandleInterrupt
  <2>2. CASE Head(port).key # NoKey /\ Push(Head(port).key)
    <3>1. Head(port) \in Bytes
      BY <1>3 DEF HandleInterrupt, KInv, TypeOK
    <3>2. Head(port).key \in Keys
      BY <2>2, <3>1 DEF Bytes, Pressed, Released
    <3>. QED
      BY <1>3, <2>2, <3>2, PushIsPut DEF HandleInterrupt
  <2>. QED
    BY <1>3, <2>1, <2>2 DEF HandleInterrupt
<1>4. CASE ~overrun /\ Pop
  BY <1>4, PopIsRead
<1>5. CASE ~overrun /\ Backspace
  BY <1>5, BackspaceIsRubOut
<1>6. CASE UNCHANGED vars
  BY <1>0, <1>1, <1>6 DEF vars
<1>. QED
  BY <1>0, <1>1, <1>2, <1>3, <1>4, <1>5, <1>6 DEF Next

(* The empty buffer is the empty queue.                                    *)
LEMMA QueueStart == Init => Promise!Init
<1>. SUFFICES ASSUME Init PROVE Promise!Init
  OBVIOUS
<1>1. WaitingOk /\ ~overrun
  BY InitKInv, WaitingIs DEF Init
<1>2. Waiting = <<>>
  BY <1>1, EmptySeq DEF Init, WaitingOk
<1>. QED
  BY <1>2 DEF Init, Promise!Init

(* keyboard_push, keyboard_pop and keyboard_backspace, between any         *)
(* interrupts: the keys come out in the order they came in, each once,     *)
(* until the buffer overruns, whatever its size.                           *)
THEOREM KeyboardKeepsOrder == Spec => KeepsOrder
<1>1. KInv /\ KInv' /\ [Next]_vars => [Promise!Next \/ (overrun /\ overrun')]_(Promise!vars)
  BY QueueStep
<1>. QED
  BY <1>1, InitKInv, NextKInv, QueueStart, PTL DEF Spec, KeepsOrder, Promise!Spec
=============================================================================
