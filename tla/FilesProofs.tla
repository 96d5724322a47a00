---------------------------- MODULE FilesProofs -----------------------------
(***************************************************************************)
(* What holds of the open files for every heap, root directory, table of   *)
(* descriptors and sequence of calls, the allocations that fail included.  *)
(*                                                                         *)
(* An open descriptor stands on three pointers, each followed without a    *)
(* test. The inductive invariant says that the four structures exist, are  *)
(* allocated, and are nobody else's; that those fopen has made so far are  *)
(* too, and lie apart from every open file's; and what fopen may still     *)
(* count on after an allocation has failed: that the heap is full, so that *)
(* each later allocation of the call fails as well.                        *)
(***************************************************************************)
EXTENDS Files, HeapProofs, FiniteSetTheorems

Full == \A b \in Blocks : ~Free(b)
Held(b) == b \in Blocks /\ live[b] > 0

Pointers == Blocks \cup {NULL}
Locals == [path : Calls \cup {NoOpen.path}, n : Nat, slot : {0} \cup Used,
           str : Pointers, fat : Pointers, item : Pointers, dir : Pointers, list : Pointers]

FilesTyped ==
    /\ file_descriptors \in [Indices -> Pointers]
    /\ fo \in Locals
    /\ res \in -1 .. MaxDescriptors

(* The structures of the descriptor at d, and what makes them an open file.*)
Fat(d) == descs[d].private
Item(d) == fats[Fat(d)]
Clone(d) == items[Item(d)]
FileBlocks(d) == {d, Fat(d), Item(d), Clone(d)}

Whole(d) ==
    /\ d \in DOMAIN descs /\ Fat(d) \in DOMAIN fats
    /\ Item(d) \in DOMAIN items /\ Clone(d) \in DOMAIN clones
    /\ \A b \in FileBlocks(d) : Held(b)
    /\ d # Fat(d) /\ d # Item(d) /\ d # Clone(d)
    /\ Fat(d) # Item(d) /\ Fat(d) # Clone(d) /\ Item(d) # Clone(d)
    /\ clones[Clone(d)] \in Used

Open == {i \in Indices : file_descriptors[i] # NULL}
InUse == UNION {FileBlocks(file_descriptors[i]) : i \in Open}

OpenWhole ==
    /\ \A i \in Open : Whole(file_descriptors[i]) /\ descs[file_descriptors[i]].index = i + 1
    /\ \A i, j \in Open : i # j =>
          FileBlocks(file_descriptors[i]) \cap FileBlocks(file_descriptors[j]) = {}

(* fopen parses the path; where it stops short of its end, memory is out.  *)
HasItem == {"dir", "dir_items", "undo_dir", "clone", "descriptor"}
HasFat == {"find", "item"} \cup HasItem

PathSoFar ==
    /\ fo.n <= Len(fo.path.parts)
    /\ step = "part" => fo.n < Len(fo.path.parts)
    /\ step = "ended" => fo.n = Len(fo.path.parts) /\ fo.str \in Blocks
    /\ step \in {"parsed", "fat"} => fo.n = Len(fo.path.parts) \/ Full
    /\ step \in {"fat"} \cup HasFat => fo.n # 0
    /\ step \in HasFat => fo.n = Len(fo.path.parts)

(* Then it makes the structures one by one.                                *)
FatSoFar == step \in HasFat => Held(fo.fat) /\ fo.fat \in DOMAIN fats

ItemSoFar ==
    /\ step \in {"item"} \cup HasItem =>
          fo.slot \in Used /\ Root[fo.slot].name = fo.path.parts[1]
    /\ step \in HasItem => Held(fo.item) /\ fo.item \in DOMAIN items /\ fo.item # fo.fat

DirectorySoFar ==
    /\ step \in {"dir", "dir_items"} => Root[fo.slot].dir
    /\ step \in {"dir_items", "undo_dir"} => Held(fo.dir) /\ fo.dir \notin {fo.fat, fo.item}
    /\ step = "undo_dir" /\ fo.list # NULL =>
          /\ fo.list \in Blocks \ {fo.fat, fo.item}
          /\ live[fo.list] > 0 \/ Free(fo.list)

CloneSoFar ==
    step = "descriptor" =>
        /\ fo.n = 1 /\ fats[fo.fat] = fo.item
        /\ \/ items[fo.item] = NULL /\ Full
           \/ /\ Held(items[fo.item]) /\ items[fo.item] \notin InUse \cup {fo.fat, fo.item}
              /\ items[fo.item] \in DOMAIN clones /\ clones[items[fo.item]] = fo.slot

Pending == {fo.str, fo.fat, fo.item, fo.dir, fo.list}
Apart == (step = "idle" => fo = NoOpen) /\ Pending \cap InUse = {}

FopenSoFar == PathSoFar /\ FatSoFar /\ ItemSoFar /\ DirectorySoFar /\ CloneSoFar /\ Apart

FInv == IInv /\ FilesTyped /\ OpenWhole /\ FopenSoFar

-----------------------------------------------------------------------------
(* What the heap's steps do to the blocks that others own.                 *)

(* kzalloc grants a block that was free and nobody's, and leaves what the  *)
(* others own; of one block, it fails only when the heap is full.          *)
LEMMA Granted ==
    ASSUME IInv, NEW size \in Requests, KZalloc(size)
    PROVE  /\ IInv'
           /\ ret' \in Pointers
           /\ ret' = NULL => entries' = entries /\ live' = live
           /\ ret' = NULL /\ BlocksOf(size) = 1 => Full
           /\ Full /\ BlocksOf(size) = 1 => ret' = NULL
           /\ ret' # NULL => /\ ret' \in Blocks /\ live[ret'] = 0 /\ Free(ret')
                             /\ live' = [live EXCEPT ![ret'] = BlocksOf(size)]
                             /\ live'[ret'] = BlocksOf(size)
<1>1. IInv'
  BY AllocationKeepsIInv
<1>2. CASE MallocFound(BlocksOf(size))
  <2>1. PICK b \in StartBlock(BlocksOf(size)) :
          /\ live' = [live EXCEPT ![b] = BlocksOf(size)] /\ ret' = b
    BY <1>2 DEF MallocFound
  <2>2. b \in Blocks /\ Free(b) /\ live[b] = 0
    BY BlocksOfNat, StartBlockFree, FreeUnowned
  <2>3. ret' # NULL
    BY <2>1, <2>2, NULLAssumption, SMT DEF Blocks
  <2>4. ~Full
    BY <2>2 DEF Full
  <2>5. live'[b] = BlocksOf(size)
    BY <2>1, <2>2 DEF IInv, TypeOK
  <2>. QED
    BY <1>1, <2>1, <2>2, <2>3, <2>4, <2>5 DEF Pointers
<1>3. CASE MallocFailed(BlocksOf(size))
  <2>1. ret' = NULL /\ entries' = entries /\ live' = live /\ Fits(BlocksOf(size)) = {}
    BY <1>3 DEF MallocFailed
  <2>2. ASSUME BlocksOf(size) = 1, NEW b \in Blocks PROVE ~Free(b)
    <3>1. ~FitsAt(b, 1)
      BY <2>1, <2>2 DEF Fits
    <3>2. b + 1 <= Total /\ b .. (b + 1 - 1) = {b}
      BY TotalAssumption, SMT DEF Blocks
    <3>. QED
      BY <3>1, <3>2 DEF FitsAt
  <2>. QED
    BY <1>1, <2>1, <2>2 DEF Pointers, Full
<1>. QED
  BY <1>2, <1>3 DEF KZalloc

(* Releasing blocks that are in use, or that were never marked, leaves the *)
(* table faithful and every other block with its owner.                    *)
LEMMA FreeAllKeepsIInv ==
    ASSUME IInv, NEW S \in SUBSET Blocks, FreeAll(S),
           \A b \in S : live[b] > 0 \/ Free(b)
    PROVE  IInv'
<1>0. /\ live \in [Blocks -> Nat] /\ entries \in [Blocks -> SUBSET Flags]
      /\ past \subseteq Nat /\ ret \in Blocks \cup {NULL} /\ asked \in Nat
  BY DEF IInv, TypeOK
<1>1. \A i, c \in Blocks : i \in Owned(c) => ~Free(i)
  <2>1. SUFFICES ASSUME NEW i \in Blocks, NEW c \in Blocks, i \in Owned(c) PROVE ~Free(i)
    OBVIOUS
  <2>2. entries[i] = MarkedEntry(c, live[c], i)
    BY <2>1 DEF IInv, TableEncodesLive
  <2>. QED
    BY <2>2 DEF MarkedEntry, Free
<1>2. ASSUME NEW b \in S, NEW i \in Blocks
      PROVE  IF live[b] > 0 THEN i \in FreedFrom(b) <=> i \in Owned(b)
                            ELSE i \in FreedFrom(b) => entries[i] = {}
  <2>1. CASE live[b] > 0
    BY <2>1, FreedIsOwned
  <2>2. CASE ~(live[b] > 0)
    <3>1. Free(b)
      BY <2>2
    <3>2. entries[b] = {}
      BY <3>1, <1>1 DEF IInv, TableEncodesLive
    <3>3. ASSUME i \in FreedFrom(b), i # b PROVE FALSE
      <4>1. i >= b /\ \A j \in b .. (i - 1) : "has_next" \in entries[j]
        BY <3>3 DEF FreedFrom
      <4>2. b \in b .. (i - 1)
        BY <4>1, <3>3, SMT DEF Blocks
      <4>. QED
        BY <4>1, <4>2, <3>2
    <3>. QED
      BY <2>2, <3>2, <3>3
  <2>. QED
    BY <2>1, <2>2
<1>3. \A c \in Blocks : live'[c] = IF c \in S THEN 0 ELSE live[c]
  BY DEF FreeAll
<1>4. \A c \in Blocks : Owned(c)' = IF c \in S THEN {} ELSE Owned(c)
  <2>1. \A c \in Blocks : Run(c, 0) = {}
    BY SMT DEF Run, Blocks
  <2>. QED
    BY <2>1, <1>3 DEF Owned, Run
<1>5. ASSUME NEW i \in Blocks
      PROVE  entries'[i] = IF \E b \in S : i \in Owned(b) THEN {} ELSE entries[i]
  <2>1. entries'[i] = IF \E b \in S : i \in FreedFrom(b) THEN {} ELSE entries[i]
    BY DEF FreeAll
  <2>2. CASE \E b \in S : i \in Owned(b)
    <3>1. PICK b \in S : i \in Owned(b)
      BY <2>2
    <3>2. live[b] > 0
      BY <3>1, <1>0, SMT DEF Owned, Run, Blocks
    <3>. QED
      BY <2>1, <2>2, <3>1, <3>2, <1>2
  <2>3. CASE ~\E b \in S : i \in Owned(b)
    BY <2>1, <2>3, <1>2
  <2>. QED
    BY <2>2, <2>3
<1>6. TypeOK'
  <2>1. entries' \in [Blocks -> SUBSET Flags]
    BY <1>0 DEF FreeAll
  <2>2. live' \in [Blocks -> Nat]
    BY <1>0 DEF FreeAll
  <2>. QED
    BY <1>0, <2>1, <2>2 DEF FreeAll, TypeOK
<1>7. LiveDisjoint'
  BY <1>4 DEF IInv, LiveDisjoint
<1>8. TableEncodesLive'
  <2>1. SUFFICES ASSUME NEW i \in Blocks
        PROVE /\ entries'[i] = {} \/ \E c \in Blocks : i \in Owned(c)'
              /\ \A c \in Blocks :
                    i \in Owned(c)' => entries'[i] = MarkedEntry(c, live'[c], i)
    BY DEF TableEncodesLive
  <2>2. CASE \E b \in S : i \in Owned(b)
    BY <2>2, <1>4, <1>5 DEF IInv, LiveDisjoint
  <2>3. CASE ~\E b \in S : i \in Owned(b)
    BY <2>3, <1>3, <1>4, <1>5 DEF IInv, TableEncodesLive
  <2>. QED
    BY <2>2, <2>3
<1>. QED
  BY <1>6, <1>7, <1>8 DEF IInv

(* The blocks in use from the start are as faithfully marked.              *)
LEMMA BootIInv ==
    ASSUME NEW used \in BootSizes, BootInit(used)
    PROVE  IInv
<1>0. used \in 0 .. Total /\ Total \in Nat
  BY FilesAssumption, TotalAssumption
<1>1. \A b \in Blocks : Owned(b) = IF b < used THEN {b} ELSE {}
  <2>1. SUFFICES ASSUME NEW b \in Blocks PROVE Owned(b) = IF b < used THEN {b} ELSE {}
    OBVIOUS
  <2>2. live[b] = IF b < used THEN 1 ELSE 0
    BY DEF BootInit
  <2>3. b .. (b + 1 - 1) = {b} /\ b .. (b + 0 - 1) = {}
    BY SMT DEF Blocks
  <2>. QED
    BY <2>2, <2>3 DEF Owned, Run
<1>2. TypeOK
  BY SMT DEF BootInit, TypeOK, Flags
<1>3. LiveDisjoint
  BY <1>1 DEF LiveDisjoint
<1>4. TableEncodesLive
  <2>1. SUFFICES ASSUME NEW i \in Blocks
        PROVE /\ entries[i] = {} \/ \E b \in Blocks : i \in Owned(b)
              /\ \A b \in Blocks : i \in Owned(b) => entries[i] = MarkedEntry(b, live[b], i)
    BY DEF TableEncodesLive
  <2>2. CASE i < used
    <3>1. entries[i] = {"taken", "is_first"} /\ live[i] = 1
      BY <2>2 DEF BootInit
    <3>2. MarkedEntry(i, 1, i) = {"taken", "is_first"}
      BY SMT DEF MarkedEntry, Blocks
    <3>. QED
      BY <2>2, <3>1, <3>2, <1>1
  <2>3. CASE ~(i < used)
    BY <2>3, <1>1 DEF BootInit
  <2>. QED
    BY <2>2, <2>3
<1>. QED
  BY <1>2, <1>3, <1>4 DEF IInv

-----------------------------------------------------------------------------
(* What leaves the open files alone.                                       *)

Kept(f, g, S) == \A b \in S : b \in DOMAIN f => b \in DOMAIN g /\ g[b] = f[b]

(* Writing a structure at a block keeps those at the others.               *)
LEMMA WritesKeep ==
    ASSUME NEW f, NEW x, NEW y, NEW S, x \notin S
    PROVE  Kept(f, f, S) /\ Kept(f, Put(f, x, y), S) /\ Kept(f, [f EXCEPT ![x] = y], S)
  BY DEF Kept, Put

StructuresKept ==
    /\ Kept(descs, descs', InUse) /\ Kept(fats, fats', InUse)
    /\ Kept(items, items', InUse) /\ Kept(clones, clones', InUse)

(* An open file is its slot, its four structures and their blocks: a step  *)
(* that keeps these keeps it, and the file it stands for.                  *)
LEMMA OpenFilesKept ==
    ASSUME OpenWhole, UNCHANGED file_descriptors, StructuresKept,
           \A b \in InUse : live'[b] = live[b]
    PROVE  /\ OpenWhole' /\ InUse' = InUse
           /\ \A i \in Open : FileOf(file_descriptors[i])' = FileOf(file_descriptors[i])
<1>1. Open' = Open
  BY DEF Open
<1>2. ASSUME NEW i \in Open, NEW d, d = file_descriptors[i]
      PROVE  /\ Whole(d) /\ FileBlocks(d) \subseteq InUse
             /\ d \in DOMAIN descs' /\ descs'[d] = descs[d]
             /\ Fat(d) \in DOMAIN fats' /\ fats'[Fat(d)] = fats[Fat(d)]
             /\ Item(d) \in DOMAIN items' /\ items'[Item(d)] = items[Item(d)]
             /\ Clone(d) \in DOMAIN clones' /\ clones'[Clone(d)] = clones[Clone(d)]
  <2>1. Whole(d) /\ FileBlocks(d) \subseteq InUse
    BY <1>2 DEF OpenWhole, InUse
  <2>2. d \in InUse /\ Fat(d) \in InUse /\ Item(d) \in InUse /\ Clone(d) \in InUse
    BY <2>1 DEF FileBlocks
  <2>. QED
    BY <2>1, <2>2 DEF Whole, StructuresKept, Kept
<1>3. ASSUME NEW i \in Open, NEW d, d = file_descriptors[i]
      PROVE  /\ Fat(d)' = Fat(d) /\ Item(d)' = Item(d) /\ Clone(d)' = Clone(d)
             /\ FileBlocks(d)' = FileBlocks(d)
             /\ FileOf(d)' = FileOf(d)
  <2>1. Fat(d)' = Fat(d)
    BY <1>2, <1>3 DEF Fat
  <2>2. Item(d)' = Item(d)
    BY <1>2, <1>3, <2>1 DEF Item
  <2>3. Clone(d)' = Clone(d)
    BY <1>2, <1>3, <2>2 DEF Clone
  <2>4. FileOf(d) = clones[Clone(d)] /\ FileOf(d)' = clones'[Clone(d)']
    BY DEF FileOf, Clone, Item, Fat
  <2>5. clones'[Clone(d)] = clones[Clone(d)]
    BY <1>2, <1>3
  <2>. QED
    BY <2>1, <2>2, <2>3, <2>4, <2>5 DEF FileBlocks
<1>4. \A i \in Open : FileBlocks(file_descriptors[i])' = FileBlocks(file_descriptors[i])
  BY <1>3
<1>5. InUse' = InUse
  BY <1>1, <1>4 DEF InUse
<1>6. \A i \in Open : Whole(file_descriptors[i])'
  <2>1. SUFFICES ASSUME NEW i \in Open, NEW d, d = file_descriptors[i] PROVE Whole(d)'
    OBVIOUS
  <2>2. \A b \in FileBlocks(d) : Held(b) /\ live'[b] = live[b]
    BY <2>1, <1>2 DEF Whole
  <2>. QED
    BY <2>1, <2>2, <1>2, <1>3 DEF Whole, Held
<1>7. \A i \in Open : (descs[file_descriptors[i]].index)' = descs[file_descriptors[i]].index
  BY <1>2
<1>8. OpenWhole'
  BY <1>1, <1>4, <1>6, <1>7 DEF OpenWhole
<1>9. \A i \in Open : FileOf(file_descriptors[i])' = FileOf(file_descriptors[i])
  BY <1>3
<1>. QED
  BY <1>5, <1>8, <1>9

(* Nothing in use is null, and what kzalloc grants is not in use.          *)
LEMMA InUseHeld ==
    ASSUME OpenWhole
    PROVE  NULL \notin InUse /\ \A b \in InUse : Held(b)
  BY NULLAssumption, SMT DEF OpenWhole, InUse, Whole, Held, Blocks

(* kzalloc grants a block nobody uses, and leaves the others alone.        *)
LEMMA GrantedApart ==
    ASSUME FInv, NEW size \in Requests, KZalloc(size)
    PROVE  /\ ret' \notin InUse
           /\ \A b : Held(b) => b # ret' /\ Held(b)' /\ live'[b] = live[b]
<1>1. /\ ret' = NULL => live' = live
      /\ ret' # NULL => live[ret'] = 0 /\ live' = [live EXCEPT ![ret'] = BlocksOf(size)]
  BY Granted DEF FInv
<1>2. \A b : Held(b) => b # ret' /\ live'[b] = live[b]
  <2>1. live \in [Blocks -> Nat] /\ NULL \notin Blocks
    BY NULLAssumption, SMT DEF FInv, IInv, TypeOK, Blocks
  <2>. QED
    BY <1>1, <2>1 DEF Held
<1>3. ret' \notin InUse
  BY <1>2, InUseHeld DEF FInv
<1>. QED
  BY <1>2, <1>3 DEF Held

(* An allocation leaves the open files as they are.                        *)
LEMMA AllocationKeepsOpenFiles ==
    ASSUME FInv, NEW size \in Requests, KZalloc(size),
           UNCHANGED file_descriptors, StructuresKept
    PROVE  IInv' /\ OpenWhole' /\ InUse' = InUse /\ ret' \in Pointers
<1>1. \A b \in InUse : live'[b] = live[b]
  BY GrantedApart, InUseHeld DEF FInv
<1>. QED
  BY <1>1, OpenFilesKept, Granted DEF FInv

(* A step of fopen that leaves the heap alone.                             *)
LEMMA QuietKeepsOpenFiles ==
    ASSUME FInv, UNCHANGED <<vars, file_descriptors, memoryVars>>
    PROVE  IInv' /\ OpenWhole' /\ InUse' = InUse /\ Full' = Full
<1>1. IInv'
  BY DEF FInv, IInv, vars, TypeOK, LiveDisjoint, TableEncodesLive, Owned
<1>2. StructuresKept
  BY DEF StructuresKept, Kept, memoryVars
<1>3. Full' = Full
  BY DEF Full, Free, vars
<1>. QED
  BY <1>1, <1>2, <1>3, OpenFilesKept DEF FInv, vars

(* Where fopen returns, it has nothing left to keep.                       *)
LEMMA ReturnEndsFopen ==
    ASSUME OpenWhole', (file_descriptors \in [Indices -> Pointers])',
           NEW n \in -1 .. MaxDescriptors, Return(n)
    PROVE  FilesTyped' /\ FopenSoFar'
<1>1. step' = "idle" /\ fo' = NoOpen /\ res' = n
  BY DEF Return
<1>2. NoOpen \in Locals /\ NoOpen.n = 0 /\ Len(NoOpen.path.parts) = 0
  BY DEF NoOpen, Locals, Pointers
<1>3. Pending' = {NULL}
  BY <1>1 DEF Pending, NoOpen
<1>4. NULL \notin InUse'
  <2>1. \A i \in Open' : \A b \in FileBlocks(file_descriptors[i])' : b \in Blocks
    BY DEF OpenWhole, Whole, Held
  <2>. QED
    BY <2>1, NULLAssumption, SMT DEF InUse, Blocks
<1>5. FilesTyped'
  BY <1>1, <1>2 DEF FilesTyped, Locals, Pointers, Blocks, Used, Indices
<1>6. FopenSoFar'
  BY <1>1, <1>2, <1>3, <1>4
  DEF FopenSoFar, PathSoFar, FatSoFar, ItemSoFar, DirectorySoFar, CloneSoFar, Apart,
      HasFat, HasItem
<1>. QED
  BY <1>5, <1>6

-----------------------------------------------------------------------------
(* The steps of fopen that parse the path.                                 *)

(* Until the first structure is made, only the path and the fact that the  *)
(* string is not part of an open file are at stake.                        *)
LEMMA StillParsing ==
    ASSUME IInv', OpenWhole', FilesTyped', PathSoFar',
           step' \in {"root", "string", "part", "ended", "parsed", "fat"},
           Pending' \cap InUse' = {}
    PROVE  FInv'
  BY DEF FInv, FopenSoFar, FatSoFar, ItemSoFar, DirectorySoFar, CloneSoFar, Apart,
         HasFat, HasItem

(* A structure of the file layer takes one block.                          *)
LEMMA StructSizeFits ==
    StructSize \in Requests /\ BlocksOf(StructSize) = 1
  BY FilesAssumption

(* Paths have as many parts as their length says.                          *)
LEMMA PathLength ==
    ASSUME FInv
    PROVE  Len(fo.path.parts) \in Nat /\ fo.n \in Nat
<1>1. fo.path \in Calls \cup {NoOpen.path} /\ fo.n \in Nat
  BY DEF FInv, FilesTyped, Locals
<1>2. Len(NoOpen.path.parts) \in Nat
  BY DEF NoOpen
<1>. QED
  BY <1>1, <1>2, FilesAssumption

(* The steps of fopen, one lemma each: the call.                           *)
LEMMA BeginOpenKeepsFInv ==
    ASSUME FInv, NEW path \in Calls, BeginOpen(path)
    PROVE  FInv'
<1>1. IInv' /\ OpenWhole' /\ InUse' = InUse
  BY QuietKeepsOpenFiles DEF BeginOpen
<1>2. /\ step' = "root" /\ fo' = [NoOpen EXCEPT !.path = path] /\ UNCHANGED res
      /\ UNCHANGED file_descriptors
  BY DEF BeginOpen, Goto
<1>3. fo' \in Locals
  BY <1>2 DEF Locals, NoOpen, Pointers
<1>4. FilesTyped'
  BY <1>2, <1>3
  DEF FInv, FilesTyped, Locals, Pointers, Blocks, Used, Indices
<1>5. PathSoFar'
  <2>1. fo'.n = 0 /\ fo'.path = path
    BY <1>2 DEF NoOpen
  <2>2. Len(path.parts) \in Nat
    BY FilesAssumption
  <2>. QED
    BY <1>2, <2>1, <2>2 DEF PathSoFar, HasFat, HasItem
<1>6. Pending' \cap InUse' = {}
  <2>1. Pending' = {NULL}
    BY <1>2 DEF Pending, NoOpen
  <2>. QED
    BY <1>1, <2>1, InUseHeld DEF FInv
<1>. QED
  BY <1>1, <1>2, <1>4, <1>5, <1>6, StillParsing

(* A path that cannot be parsed is refused at once.                        *)
LEMMA BadPathKeepsFInv ==
    ASSUME FInv, BadPath
    PROVE  FInv'
<1>1. IInv' /\ OpenWhole'
  BY QuietKeepsOpenFiles DEF BadPath
<1>2. (file_descriptors \in [Indices -> Pointers])' /\ 0 \in -1 .. MaxDescriptors
  BY FilesAssumption DEF BadPath, FInv, FilesTyped, Indices, Pointers, Blocks
<1>. QED
  BY <1>1, <1>2, ReturnEndsFopen DEF BadPath, FInv

(* The three allocations of the parser.                                    *)
LEMMA PathAllocationKeepsFInv ==
    ASSUME FInv, PathRoot \/ PartString \/ PartStruct
    PROVE  FInv'
<1>0. /\ KZalloc(StructSize) /\ StructSize \in Requests
      /\ UNCHANGED <<file_descriptors, descs, fats, items, clones>>
  BY StructSizeFits DEF PathRoot, PartString, PartStruct, memoryVars
<1>1. StructuresKept
  BY <1>0 DEF StructuresKept, Kept
<1>2. IInv' /\ OpenWhole' /\ InUse' = InUse /\ ret' \in Pointers /\ ret' \notin InUse
  BY <1>0, <1>1, AllocationKeepsOpenFiles, GrantedApart
<1>3. ret' = NULL => Full'
  BY <1>0, StructSizeFits, Granted DEF FInv, Full, Free
<1>4. (file_descriptors \in [Indices -> Pointers])' /\ 0 \in -1 .. MaxDescriptors
  BY <1>0, FilesAssumption DEF FInv, FilesTyped, Indices, Pointers, Blocks
<1>5. CASE step' = "idle"
  <2>1. Return(0)
    BY <1>5 DEF PathRoot, PartString, PartStruct, Goto
  <2>. QED
    BY <1>2, <1>4, <2>1, ReturnEndsFopen DEF FInv
<1>6. CASE step' # "idle"
  <2>0. fo \in Locals /\ Len(fo.path.parts) \in Nat /\ fo.n \in Nat
        /\ Pending \cap InUse = {} /\ fo.n <= Len(fo.path.parts)
    BY PathLength DEF FInv, FilesTyped, FopenSoFar, PathSoFar, Apart
  <2>1. CASE PathRoot
    <3>1. step' = "string" /\ fo' = fo /\ UNCHANGED res
      BY <1>6, <2>1 DEF PathRoot, Goto, Return
    <3>2. FilesTyped'
      BY <1>4, <3>1 DEF FInv, FilesTyped, Locals, Pointers, Blocks, Used
    <3>3. PathSoFar'
      BY <2>0, <3>1 DEF PathSoFar, HasFat, HasItem
    <3>. QED
      BY <1>2, <2>0, <3>1, <3>2, <3>3, StillParsing DEF Pending
  <2>2. CASE PartString
    <3>1. /\ fo' = [fo EXCEPT !.str = ret'] /\ UNCHANGED res
          /\ step' = IF ret' = NULL THEN "parsed"
                     ELSE IF fo.n < Len(fo.path.parts) THEN "part" ELSE "ended"
      BY <2>2 DEF PartString, Goto
    <3>2. fo' \in Locals /\ fo'.str = ret' /\ fo'.n = fo.n /\ fo'.path = fo.path
          /\ Pending' \subseteq Pending \cup {ret'}
      BY <1>2, <2>0, <3>1 DEF Locals, Pending
    <3>3. FilesTyped'
      BY <1>4, <3>1, <3>2 DEF FInv, FilesTyped, Locals, Pointers, Blocks, Used
    <3>4. ret' # NULL => ret' \in Blocks
      BY <1>2 DEF Pointers
    <3>5. PathSoFar'
      BY <1>3, <2>0, <3>1, <3>2, <3>4 DEF PathSoFar, HasFat, HasItem, Blocks
    <3>. QED
      BY <1>2, <2>0, <3>1, <3>2, <3>3, <3>5, StillParsing
  <2>3. CASE PartStruct
    <3>1. UNCHANGED res /\ step = "part"
      BY <1>6, <2>3 DEF PartStruct, Goto
    <3>2. CASE ret' = NULL
      <4>1. step' = "parsed" /\ fo' = fo
        BY <2>3, <3>2 DEF PartStruct, Goto
      <4>2. FilesTyped'
        BY <1>4, <3>1, <4>1 DEF FInv, FilesTyped, Locals, Pointers, Blocks, Used
      <4>3. PathSoFar'
        BY <1>3, <2>0, <3>2, <4>1 DEF PathSoFar, HasFat, HasItem
      <4>. QED
        BY <1>2, <2>0, <4>1, <4>2, <4>3, StillParsing DEF Pending
    <3>3. CASE ret' # NULL
      <4>1. step' = "string" /\ fo' = [fo EXCEPT !.n = @ + 1]
        BY <2>3, <3>3 DEF PartStruct, Goto
      <4>2. fo' \in Locals /\ fo'.n = fo.n + 1 /\ fo'.path = fo.path /\ Pending' = Pending
        BY <2>0, <4>1 DEF Locals, Pending
      <4>3. FilesTyped'
        BY <1>4, <3>1, <4>2 DEF FInv, FilesTyped, Locals, Pointers, Blocks, Used
      <4>4. fo.n < Len(fo.path.parts)
        BY <3>1 DEF FInv, FopenSoFar, PathSoFar
      <4>5. PathSoFar'
        BY <2>0, <4>1, <4>2, <4>4 DEF PathSoFar, HasFat, HasItem
      <4>. QED
        BY <1>2, <2>0, <4>1, <4>2, <4>3, <4>5, StillParsing
    <3>. QED
      BY <3>2, <3>3
  <2>. QED
    BY <2>1, <2>2, <2>3
<1>. QED
  BY <1>5, <1>6

(* kfree of a block that is not an open file's.                            *)
LEMMA PathEndedKeepsFInv ==
    ASSUME FInv, PathEnded
    PROVE  FInv'
<1>0. /\ KFree(fo.str) /\ step = "ended" /\ step' = "parsed" /\ fo' = fo
      /\ UNCHANGED <<res, file_descriptors, descs, fats, items, clones>>
  BY DEF PathEnded, Goto, memoryVars
<1>1. fo.str \in Blocks /\ fo.n = Len(fo.path.parts) /\ Pending \cap InUse = {}
  BY <1>0 DEF FInv, FopenSoFar, PathSoFar, Apart
<1>2. IInv'
  BY <1>0, <1>1, KFreeKeepsIInv DEF FInv
<1>3. \A b \in InUse : live'[b] = live[b]
  <2>1. fo.str \notin InUse
    BY <1>1 DEF Pending
  <2>2. \A b \in InUse : b \in Blocks
    BY InUseHeld DEF FInv, Held
  <2>. QED
    BY <1>0, <2>1, <2>2 DEF KFree, FInv, IInv, TypeOK
<1>4. OpenWhole' /\ InUse' = InUse
  BY <1>0, <1>3, OpenFilesKept DEF FInv, StructuresKept, Kept
<1>5. FilesTyped'
  BY <1>0 DEF FInv, FilesTyped, Locals, Pointers, Blocks, Used, Indices
<1>6. PathSoFar'
  <2>1. Len(fo.path.parts) \in Nat
    BY PathLength
  <2>. QED
    BY <1>0, <1>1, <2>1 DEF PathSoFar, HasFat, HasItem
<1>. QED
  BY <1>0, <1>1, <1>2, <1>4, <1>5, <1>6, StillParsing DEF Pending

(* The mode and the disk are looked at.                                    *)
LEMMA CheckPathKeepsFInv ==
    ASSUME FInv, CheckPath
    PROVE  FInv'
<1>1. IInv' /\ OpenWhole' /\ InUse' = InUse /\ Full' = Full /\ step = "parsed"
  BY QuietKeepsOpenFiles DEF CheckPath
<1>2. (file_descriptors \in [Indices -> Pointers])' /\ 0 \in -1 .. MaxDescriptors
  BY FilesAssumption DEF CheckPath, FInv, FilesTyped, Indices, Pointers, Blocks
<1>3. CASE Return(0)
  BY <1>1, <1>2, <1>3, ReturnEndsFopen DEF FInv
<1>4. CASE fo.n # 0 /\ Goto("fat", fo)
  <2>1. step' = "fat" /\ fo' = fo /\ UNCHANGED res
    BY <1>4 DEF Goto
  <2>2. FilesTyped'
    BY <1>2, <2>1 DEF FInv, FilesTyped, Locals, Pointers, Blocks, Used
  <2>3. PathSoFar'
    BY <1>1, <1>4, <2>1 DEF FInv, FopenSoFar, PathSoFar, HasFat, HasItem
  <2>. QED
    BY <1>1, <2>1, <2>2, <2>3, StillParsing DEF FInv, FopenSoFar, Apart, Pending
<1>. QED
  BY <1>3, <1>4 DEF CheckPath

-----------------------------------------------------------------------------
(* The steps of fopen that make the structures.                            *)

(* The search answers only with slots that are in use.                     *)
LEMMA MatchesUsed ==
    ASSUME NEW name, name # Deleted, NEW i \in Matches(name)
    PROVE  i \in Used /\ Root[i].name = name
<1>1. IsFiniteSet(1 .. Len(Root)) /\ Cardinality(1 .. Len(Root)) = Len(Root)
  <2>1. Len(Root) \in Nat
    BY FilesAssumption
  <2>2. 1 \in Int /\ Len(Root) \in Int
    BY <2>1
  <2>3. IsFiniteSet(1 .. Len(Root))
    BY <2>2, FS_Interval
  <2>4. Cardinality(1 .. Len(Root)) = IF 1 > Len(Root) THEN 0 ELSE Len(Root) - 1 + 1
    BY <2>2, FS_Interval
  <2>. QED
    BY <2>1, <2>3, <2>4, SMT
<1>2. Used \subseteq 1 .. Len(Root)
  BY FilesAssumption DEF Used
<1>3. Cardinality(Used) \in Nat /\ Cardinality(Used) <= Len(Root)
  BY <1>1, <1>2, FS_Subset, FS_CardinalityType
<1>4. i \in 1 .. Len(Root) /\ Root[i].name = name
  BY <1>3, FilesAssumption, SMT DEF Matches, Searched
<1>. QED
  BY <1>4, FilesAssumption DEF Used

(* A path that has been parsed names a file, and not a deleted one.        *)
LEMMA FirstPart ==
    ASSUME FInv, step \in HasFat
    PROVE  fo.path.parts[1] # Deleted
<1>1. Len(fo.path.parts) \in Nat /\ Len(fo.path.parts) # 0
  BY PathLength DEF FInv, FopenSoFar, PathSoFar
<1>2. fo.path \in Calls \cup {NoOpen.path} /\ Len(NoOpen.path.parts) = 0
  BY DEF FInv, FilesTyped, Locals, NoOpen
<1>3. 1 \in 1 .. Len(fo.path.parts)
  BY <1>1, SMT
<1>. QED
  BY <1>1, <1>2, <1>3, FilesAssumption

(* What fopen has made stays made while it goes on.                        *)
LEMMA StillOpening ==
    ASSUME FInv, step \in {"fat"} \cup HasFat, step' \in HasFat, fo'.n = fo.n,
           fo'.path = fo.path, fo.n = Len(fo.path.parts),
           IInv', OpenWhole', FilesTyped', Pending' \cap InUse' = {},
           FatSoFar', ItemSoFar', DirectorySoFar', CloneSoFar'
    PROVE  FInv'
<1>1. fo.n # 0 /\ Len(fo.path.parts) \in Nat
  BY PathLength DEF FInv, FopenSoFar, PathSoFar
<1>2. PathSoFar'
  BY <1>1 DEF PathSoFar, HasFat, HasItem
<1>3. Apart'
  BY DEF Apart, HasFat, HasItem
<1>. QED
  BY <1>2, <1>3 DEF FInv, FopenSoFar

(* fat16_open allocates its descriptor, or fails.                          *)
LEMMA FatDescriptorKeepsFInv ==
    ASSUME FInv, FatDescriptor
    PROVE  FInv'
<1>0. /\ KZalloc(StructSize) /\ StructSize \in Requests /\ step = "fat"
      /\ UNCHANGED <<file_descriptors, descs, items, clones>>
      /\ fats' = IF ret' = NULL THEN fats ELSE Put(fats, ret', NULL)
  BY StructSizeFits DEF FatDescriptor
<1>1. ret' \notin InUse
  BY <1>0, GrantedApart
<1>2. StructuresKept
  BY <1>0, <1>1, WritesKeep DEF StructuresKept
<1>3. IInv' /\ OpenWhole' /\ InUse' = InUse /\ ret' \in Pointers
  BY <1>0, <1>2, AllocationKeepsOpenFiles
<1>4. (file_descriptors \in [Indices -> Pointers])' /\ 0 \in -1 .. MaxDescriptors
  BY <1>0, FilesAssumption DEF FInv, FilesTyped, Indices, Pointers, Blocks
<1>5. CASE ret' = NULL
  BY <1>3, <1>4, <1>5, ReturnEndsFopen DEF FInv, FatDescriptor
<1>6. CASE ret' # NULL
  <2>1. step' = "find" /\ fo' = [fo EXCEPT !.fat = ret'] /\ UNCHANGED res
    BY <1>6 DEF FatDescriptor, Goto
  <2>2. fo \in Locals /\ Pending \cap InUse = {}
    BY DEF FInv, FilesTyped, FopenSoFar, Apart
  <2>3. /\ fo' \in Locals /\ fo'.fat = ret' /\ fo'.n = fo.n /\ fo'.path = fo.path
        /\ Pending' \subseteq Pending \cup {ret'}
    BY <1>3, <2>1, <2>2 DEF Locals, Pending
  <2>4. FilesTyped'
    BY <1>4, <2>1, <2>3 DEF FInv, FilesTyped, Locals, Pointers, Blocks, Used
  <2>5. ret' \in Blocks /\ live'[ret'] > 0 /\ ~Full
    BY <1>0, <1>6, Granted, StructSizeFits DEF FInv
  <2>6. fo.n = Len(fo.path.parts)
    BY <1>0, <2>5 DEF FInv, FopenSoFar, PathSoFar
  <2>7. FatSoFar'
    BY <1>0, <1>6, <2>3, <2>5 DEF FatSoFar, Held, Blocks, Put
  <2>8. ItemSoFar' /\ DirectorySoFar' /\ CloneSoFar'
    BY <2>1 DEF ItemSoFar, DirectorySoFar, CloneSoFar, HasItem
  <2>. QED
    BY <1>0, <1>1, <1>3, <2>1, <2>2, <2>3, <2>4, <2>6, <2>7, <2>8, StillOpening
    DEF HasFat, HasItem
<1>. QED
  BY <1>5, <1>6

(* The root directory is searched for the first part of the path.          *)
LEMMA FindKeepsFInv ==
    ASSUME FInv, Find
    PROVE  FInv'
<1>1. IInv' /\ OpenWhole' /\ InUse' = InUse /\ step = "find"
  BY QuietKeepsOpenFiles DEF Find
<1>2. /\ (file_descriptors \in [Indices -> Pointers])' /\ 0 \in -1 .. MaxDescriptors
      /\ live' = live /\ fats' = fats
  BY FilesAssumption
  DEF Find, FInv, FilesTyped, Indices, Pointers, Blocks, vars, memoryVars
<1>3. CASE Return(0)
  BY <1>1, <1>2, <1>3, ReturnEndsFopen DEF FInv
<1>4. ASSUME NEW i \in Matches(fo.path.parts[1]), Goto("item", [fo EXCEPT !.slot = i])
      PROVE  FInv'
  <2>1. i \in Used /\ Root[i].name = fo.path.parts[1]
    BY <1>1, <1>4, FirstPart, MatchesUsed DEF HasFat
  <2>2. fo \in Locals
    BY DEF FInv, FilesTyped
  <2>3. step' = "item" /\ UNCHANGED res /\ fo' = [fo EXCEPT !.slot = i]
    BY <1>4 DEF Goto
  <2>4. /\ fo' \in Locals /\ fo'.slot = i /\ fo'.fat = fo.fat
        /\ fo'.n = fo.n /\ fo'.path = fo.path /\ Pending' = Pending
    BY <2>1, <2>2, <2>3 DEF Locals, Pending
  <2>5. FilesTyped'
    BY <1>2, <2>3, <2>4 DEF FInv, FilesTyped, Locals, Pointers, Blocks, Used
  <2>6. FatSoFar' /\ ItemSoFar'
    BY <1>1, <1>2, <2>1, <2>3, <2>4
    DEF FInv, FopenSoFar, FatSoFar, ItemSoFar, Held, Blocks, HasFat, HasItem, Used
  <2>7. DirectorySoFar' /\ CloneSoFar'
    BY <2>3 DEF DirectorySoFar, CloneSoFar
  <2>8. fo.n = Len(fo.path.parts) /\ Pending \cap InUse = {}
    BY <1>1 DEF FInv, FopenSoFar, PathSoFar, Apart, HasFat
  <2>. QED
    BY <1>1, <2>3, <2>4, <2>5, <2>6, <2>7, <2>8, StillOpening DEF HasFat
<1>. QED
  BY <1>3, <1>4 DEF Find

(* The item of the FAT is allocated, or fopen gives up.                    *)
LEMMA FatItemKeepsFInv ==
    ASSUME FInv, FatItem
    PROVE  FInv'
<1>0. /\ KZalloc(StructSize) /\ StructSize \in Requests /\ step = "item"
      /\ UNCHANGED <<file_descriptors, descs, fats, clones>>
      /\ items' = IF ret' = NULL THEN items ELSE Put(items, ret', NULL)
  BY StructSizeFits DEF FatItem
<1>1. ret' \notin InUse /\ \A b : Held(b) => b # ret' /\ Held(b)'
  BY <1>0, GrantedApart
<1>2. StructuresKept
  BY <1>0, <1>1, WritesKeep DEF StructuresKept
<1>3. IInv' /\ OpenWhole' /\ InUse' = InUse /\ ret' \in Pointers
  BY <1>0, <1>2, AllocationKeepsOpenFiles
<1>4. (file_descriptors \in [Indices -> Pointers])' /\ 0 \in -1 .. MaxDescriptors
  BY <1>0, FilesAssumption DEF FInv, FilesTyped, Indices, Pointers, Blocks
<1>5. CASE ret' = NULL
  BY <1>3, <1>4, <1>5, ReturnEndsFopen DEF FInv, FatItem
<1>6. CASE ret' # NULL
  <2>1. /\ step' = IF Root[fo.slot].dir THEN "dir" ELSE "clone"
        /\ fo' = [fo EXCEPT !.item = ret'] /\ UNCHANGED res
    BY <1>6 DEF FatItem, Goto
  <2>2. fo \in Locals /\ Pending \cap InUse = {} /\ fo.n = Len(fo.path.parts)
    BY <1>0 DEF FInv, FilesTyped, FopenSoFar, PathSoFar, Apart, HasFat
  <2>3. /\ fo' \in Locals /\ fo'.item = ret' /\ fo'.fat = fo.fat /\ fo'.slot = fo.slot
        /\ fo'.n = fo.n /\ fo'.path = fo.path /\ Pending' \subseteq Pending \cup {ret'}
    BY <1>3, <2>1, <2>2 DEF Locals, Pending
  <2>4. FilesTyped'
    BY <1>4, <2>1, <2>3 DEF FInv, FilesTyped, Locals, Pointers, Blocks, Used
  <2>5. ret' \in Blocks /\ live'[ret'] > 0
    BY <1>0, <1>6, Granted, StructSizeFits DEF FInv
  <2>6. Held(fo.fat) /\ fo.fat \in DOMAIN fats
    BY <1>0 DEF FInv, FopenSoFar, FatSoFar, HasFat
  <2>7. FatSoFar'
    BY <1>0, <1>1, <2>3, <2>6 DEF FatSoFar, Held, Blocks
  <2>8. ItemSoFar'
    <3>1. fo.slot \in Used /\ Root[fo.slot].name = fo.path.parts[1]
      BY <1>0 DEF FInv, FopenSoFar, ItemSoFar
    <3>2. ret' # fo.fat
      BY <1>1, <2>6
    <3>3. ret' \in DOMAIN items'
      BY <1>0, <1>6 DEF Put
    <3>. QED
      BY <2>3, <2>5, <3>1, <3>2, <3>3 DEF ItemSoFar, Held, Blocks, Used
  <2>9. DirectorySoFar' /\ CloneSoFar'
    BY <2>1, <2>3 DEF DirectorySoFar, CloneSoFar
  <2>. QED
    BY <1>0, <1>1, <1>3, <2>1, <2>2, <2>3, <2>4, <2>7, <2>8, <2>9, StillOpening
    DEF HasFat, HasItem
<1>. QED
  BY <1>5, <1>6

(* What the steps that load a directory leave of the invariant's parts.    *)
LEMMA ItemStays ==
    ASSUME FInv, step \in HasItem, step' \in HasItem,
           fo'.fat = fo.fat, fo'.item = fo.item, fo'.slot = fo.slot, fo'.path = fo.path,
           UNCHANGED <<fats, items>>,
           fo.fat \in Blocks, live'[fo.fat] > 0, fo.item \in Blocks, live'[fo.item] > 0
    PROVE  FatSoFar' /\ ItemSoFar' /\ fo.n = Len(fo.path.parts) /\ Pending \cap InUse = {}
<1>1. /\ fo.fat \in DOMAIN fats /\ fo.item \in DOMAIN items /\ fo.item # fo.fat
      /\ fo.slot \in Used /\ Root[fo.slot].name = fo.path.parts[1]
      /\ fo.n = Len(fo.path.parts) /\ Pending \cap InUse = {}
  BY DEF FInv, FopenSoFar, PathSoFar, FatSoFar, ItemSoFar, Apart, HasFat
<1>2. FatSoFar'
  BY <1>1 DEF FatSoFar, Held, Blocks
<1>3. ItemSoFar'
  BY <1>1 DEF ItemSoFar, Used, Held, Blocks
<1>. QED
  BY <1>1, <1>2, <1>3

(* The structure of a directory on the way is allocated, or is not.        *)
LEMMA LoadDirectoryKeepsFInv ==
    ASSUME FInv, LoadDirectory
    PROVE  FInv'
<1>0. /\ KZalloc(StructSize) /\ StructSize \in Requests /\ step = "dir"
      /\ UNCHANGED <<res, file_descriptors, descs, fats, items, clones>>
      /\ step' = IF ret' = NULL THEN "clone" ELSE "dir_items"
      /\ fo' = IF ret' = NULL THEN fo ELSE [fo EXCEPT !.dir = ret']
  BY StructSizeFits DEF LoadDirectory, Goto, memoryVars
<1>1. ret' \notin InUse /\ \A b : Held(b) => b # ret' /\ Held(b)'
  BY <1>0, GrantedApart
<1>2. StructuresKept
  BY <1>0, WritesKeep DEF StructuresKept, Kept
<1>3. IInv' /\ OpenWhole' /\ InUse' = InUse /\ ret' \in Pointers
  BY <1>0, <1>2, AllocationKeepsOpenFiles
<1>4. fo \in Locals /\ Held(fo.fat) /\ Held(fo.item) /\ Root[fo.slot].dir
  BY <1>0 DEF FInv, FilesTyped, FopenSoFar, FatSoFar, ItemSoFar, DirectorySoFar,
              HasFat, HasItem
<1>5. /\ fo' \in Locals /\ fo'.fat = fo.fat /\ fo'.item = fo.item /\ fo'.slot = fo.slot
      /\ fo'.n = fo.n /\ fo'.path = fo.path /\ Pending' \subseteq Pending \cup {ret'}
      /\ ret' # NULL => fo'.dir = ret'
  BY <1>0, <1>3, <1>4 DEF Locals, Pending
<1>6. FilesTyped'
  BY <1>0, <1>5 DEF FInv, FilesTyped, Locals, Pointers, Blocks, Used, Indices
<1>7. /\ fo.fat \in Blocks /\ live'[fo.fat] > 0 /\ fo.fat # ret'
      /\ fo.item \in Blocks /\ live'[fo.item] > 0 /\ fo.item # ret'
  BY <1>1, <1>4 DEF Held
<1>8. step \in HasItem /\ step' \in HasItem /\ step \in HasFat /\ step' \in HasFat
  BY <1>0 DEF HasItem, HasFat
<1>9. FatSoFar' /\ ItemSoFar' /\ fo.n = Len(fo.path.parts) /\ Pending \cap InUse = {}
  BY <1>0, <1>5, <1>7, <1>8, ItemStays
<1>10. DirectorySoFar' /\ CloneSoFar'
  <2>1. ret' # NULL => ret' \in Blocks /\ live'[ret'] > 0
    BY <1>0, Granted, StructSizeFits DEF FInv
  <2>. QED
    BY <1>0, <1>4, <1>5, <1>7, <2>1 DEF DirectorySoFar, CloneSoFar, Held, Blocks
<1>. QED
  BY <1>0, <1>1, <1>3, <1>5, <1>6, <1>8, <1>9, <1>10, StillOpening

(* The list may be of no bytes, or larger than what is left of the heap.   *)
LEMMA LoadItemsKeepsFInv ==
    ASSUME FInv, LoadItems
    PROVE  FInv'
<1>0. /\ KZalloc(Root[fo.slot].items * ItemSize) /\ step = "dir_items"
      /\ UNCHANGED <<res, file_descriptors, descs, fats, items, clones>>
      /\ step' \in {"clone", "undo_dir"}
      /\ fo' = [fo EXCEPT !.list = ret']
  BY DEF LoadItems, Goto, memoryVars
<1>1. /\ fo \in Locals /\ Held(fo.fat) /\ Held(fo.item) /\ Root[fo.slot].dir
      /\ fo.slot \in Used /\ Held(fo.dir) /\ fo.dir \notin {fo.fat, fo.item}
  BY <1>0 DEF FInv, FilesTyped, FopenSoFar, FatSoFar, ItemSoFar, DirectorySoFar,
              HasFat, HasItem
<1>2. Root[fo.slot].items * ItemSize \in Requests
  BY <1>1, FilesAssumption DEF Used
<1>3. ret' \notin InUse /\ \A b : Held(b) => b # ret' /\ Held(b)'
  BY <1>0, <1>2, GrantedApart
<1>4. StructuresKept
  BY <1>0, WritesKeep DEF StructuresKept, Kept
<1>5. IInv' /\ OpenWhole' /\ InUse' = InUse /\ ret' \in Pointers
  BY <1>0, <1>2, <1>4, AllocationKeepsOpenFiles
<1>6. /\ fo' \in Locals /\ fo'.fat = fo.fat /\ fo'.item = fo.item /\ fo'.slot = fo.slot
      /\ fo'.n = fo.n /\ fo'.path = fo.path /\ Pending' \subseteq Pending \cup {ret'}
      /\ fo'.list = ret' /\ fo'.dir = fo.dir
  BY <1>0, <1>5, <1>1 DEF Locals, Pending
<1>7. FilesTyped'
  BY <1>0, <1>6 DEF FInv, FilesTyped, Locals, Pointers, Blocks, Used, Indices
<1>8. /\ fo.fat \in Blocks /\ live'[fo.fat] > 0 /\ fo.fat # ret'
      /\ fo.item \in Blocks /\ live'[fo.item] > 0 /\ fo.item # ret'
      /\ fo.dir \in Blocks /\ live'[fo.dir] > 0
  BY <1>3, <1>1 DEF Held
<1>9. step \in HasItem /\ step' \in HasItem /\ step \in HasFat /\ step' \in HasFat
  BY <1>0 DEF HasItem, HasFat
<1>10. FatSoFar' /\ ItemSoFar' /\ fo.n = Len(fo.path.parts) /\ Pending \cap InUse = {}
  BY <1>0, <1>6, <1>8, <1>9, ItemStays
<1>11. ASSUME ret' # NULL PROVE ret' \in Blocks /\ (live'[ret'] > 0 \/ entries'[ret'] = {})
  <2>1. ret' \in Blocks
    BY <1>5, <1>11 DEF Pointers
  <2>2. live'[ret'] \in Nat
    BY <1>5, <2>1 DEF IInv, TypeOK, Blocks
  <2>3. CASE live'[ret'] = 0
    (* A block of a list of no bytes is marked only if somebody has it.    *)
    <3>1. \A c \in Blocks : ret' \notin Owned(c)'
      <4>1. SUFFICES ASSUME NEW c \in Blocks, ret' \in Owned(c)' PROVE FALSE
        OBVIOUS
      <4>2. c # ret'
        BY <2>3, <4>1, SMT DEF Owned, Run, Blocks
      <4>3. live' = [live EXCEPT ![ret'] = 0] /\ live[ret'] = 0 /\ Free(ret')
        BY <1>0, <1>2, <1>11, <2>3, Granted DEF FInv
      <4>4. ret' \in Owned(c)
        BY <4>1, <4>2, <4>3 DEF Owned, FInv, IInv, TypeOK
      <4>5. entries[ret'] = MarkedEntry(c, live[c], ret')
        BY <2>1, <4>4 DEF FInv, IInv, TableEncodesLive
      <4>. QED
        BY <4>3, <4>5 DEF Free, MarkedEntry
    <3>2. entries'[ret'] = {}
      BY <1>5, <2>1, <3>1 DEF IInv, TableEncodesLive, Blocks
    <3>. QED
      BY <2>1, <3>2 DEF Free
  <2>. QED
    BY <2>1, <2>2, <2>3, SMT
<1>12. DirectorySoFar' /\ CloneSoFar'
  BY <1>0, <1>1, <1>6, <1>8, <1>11 DEF DirectorySoFar, CloneSoFar, Held, Blocks, Free
<1>. QED
  BY <1>0, <1>3, <1>5, <1>6, <1>7, <1>9, <1>10, <1>12, StillOpening

(* It is freed when its items cannot be loaded.                            *)
LEMMA FreeDirectoryKeepsFInv ==
    ASSUME FInv, FreeDirectory
    PROVE  FInv'
<1> DEFINE S == {fo.dir, fo.list} \ {NULL}
<1>0. /\ FreeAll(S) /\ step = "undo_dir" /\ step' = "clone" /\ fo' = fo
      /\ UNCHANGED <<res, file_descriptors, descs, fats, items, clones>>
  BY DEF FreeDirectory, Goto, memoryVars
<1>1. /\ Held(fo.fat) /\ Held(fo.item) /\ Held(fo.dir) /\ fo.dir \notin {fo.fat, fo.item}
      /\ fo.list # NULL => /\ fo.list \in Blocks \ {fo.fat, fo.item}
                           /\ live[fo.list] > 0 \/ Free(fo.list)
      /\ Pending \cap InUse = {}
  BY <1>0 DEF FInv, FopenSoFar, FatSoFar, ItemSoFar, DirectorySoFar, Apart, HasFat, HasItem
<1>2. S \in SUBSET Blocks /\ \A b \in S : live[b] > 0 \/ Free(b)
  BY <1>1 DEF Held
<1>3. IInv'
  BY <1>0, <1>2, FreeAllKeepsIInv DEF FInv
<1>4. \A b \in Blocks : b \notin S => live'[b] = live[b]
  BY <1>0 DEF FreeAll
<1>5. S \cap InUse = {}
  BY <1>1 DEF Pending
<1> HIDE DEF S
<1>6. OpenWhole' /\ InUse' = InUse
  <2>1. \A b \in InUse : live'[b] = live[b]
    BY <1>4, <1>5, InUseHeld DEF FInv, Held
  <2>. QED
    BY <1>0, <2>1, OpenFilesKept DEF FInv, StructuresKept, Kept
<1>7. FilesTyped'
  BY <1>0 DEF FInv, FilesTyped, Locals, Pointers, Blocks, Used, Indices
<1>8. /\ fo.fat \in Blocks /\ live'[fo.fat] > 0
      /\ fo.item \in Blocks /\ live'[fo.item] > 0
  BY <1>1, <1>4 DEF Held, S
<1>9. step \in HasItem /\ step' \in HasItem /\ step \in HasFat /\ step' \in HasFat
  BY <1>0 DEF HasItem, HasFat
<1>10. FatSoFar' /\ ItemSoFar' /\ fo.n = Len(fo.path.parts)
  BY <1>0, <1>8, <1>9, ItemStays
<1>11. DirectorySoFar' /\ CloneSoFar'
  BY <1>0 DEF DirectorySoFar, CloneSoFar
<1>12. Pending' \cap InUse' = {}
  BY <1>0, <1>1, <1>6 DEF Pending
<1>. QED
  BY <1>0, <1>3, <1>6, <1>7, <1>9, <1>10, <1>11, <1>12, StillOpening

(* The copy of the directory item; where there is no memory for it, there  *)
(* will be none for the descriptor.                                        *)
LEMMA CloneItemKeepsFInv ==
    ASSUME FInv, CloneItem
    PROVE  FInv'
<1>0. /\ KZalloc(StructSize) /\ StructSize \in Requests /\ step = "clone"
      /\ UNCHANGED <<file_descriptors, descs>>
      /\ items' = [items EXCEPT ![fo.item] = ret']
      /\ clones' = IF ret' = NULL THEN clones ELSE Put(clones, ret', fo.slot)
      /\ fats' = IF fo.n > 1 THEN fats ELSE [fats EXCEPT ![fo.fat] = fo.item]
  BY StructSizeFits DEF CloneItem
<1>1. /\ fo \in Locals /\ Held(fo.fat) /\ Held(fo.item) /\ fo.item # fo.fat
      /\ fo.fat \in DOMAIN fats /\ fo.item \in DOMAIN items
      /\ fo.slot \in Used /\ Root[fo.slot].name = fo.path.parts[1]
      /\ fo.n = Len(fo.path.parts) /\ fo.n # 0 /\ Pending \cap InUse = {}
  BY <1>0 DEF FInv, FilesTyped, FopenSoFar, PathSoFar, FatSoFar, ItemSoFar, Apart,
              HasFat, HasItem
<1>2. ret' \notin InUse /\ \A b : Held(b) => b # ret' /\ Held(b)'
  BY <1>0, GrantedApart
<1>3. StructuresKept
  <2>1. fo.fat \notin InUse /\ fo.item \notin InUse
    BY <1>1 DEF Pending
  <2>. QED
    BY <1>0, <1>2, <2>1, WritesKeep DEF StructuresKept
<1>4. IInv' /\ OpenWhole' /\ InUse' = InUse /\ ret' \in Pointers
  BY <1>0, <1>3, AllocationKeepsOpenFiles
<1>5. (file_descriptors \in [Indices -> Pointers])' /\ 0 \in -1 .. MaxDescriptors
  BY <1>0, FilesAssumption DEF FInv, FilesTyped, Indices, Pointers, Blocks
<1>6. CASE fo.n > 1
  BY <1>4, <1>5, <1>6, ReturnEndsFopen DEF FInv, CloneItem
<1>7. CASE ~(fo.n > 1)
  <2>1. step' = "descriptor" /\ fo' = fo /\ UNCHANGED res
    BY <1>7 DEF CloneItem, Goto
  <2>2. FilesTyped'
    BY <1>5, <2>1 DEF FInv, FilesTyped, Locals, Pointers, Blocks, Used
  <2>3. fo.n = 1
    <3>1. fo.n \in Nat
      BY PathLength
    <3>2. fo.n # 0
      BY <1>1
    <3>. QED
      BY <1>7, <3>1, <3>2
  <2>4. FatSoFar'
    BY <1>0, <1>1, <1>2, <2>1 DEF FatSoFar, Held, Blocks
  <2>5. ItemSoFar'
    BY <1>0, <1>1, <1>2, <2>1 DEF ItemSoFar, Held, Blocks, Used
  <2>6. DirectorySoFar' /\ Pending' = Pending
    BY <2>1 DEF DirectorySoFar, Pending
  <2>7. CloneSoFar'
    <3>1. fats'[fo.fat] = fo.item /\ items'[fo.item] = ret'
      BY <1>0, <1>1, <1>7
    <3>2. CASE ret' = NULL
      <4>1. Full'
        BY <1>0, <3>2, StructSizeFits, Granted DEF FInv, Full, Free
      <4>. QED
        BY <2>1, <2>3, <3>1, <3>2, <4>1 DEF CloneSoFar
    <3>3. CASE ret' # NULL
      <4>1. ret' \in Blocks /\ live'[ret'] > 0
        BY <1>0, <3>3, Granted, StructSizeFits DEF FInv
      <4>2. ret' \notin InUse' \cup {fo.fat, fo.item}
        BY <1>1, <1>2, <1>4
      <4>3. ret' \in DOMAIN clones' /\ clones'[ret'] = fo.slot
        BY <1>0, <3>3 DEF Put
      <4>. QED
        BY <2>1, <2>3, <3>1, <4>1, <4>2, <4>3 DEF CloneSoFar, Held, Blocks
    <3>. QED
      BY <3>2, <3>3
  <2>. QED
    BY <1>0, <1>1, <1>4, <2>1, <2>2, <2>4, <2>5, <2>6, <2>7, StillOpening
    DEF HasFat, HasItem
<1>. QED
  BY <1>6, <1>7

-----------------------------------------------------------------------------
(* The descriptor: the four structures become an open file, with its slot. *)

(* The slot file_new_descriptor takes is one of the table's and is empty.  *)
LEMMA SlotFree ==
    ASSUME FInv, NEW i \in FreeIndex
    PROVE  i \in Indices /\ file_descriptors[i] = NULL /\ i \notin Open
  BY DEF FreeIndex, Open

(* The new file joins the open ones, which stay as they are.               *)
LEMMA NewOpenFile ==
    ASSUME FInv, step = "descriptor", NEW i \in FreeIndex, KZalloc(StructSize),
           file_descriptors' = [file_descriptors EXCEPT ![i] = ret'],
           descs' = Put(descs, ret', [index |-> i + 1, private |-> fo.fat]),
           UNCHANGED <<fats, items, clones>>
    PROVE  /\ IInv' /\ OpenWhole'
           /\ \A j \in Indices \ {i} : file_descriptors'[j] = file_descriptors[j]
           /\ \A j \in Open : FileOf(file_descriptors[j])' = FileOf(file_descriptors[j])
           /\ file_descriptors'[i] = ret' /\ ret' \in Pointers
           /\ IF ret' = NULL THEN Full ELSE FileOf(ret)' = fo.slot /\ fo.slot \in Used
<1>0. /\ StructSize \in Requests /\ i \in Indices /\ file_descriptors[i] = NULL
      /\ i \notin Open /\ file_descriptors \in [Indices -> Pointers]
  BY StructSizeFits, SlotFree DEF FInv, FilesTyped
<1>1. /\ ret' \notin InUse /\ ret' \in Pointers /\ IInv'
      /\ \A b : Held(b) => b # ret' /\ Held(b)' /\ live'[b] = live[b]
      /\ ret' = NULL => Full
      /\ Full => ret' = NULL
  BY <1>0, GrantedApart, Granted, StructSizeFits DEF FInv
<1>2. \A j \in Indices : file_descriptors'[j] = IF j = i THEN ret' ELSE file_descriptors[j]
  BY <1>0
<1>3. /\ Held(fo.fat) /\ Held(fo.item) /\ fo.item # fo.fat /\ fo.fat \in DOMAIN fats
      /\ fo.item \in DOMAIN items /\ fo.slot \in Used /\ Pending \cap InUse = {}
      /\ fats[fo.fat] = fo.item
      /\ \/ items[fo.item] = NULL /\ Full
         \/ /\ Held(items[fo.item]) /\ items[fo.item] \notin InUse \cup {fo.fat, fo.item}
            /\ items[fo.item] \in DOMAIN clones /\ clones[items[fo.item]] = fo.slot
  BY DEF FInv, FopenSoFar, FatSoFar, ItemSoFar, CloneSoFar, Apart, HasFat, HasItem
(* The files that were open already.                                       *)
<1>4. ASSUME NEW j \in Open, NEW d, d = file_descriptors[j]
      PROVE  /\ d \in Blocks /\ FileBlocks(d) \subseteq InUse /\ FileBlocks(d)' = FileBlocks(d)
             /\ Whole(d)' /\ descs'[d] = descs[d] /\ FileOf(d)' = FileOf(d)
  <2>1. Whole(d) /\ FileBlocks(d) \subseteq InUse /\ d \in FileBlocks(d)
    BY <1>4 DEF FInv, OpenWhole, InUse, FileBlocks
  <2>2. d # ret' /\ d \in DOMAIN descs
    BY <1>1, <2>1 DEF Whole
  <2>3. descs'[d] = descs[d] /\ d \in DOMAIN descs'
    BY <2>2 DEF Put
  <2>4. Fat(d)' = Fat(d) /\ FileOf(d)' = FileOf(d)
    BY <2>3 DEF Fat, FileOf
  <2>5. Item(d)' = Item(d)
    BY <2>4 DEF Item
  <2>6. Clone(d)' = Clone(d)
    BY <2>5 DEF Clone
  <2>7. FileBlocks(d)' = FileBlocks(d)
    BY <2>4, <2>5, <2>6 DEF FileBlocks
  <2>8. \A b \in FileBlocks(d) : Held(b)'
    BY <1>1, <2>1 DEF Whole
  <2>9. Whole(d)'
    BY <2>1, <2>3, <2>4, <2>5, <2>6, <2>7, <2>8 DEF Whole, Used
  <2>. QED
    BY <2>1, <2>3, <2>4, <2>7, <2>9 DEF Whole, Held
<1>5. CASE ret' = NULL
  <2>1. file_descriptors' = file_descriptors
    BY <1>0, <1>5
  <2>2. Open' = Open
    BY <2>1 DEF Open
  <2>3. OpenWhole'
    BY <1>4, <2>1, <2>2 DEF FInv, OpenWhole
  <2>. QED
    BY <1>0, <1>1, <1>2, <1>4, <1>5, <2>3
(* The new one.                                                            *)
<1>6. CASE ret' # NULL
  <2>1. PICK d, f, t, c : d = ret' /\ f = fo.fat /\ t = fo.item /\ c = items[t]
    OBVIOUS
  <2>2. d \in Blocks /\ live'[d] > 0 /\ Held(f) /\ Held(t) /\ t # f
    BY <1>0, <1>3, <1>6, <2>1, Granted, StructSizeFits DEF FInv
  <2>3. /\ Held(c) /\ c \notin InUse \cup {f, t}
        /\ c \in DOMAIN clones /\ clones[c] = fo.slot
    BY <1>1, <1>3, <1>6, <2>1
  <2>4. d \in DOMAIN descs' /\ descs'[d] = [index |-> i + 1, private |-> f]
    BY <2>1 DEF Put
  <2>5. Fat(d)' = f /\ descs'[d].index = i + 1
    BY <2>4 DEF Fat
  <2>6. Item(d)' = t
    BY <1>3, <2>1, <2>5 DEF Item
  <2>7. Clone(d)' = c
    BY <2>1, <2>6 DEF Clone
  <2>8. FileBlocks(d)' = {d, f, t, c}
    BY <2>5, <2>6, <2>7 DEF FileBlocks
  <2>9. FileOf(d)' = fo.slot
    BY <2>3, <2>5, <2>6, <2>7 DEF FileOf, Fat, Item, Clone
  <2>10. d # f /\ d # t /\ d # c
    BY <1>1, <2>1, <2>2, <2>3
  <2>11. Held(f)' /\ Held(t)' /\ Held(c)' /\ Held(d)'
    <3>1. Held(f)' /\ Held(t)' /\ Held(c)'
      BY <1>1, <2>2, <2>3
    <3>. QED
      BY <2>2, <3>1 DEF Held, Blocks
  <2>12. Whole(d)'
    <3>1. f \in DOMAIN fats' /\ t \in DOMAIN items' /\ c \in DOMAIN clones'
          /\ clones'[c] \in Used
      BY <1>3, <2>1, <2>3
    <3>2. \A b \in FileBlocks(d)' : Held(b)'
      BY <2>8, <2>11
    <3>. QED
      BY <2>2, <2>3, <2>4, <2>5, <2>6, <2>7, <2>10, <3>1, <3>2 DEF Whole, Used
  <2>13. FileBlocks(d)' \cap InUse = {}
    BY <1>1, <1>3, <2>1, <2>3, <2>8 DEF Pending
  <2>14. Open' = Open \cup {i}
    BY <1>0, <1>2, <1>6 DEF Open, Indices
  <2>15. \A j \in Open : file_descriptors'[j] = file_descriptors[j] /\ j # i
    BY <1>0, <1>2 DEF Open
  <2>16. file_descriptors'[i] = d
    BY <1>0, <2>1
  <2>17. ASSUME NEW j \in Open'
         PROVE  Whole(file_descriptors[j])' /\ (descs[file_descriptors[j]].index)' = j + 1
    <3>1. CASE j = i
      BY <2>5, <2>12, <2>16, <3>1
    <3>2. CASE j \in Open
      <4>1. PICK e : e = file_descriptors[j] /\ e = file_descriptors'[j]
        BY <2>15, <3>2
      <4>2. Whole(e)' /\ descs'[e] = descs[e]
        BY <1>4, <3>2, <4>1
      <4>3. descs[e].index = j + 1
        BY <3>2, <4>1 DEF FInv, OpenWhole
      <4>. QED
        BY <4>1, <4>2, <4>3
    <3>. QED
      BY <2>14, <3>1, <3>2
  <2>18. \A j \in Open : FileBlocks(file_descriptors[j])' = FileBlocks(file_descriptors[j])
                         /\ FileBlocks(file_descriptors[j]) \subseteq InUse
    <3>1. SUFFICES ASSUME NEW j \in Open
          PROVE /\ FileBlocks(file_descriptors[j])' = FileBlocks(file_descriptors[j])
                /\ FileBlocks(file_descriptors[j]) \subseteq InUse
      OBVIOUS
    <3>2. PICK e : e = file_descriptors[j] /\ e = file_descriptors'[j]
      BY <2>15
    <3>. QED
      BY <1>4, <3>2
  <2>19. ASSUME NEW j \in Open', NEW k \in Open', j # k
         PROVE  (FileBlocks(file_descriptors[j]) \cap FileBlocks(file_descriptors[k]))' = {}
    <3>1. FileBlocks(file_descriptors[i])' = FileBlocks(d)'
      BY <2>16
    <3>2. CASE j \in Open /\ k \in Open
      BY <2>18, <2>19, <3>2 DEF FInv, OpenWhole
    <3>. QED
      BY <2>13, <2>14, <2>18, <2>19, <3>1, <3>2
  <2>20. OpenWhole'
    BY <2>17, <2>19 DEF OpenWhole
  <2>21. \A j \in Open : FileOf(file_descriptors[j])' = FileOf(file_descriptors[j])
    <3>1. SUFFICES ASSUME NEW j \in Open
          PROVE FileOf(file_descriptors[j])' = FileOf(file_descriptors[j])
      OBVIOUS
    <3>2. PICK e : e = file_descriptors[j] /\ e = file_descriptors'[j]
      BY <2>15
    <3>3. FileOf(e)' = FileOf(e)
      BY <1>4, <3>2
    <3>. QED
      BY <3>2, <3>3 DEF FileOf
  <2>22. FileOf(ret)' = fo.slot
    BY <2>1, <2>9 DEF FileOf
  <2>. QED
    BY <1>0, <1>1, <1>2, <1>3, <1>6, <2>20, <2>21, <2>22
<1>. QED
  BY <1>5, <1>6

(* fopen ends with a descriptor, or with none to be had.                   *)
LEMMA NewDescriptorKeepsFInv ==
    ASSUME FInv, NewDescriptor
    PROVE  FInv'
<1>1. ASSUME NEW i \in FreeIndex, KZalloc(StructSize),
             file_descriptors' = [file_descriptors EXCEPT ![i] = ret'],
             descs' = Put(descs, ret', [index |-> i + 1, private |-> fo.fat]),
             Return(i + 1)
      PROVE  FInv'
  <2>1. step = "descriptor" /\ UNCHANGED <<fats, items, clones>>
    BY DEF NewDescriptor
  <2>2. IInv' /\ OpenWhole' /\ ret' \in Pointers
    BY <1>1, <2>1, NewOpenFile
  <2>3. (file_descriptors \in [Indices -> Pointers])'
    BY <1>1, <2>2 DEF FInv, FilesTyped, Indices, Pointers, Blocks
  <2>4. i + 1 \in -1 .. MaxDescriptors
    BY SlotFree, FilesAssumption, SMT DEF Indices
  <2>. QED
    BY <1>1, <2>2, <2>3, <2>4, ReturnEndsFopen DEF FInv
<1>2. CASE Return(0) /\ UNCHANGED <<vars, file_descriptors, descs>>
  <2>1. UNCHANGED <<vars, file_descriptors, memoryVars>>
    BY <1>2 DEF NewDescriptor, memoryVars
  <2>2. IInv' /\ OpenWhole'
    BY <2>1, QuietKeepsOpenFiles
  <2>3. (file_descriptors \in [Indices -> Pointers])' /\ 0 \in -1 .. MaxDescriptors
    BY <1>2, FilesAssumption DEF FInv, FilesTyped, Indices, Pointers, Blocks
  <2>. QED
    BY <1>2, <2>2, <2>3, ReturnEndsFopen DEF FInv
<1>. QED
  BY <1>1, <1>2 DEF NewDescriptor

(* fclose hands kfree the four structures of the file, no more and no less.*)
LEMMA PartsAreStructures ==
    ASSUME NEW d, Whole(d)
    PROVE  PartsOf(d) = FileBlocks(d)
<1>1. NULL \notin FileBlocks(d)
  BY NULLAssumption, SMT DEF Whole, Held, Blocks
<1>2. PartsOf(d) = FileBlocks(d) \ {NULL}
  BY DEF PartsOf, FileBlocks, Fat, Item, Clone
<1>. QED
  BY <1>1, <1>2

(* fclose of an open file frees its own structures and no other's.         *)
LEMMA CloseOpenFile ==
    ASSUME FInv, NEW fd \in 0 .. (MaxDescriptors + 1), Close(fd), Get(fd) # NULL
    PROVE  /\ IInv' /\ OpenWhole' /\ fd - 1 \in Open /\ res' = 0
           /\ file_descriptors' = [file_descriptors EXCEPT ![fd - 1] = NULL]
           /\ \A j \in Open' : FileOf(file_descriptors[j])' = FileOf(file_descriptors[j])
<1>1. fd \in Int /\ fd > 0 /\ fd < MaxDescriptors /\ MaxDescriptors \in Nat
  BY FilesAssumption, SMT DEF Get
<1>2. PICK i, d : i = fd - 1 /\ d = file_descriptors[i] /\ d = Get(fd)
  BY <1>1 DEF Get
<1>3. i \in Open
  <2>1. i \in Indices
    BY <1>1, <1>2 DEF Indices
  <2>2. file_descriptors[i] # NULL
    BY <1>2
  <2>. QED
    BY <2>1, <2>2 DEF Open
<1>4. Whole(d) /\ descs[d].index = i + 1 /\ PartsOf(d) = FileBlocks(d)
  BY <1>2, <1>3, PartsAreStructures DEF FInv, OpenWhole
<1>5. ClearedIndex(d) = i
  <2>1. i \in Int
    BY <1>1, <1>2
  <2>. QED
    BY <1>4, <2>1, SMT DEF ClearedIndex
<1>6. /\ FreeAll(FileBlocks(d)) /\ res' = 0
      /\ file_descriptors' = [file_descriptors EXCEPT ![i] = NULL]
      /\ UNCHANGED <<descs, fats, items, clones>>
  BY <1>2, <1>4, <1>5 DEF Close, memoryVars
<1>7. FileBlocks(d) \in SUBSET Blocks /\ \A b \in FileBlocks(d) : live[b] > 0
  BY <1>4 DEF Whole, Held
<1>8. IInv'
  BY <1>6, <1>7, FreeAllKeepsIInv DEF FInv
<1>9. Open' = Open \ {i} /\ \A j \in Open' : file_descriptors'[j] = file_descriptors[j]
  BY <1>3, <1>6 DEF FInv, FilesTyped, Open, Indices
<1>10. ASSUME NEW e PROVE FileBlocks(e)' = FileBlocks(e) /\ FileOf(e)' = FileOf(e)
                          /\ (descs[e].index)' = descs[e].index
  BY <1>6 DEF FileBlocks, FileOf, Fat, Item, Clone
<1>11. ASSUME NEW j \in Open', NEW e, e = file_descriptors[j]
       PROVE  Whole(e)'
  <2>1. Whole(e) /\ FileBlocks(e) \cap FileBlocks(d) = {}
    BY <1>2, <1>3, <1>9, <1>11 DEF FInv, OpenWhole
  <2>2. \A b \in FileBlocks(e) : b \in Blocks /\ live'[b] = live[b]
    BY <1>6, <2>1 DEF Whole, Held, FreeAll
  <2>3. \A b \in FileBlocks(e)' : Held(b)'
    BY <1>10, <2>1, <2>2 DEF Whole, Held, Blocks
  <2>. QED
    BY <1>6, <2>1, <2>3 DEF Whole, Fat, Item, Clone, Used
<1>12. ASSUME NEW j \in Open'
       PROVE  /\ FileBlocks(file_descriptors[j])' = FileBlocks(file_descriptors[j])
              /\ FileOf(file_descriptors[j])' = FileOf(file_descriptors[j])
              /\ Whole(file_descriptors[j])'
              /\ (descs[file_descriptors[j]].index)' = j + 1
  <2>1. PICK e : e = file_descriptors[j] /\ e = file_descriptors'[j]
    BY <1>9
  <2>2. FileBlocks(e)' = FileBlocks(e) /\ FileOf(e)' = FileOf(e)
        /\ (descs[e].index)' = descs[e].index
    BY <1>10
  <2>3. Whole(e)'
    BY <1>11, <2>1
  <2>4. descs[e].index = j + 1
    BY <1>9, <2>1 DEF FInv, OpenWhole
  <2>5. FileBlocks(file_descriptors[j])' = FileBlocks(e)'
        /\ FileOf(file_descriptors[j])' = FileOf(e)'
    BY <2>1
  <2>6. Whole(file_descriptors[j])'
    BY <2>1, <2>3
  <2>7. (descs[file_descriptors[j]].index)' = j + 1
    BY <2>1, <2>2, <2>4
  <2>. QED
    BY <2>1, <2>2, <2>5, <2>6, <2>7
<1>13. OpenWhole'
  <2>1. ASSUME NEW j \in Open', NEW k \in Open', j # k
        PROVE  (FileBlocks(file_descriptors[j]) \cap FileBlocks(file_descriptors[k]))' = {}
    BY <1>9, <1>12, <2>1 DEF FInv, OpenWhole
  <2>. QED
    BY <1>12, <2>1 DEF OpenWhole
<1>. QED
  BY <1>2, <1>3, <1>6, <1>8, <1>12, <1>13

(* fclose is called between two calls of fopen.                            *)
LEMMA CloseKeepsFInv ==
    ASSUME FInv, NEW fd \in 0 .. (MaxDescriptors + 1), Close(fd)
    PROVE  FInv'
<1>1. step = "idle" /\ fo = NoOpen /\ UNCHANGED <<step, fo>>
  BY DEF Close, FInv, FopenSoFar, Apart
<1>2. IInv' /\ OpenWhole' /\ (file_descriptors \in [Indices -> Pointers])' /\ res' \in {-1, 0}
  <2>1. CASE Get(fd) = NULL
    <3>1. UNCHANGED <<vars, file_descriptors, memoryVars>> /\ res' = -1
      BY <2>1 DEF Close
    <3>. QED
      BY <3>1, QuietKeepsOpenFiles DEF FInv, FilesTyped, Indices, Pointers, Blocks
  <2>2. CASE Get(fd) # NULL
    <3>1. file_descriptors' = [file_descriptors EXCEPT ![fd - 1] = NULL] /\ res' = 0
          /\ IInv' /\ OpenWhole'
      BY <2>2, CloseOpenFile
    <3>. QED
      BY <3>1 DEF FInv, FilesTyped, Indices, Pointers, Blocks
  <2>. QED
    BY <2>1, <2>2
<1>3. step' = "idle" /\ fo' = NoOpen
  BY <1>1
<1>4. res' \in -1 .. MaxDescriptors
  BY <1>2, FilesAssumption, SMT
<1>. QED
  BY <1>2, <1>3, <1>4, ReturnEndsFopen DEF FInv, Return

(* The invariant holds when the kernel starts.                             *)
LEMMA InitFInv == FilesInit => FInv
<1>. SUFFICES ASSUME FilesInit PROVE FInv
  OBVIOUS
<1>1. IInv
  BY BootIInv DEF FilesInit
<1>2. Open = {} /\ InUse = {}
  BY DEF FilesInit, Open, InUse
<1>3. OpenWhole
  BY <1>2 DEF OpenWhole
<1>4. step = "idle" /\ fo = NoOpen /\ res = 0
  BY DEF FilesInit
<1>5. NoOpen \in Locals /\ NoOpen.n = 0 /\ Len(NoOpen.path.parts) = 0
  BY DEF NoOpen, Locals, Pointers
<1>6. FilesTyped
  <2>1. file_descriptors \in [Indices -> Pointers]
    BY DEF FilesInit, Pointers
  <2>2. 0 \in -1 .. MaxDescriptors
    BY FilesAssumption, SMT
  <2>. QED
    BY <1>4, <1>5, <2>1, <2>2 DEF FilesTyped
<1>7. FopenSoFar
  BY <1>2, <1>4, <1>5
  DEF FopenSoFar, PathSoFar, FatSoFar, ItemSoFar, DirectorySoFar, CloneSoFar, Apart,
      HasFat, HasItem
<1>. QED
  BY <1>1, <1>3, <1>6, <1>7 DEF FInv

(* Every step of the file layer keeps the invariant.                       *)
LEMMA NextFInv == FInv /\ [FilesNext]_filesVars => FInv'
<1>. SUFFICES ASSUME FInv, [FilesNext]_filesVars PROVE FInv'
  OBVIOUS
<1>1. ASSUME FopenStep PROVE FInv'
  BY <1>1, PathAllocationKeepsFInv, PathEndedKeepsFInv, CheckPathKeepsFInv,
     FatDescriptorKeepsFInv, FindKeepsFInv, FatItemKeepsFInv, LoadDirectoryKeepsFInv,
     LoadItemsKeepsFInv, FreeDirectoryKeepsFInv, CloneItemKeepsFInv,
     NewDescriptorKeepsFInv DEF FopenStep
<1>2. CASE UNCHANGED filesVars
  <2>1. UNCHANGED <<vars, file_descriptors, memoryVars>> /\ UNCHANGED <<step, fo, res>>
        /\ UNCHANGED <<fats, items, clones>>
    BY <1>2 DEF filesVars, fileVars, memoryVars
  <2>2. IInv' /\ OpenWhole' /\ InUse' = InUse /\ Full' = Full
    BY <2>1, QuietKeepsOpenFiles
  <2>3. FilesTyped'
    BY <2>1 DEF FInv, FilesTyped, Locals, Pointers, Blocks, Used, Indices
  <2>4. UNCHANGED <<live, entries>>
    BY <2>1 DEF vars
  <2>5. PathSoFar' /\ Apart'
    BY <2>1, <2>2 DEF FInv, FopenSoFar, PathSoFar, Apart, Pending, Blocks
  <2>6. FatSoFar' /\ ItemSoFar'
    BY <2>1, <2>4 DEF FInv, FopenSoFar, FatSoFar, ItemSoFar, Held, Blocks, Used
  <2>7. DirectorySoFar'
    BY <2>1, <2>4 DEF FInv, FopenSoFar, DirectorySoFar, Held, Blocks, Free
  <2>8. CloneSoFar'
    BY <2>1, <2>2, <2>4 DEF FInv, FopenSoFar, CloneSoFar, Held, Blocks
  <2>. QED
    BY <2>2, <2>3, <2>5, <2>6, <2>7, <2>8 DEF FInv, FopenSoFar
<1>. QED
  BY <1>1, <1>2, BeginOpenKeepsFInv, BadPathKeepsFInv, CloseKeepsFInv DEF FilesNext

(* The structures of the open files, and those of the fopen under way,     *)
(* whatever has been opened, closed or refused before.                     *)
THEOREM FilesInvariant == FilesSpec => []FInv
  BY InitFInv, NextFInv, PTL DEF FilesSpec

-----------------------------------------------------------------------------
(* What the runs check.                                                    *)

(* Four different blocks are four.                                         *)
LEMMA FourBlocks ==
    ASSUME NEW a, NEW b, NEW c, NEW d,
           a # b, a # c, a # d, b # c, b # d, c # d
    PROVE  Cardinality({a, b, c, d}) = 4
<1>1. IsFiniteSet({a}) /\ Cardinality({a}) = 1
  BY FS_Singleton
<1>2. IsFiniteSet({a, b}) /\ Cardinality({a, b}) = 2
  <2>1. {a, b} = {a} \cup {b} /\ b \notin {a}
    OBVIOUS
  <2>. QED
    BY <1>1, <2>1, FS_AddElement, SMT
<1>3. IsFiniteSet({a, b, c}) /\ Cardinality({a, b, c}) = 3
  <2>1. {a, b, c} = {a, b} \cup {c} /\ c \notin {a, b}
    OBVIOUS
  <2>. QED
    BY <1>2, <2>1, FS_AddElement, SMT
<1>4. {a, b, c, d} = {a, b, c} \cup {d} /\ d \notin {a, b, c}
  OBVIOUS
<1>. QED
  BY <1>3, <1>4, FS_AddElement, SMT

(* The invariant has the types in it.                                      *)
LEMMA FilesAreTyped ==
    ASSUME FInv
    PROVE  FilesTypeOK
<1>1. fo.n \in 0 .. Len(fo.path.parts)
  <2>1. fo.n <= Len(fo.path.parts)
    BY DEF FInv, FopenSoFar, PathSoFar
  <2>. QED
    BY <2>1, PathLength, SMT
<1>. QED
  BY <1>1 DEF FInv, IInv, FilesTyped, Locals, Pointers, FilesTypeOK

(* Type correctness of fopen, fclose and the table of descriptors.         *)
THEOREM FilesTypeCorrect == FilesSpec => []FilesTypeOK
  BY FilesAreTyped, FilesInvariant, PTL

(* Every open descriptor has its own four structures, allocated, apart     *)
(* from those of every other one and of the fopen under way.               *)
THEOREM OpenFilesStandAlone == FilesSpec => []DescriptorsStandAlone
<1>1. FInv => DescriptorsStandAlone
  <2>. SUFFICES ASSUME FInv PROVE DescriptorsStandAlone
    OBVIOUS
  <2>1. ASSUME NEW i \in Open, NEW d, d = file_descriptors[i]
        PROVE  /\ descs[d].index = i + 1 /\ PartsOf(d) = FileBlocks(d)
               /\ Cardinality(PartsOf(d)) = 4 /\ \A b \in PartsOf(d) : live[b] > 0
               /\ PartsOf(d) \cap Pending = {}
    <3>1. Whole(d) /\ descs[d].index = i + 1 /\ FileBlocks(d) \subseteq InUse
      BY <2>1 DEF FInv, OpenWhole, InUse
    <3>2. PartsOf(d) = FileBlocks(d)
      BY <3>1, PartsAreStructures
    <3>3. Cardinality(FileBlocks(d)) = 4
      BY <3>1, FourBlocks DEF Whole, FileBlocks
    <3>4. Pending \cap InUse = {}
      BY DEF FInv, FopenSoFar, Apart
    <3>. QED
      BY <3>1, <3>2, <3>3, <3>4 DEF Whole, Held
  <2>2. ASSUME NEW d \in OpenFiles, NEW e \in OpenFiles, d # e
        PROVE  PartsOf(d) \cap PartsOf(e) = {}
    <3>1. PICK i, j \in Open : d = file_descriptors[i] /\ e = file_descriptors[j]
      BY DEF OpenFiles, Open
    <3>2. FileBlocks(d) \cap FileBlocks(e) = {}
      BY <2>2, <3>1 DEF FInv, OpenWhole
    <3>. QED
      BY <2>1, <3>1, <3>2
  <2>. QED
    BY <2>1, <2>2 DEF DescriptorsStandAlone, Open, Pending
<1>. QED
  BY <1>1, FilesInvariant, PTL

(* A positive answer of fopen names a descriptor of the file it asked for. *)
LEMMA FopenAnswersStep ==
    ASSUME FInv, FilesNext, step = "descriptor", res' > 0
    PROVE  \/ \E b \in Blocks : /\ file_descriptors'[res' - 1] = b /\ FileOf(b)' = fo.slot
                                /\ Root[fo.slot].name = fo.path.parts[1]
                                /\ Len(fo.path.parts) = 1
           \/ \A b \in Blocks : ~Free(b)
<1>1. NewDescriptor
  BY DEF FilesNext, FopenStep, BeginOpen, BadPath, PathRoot, PartString, PathEnded,
         PartStruct, CheckPath, FatDescriptor, Find, FatItem, LoadDirectory, LoadItems,
         FreeDirectory, CloneItem, Close
<1>2. PICK i \in FreeIndex :
        /\ KZalloc(StructSize) /\ res' = i + 1
        /\ file_descriptors' = [file_descriptors EXCEPT ![i] = ret']
        /\ descs' = Put(descs, ret', [index |-> i + 1, private |-> fo.fat])
  BY <1>1 DEF NewDescriptor, Return
<1>3. /\ file_descriptors'[i] = ret' /\ ret' \in Pointers
      /\ IF ret' = NULL THEN Full ELSE FileOf(ret)' = fo.slot
  BY <1>1, <1>2, NewOpenFile DEF NewDescriptor
<1>4. i \in Int /\ res' - 1 = i
  BY <1>2, SlotFree DEF Indices
<1>5. /\ fo.n = 1 /\ fo.n = Len(fo.path.parts)
      /\ Root[fo.slot].name = fo.path.parts[1]
  BY DEF FInv, FopenSoFar, PathSoFar, ItemSoFar, CloneSoFar, HasFat, HasItem
<1>6. CASE ret' = NULL
  BY <1>3, <1>6 DEF Full
<1>7. CASE ret' # NULL
  <2>1. PICK b : b = ret'
    OBVIOUS
  <2>2. b \in Blocks /\ FileOf(b)' = fo.slot
    BY <1>3, <1>7, <2>1 DEF Pointers, FileOf
  <2>. QED
    BY <1>3, <1>4, <1>5, <2>1, <2>2
<1>. QED
  BY <1>6, <1>7

(* The number fopen answers stands for the file that was asked for, unless *)
(* the heap is full.                                                       *)
THEOREM FopenAnswersRight == FilesSpec => FopenAnswersTheFile
<1>1. FInv /\ [FilesNext]_filesVars =>
        [step = "descriptor" /\ res' > 0 =>
          \/ \E b \in Blocks : /\ file_descriptors'[res' - 1] = b /\ FileOf(b)' = fo.slot
                                /\ Root[fo.slot].name = fo.path.parts[1]
                                /\ Len(fo.path.parts) = 1
          \/ \A b \in Blocks : ~Free(b)]_filesVars
  BY FopenAnswersStep
<1>. QED
  BY <1>1, FilesInvariant, PTL DEF FilesSpec, FopenAnswersTheFile

-----------------------------------------------------------------------------
(* The slots implement FileTable: fopen's last allocation opens a number,  *)
(* fclose closes one, and nothing else changes which file one stands for.  *)

Opened == [n \in 1 .. MaxDescriptors |->
              IF file_descriptors[n - 1] = NULL THEN 0 ELSE FileOf(file_descriptors[n - 1])]

(* A number and its slot.                                                  *)
LEMMA NumbersAndSlots ==
    /\ \A n \in 1 .. MaxDescriptors : n - 1 \in Indices
    /\ \A i \in Indices : i + 1 \in 1 .. MaxDescriptors /\ (i + 1) - 1 = i
    /\ \A n \in 1 .. MaxDescriptors, i \in Indices : n - 1 = i <=> n = i + 1
  BY FilesAssumption, SMT DEF Indices

(* The files that are open are those that were.                            *)
LEMMA OpenedKept ==
    ASSUME FInv, UNCHANGED file_descriptors, StructuresKept,
           \A b \in InUse : live'[b] = live[b]
    PROVE  Opened' = Opened
<1>1. \A i \in Open : FileOf(file_descriptors[i])' = FileOf(file_descriptors[i])
  BY OpenFilesKept DEF FInv
<1>2. \A n \in 1 .. MaxDescriptors : file_descriptors[n - 1] # NULL => n - 1 \in Open
  BY NumbersAndSlots DEF Open
<1>. QED
  BY <1>1, <1>2 DEF Opened

(* Every step that is neither the last of an fopen nor an fclose.          *)
LEMMA OtherSteps ==
    ASSUME FInv, FopenStep \/ BadPath \/ (\E path \in Calls : BeginOpen(path)), ~NewDescriptor
    PROVE  Opened' = Opened /\ (res' = res \/ res' = 0)
<1>1. res' = res \/ res' = 0
  BY DEF FopenStep, BadPath, BeginOpen, PathRoot, PartString, PathEnded, PartStruct,
         CheckPath, FatDescriptor, Find, FatItem, LoadDirectory, LoadItems, FreeDirectory,
         CloneItem, Goto, Return
<1>2. UNCHANGED file_descriptors
  BY DEF FopenStep, BadPath, BeginOpen, PathRoot, PartString, PathEnded, PartStruct,
         CheckPath, FatDescriptor, Find, FatItem, LoadDirectory, LoadItems, FreeDirectory,
         CloneItem, memoryVars
<1>3. Pending \cap InUse = {} /\ \A b \in InUse : Held(b)
  BY InUseHeld DEF FInv, FopenSoFar, Apart
<1>4. ASSUME NEW size \in Requests, KZalloc(size), StructuresKept
      PROVE  Opened' = Opened
  BY <1>2, <1>3, <1>4, GrantedApart, OpenedKept
<1>5. CASE UNCHANGED <<vars, memoryVars>>
  <2>1. StructuresKept
    BY <1>5 DEF StructuresKept, Kept, memoryVars
  <2>. QED
    BY <1>1, <1>2, <1>5, <2>1, OpenedKept DEF vars
<1>6. CASE PathRoot \/ PartString \/ PartStruct \/ LoadDirectory
  <2>1. KZalloc(StructSize) /\ UNCHANGED memoryVars
    BY <1>6 DEF PathRoot, PartString, PartStruct, LoadDirectory
  <2>2. StructuresKept
    BY <2>1 DEF StructuresKept, Kept, memoryVars
  <2>. QED
    BY <1>1, <1>4, <2>1, <2>2, StructSizeFits
<1>7. CASE LoadItems
  <2>1. KZalloc(Root[fo.slot].items * ItemSize) /\ UNCHANGED memoryVars
    BY <1>7 DEF LoadItems
  <2>2. StructuresKept
    BY <2>1 DEF StructuresKept, Kept, memoryVars
  <2>3. fo.slot \in Used /\ Root[fo.slot].dir
    BY <1>7 DEF LoadItems, FInv, FopenSoFar, ItemSoFar, DirectorySoFar, HasItem
  <2>4. Root[fo.slot].items * ItemSize \in Requests
    BY <2>3, FilesAssumption DEF Used
  <2>. QED
    BY <1>1, <1>4, <2>1, <2>2, <2>4
<1>8. CASE FatDescriptor \/ FatItem \/ CloneItem
  <2>1. KZalloc(StructSize) /\ StructSize \in Requests
    BY <1>8, StructSizeFits DEF FatDescriptor, FatItem, CloneItem
  <2>2. ret' \notin InUse /\ fo.fat \notin InUse /\ fo.item \notin InUse
    BY <1>3, <2>1, GrantedApart DEF Pending
  <2>3. Kept(descs, descs', InUse)
    BY <1>8, WritesKeep DEF FatDescriptor, FatItem, CloneItem, Kept
  <2>4. Kept(fats, fats', InUse)
    <3>1. \/ fats' = fats \/ fats' = Put(fats, ret', NULL)
          \/ fats' = [fats EXCEPT ![fo.fat] = fo.item]
      BY <1>8 DEF FatDescriptor, FatItem, CloneItem
    <3>2. /\ Kept(fats, fats, InUse) /\ Kept(fats, Put(fats, ret', NULL), InUse)
          /\ Kept(fats, [fats EXCEPT ![fo.fat] = fo.item], InUse)
      BY <2>2, WritesKeep
    <3>. QED
      BY <3>1, <3>2
  <2>5. Kept(items, items', InUse)
    <3>1. \/ items' = items \/ items' = Put(items, ret', NULL)
          \/ items' = [items EXCEPT ![fo.item] = ret']
      BY <1>8 DEF FatDescriptor, FatItem, CloneItem
    <3>2. /\ Kept(items, items, InUse) /\ Kept(items, Put(items, ret', NULL), InUse)
          /\ Kept(items, [items EXCEPT ![fo.item] = ret'], InUse)
      BY <2>2, WritesKeep
    <3>. QED
      BY <3>1, <3>2
  <2>6. Kept(clones, clones', InUse)
    <3>1. clones' = clones \/ clones' = Put(clones, ret', fo.slot)
      BY <1>8 DEF FatDescriptor, FatItem, CloneItem
    <3>. QED
      BY <2>2, <3>1, WritesKeep
  <2>. QED
    BY <1>1, <1>4, <2>1, <2>3, <2>4, <2>5, <2>6 DEF StructuresKept
<1>9. CASE PathEnded \/ FreeDirectory
  <2>1. StructuresKept
    BY <1>9 DEF PathEnded, FreeDirectory, StructuresKept, Kept, memoryVars
  <2>2. \A b \in InUse : live'[b] = live[b]
    <3>1. \A b \in Blocks \ Pending : live'[b] = live[b]
      BY <1>9 DEF PathEnded, FreeDirectory, KFree, FreeAll, Pending, FInv, IInv, TypeOK
    <3>. QED
      BY <1>3, <3>1 DEF Held
  <2>. QED
    BY <1>1, <1>2, <2>1, <2>2, OpenedKept
<1>. QED
  BY <1>1, <1>5, <1>6, <1>7, <1>8, <1>9
  DEF FopenStep, BadPath, BeginOpen, CheckPath, Find

(* The end of fopen is an open of the abstract table, or no step of it.    *)
LEMMA NewDescriptorRefines ==
    ASSUME FInv, NewDescriptor
    PROVE  Promise2!Next
<1>1. ASSUME NEW i \in FreeIndex, KZalloc(StructSize),
             file_descriptors' = [file_descriptors EXCEPT ![i] = ret'],
             descs' = Put(descs, ret', [index |-> i + 1, private |-> fo.fat]),
             Return(i + 1)
      PROVE  Promise2!Next
  <2>1. step = "descriptor" /\ UNCHANGED <<fats, items, clones>>
    BY DEF NewDescriptor
  <2>2. /\ i \in Indices /\ file_descriptors[i] = NULL
        /\ \A j \in Indices \ {i} : file_descriptors'[j] = file_descriptors[j]
        /\ \A j \in Open : FileOf(file_descriptors[j])' = FileOf(file_descriptors[j])
        /\ file_descriptors'[i] = ret' /\ ret' \in Pointers
        /\ IF ret' = NULL THEN Full ELSE FileOf(ret)' = fo.slot /\ fo.slot \in Used
    BY <1>1, <2>1, SlotFree, NewOpenFile
  <2>3. i + 1 \in 1 .. MaxDescriptors /\ (i + 1) - 1 = i
    BY <2>2, NumbersAndSlots
  <2>4. Opened[i + 1] = 0
    BY <2>2, <2>3 DEF Opened
  <2>5. ASSUME NEW n \in 1 .. MaxDescriptors, n # i + 1 PROVE Opened'[n] = Opened[n]
    <3>1. n - 1 \in Indices \ {i}
      BY <2>2, <2>5, NumbersAndSlots
    <3>2. file_descriptors[n - 1] # NULL => n - 1 \in Open
      BY <3>1 DEF Open
    <3>. QED
      BY <2>2, <3>1, <3>2 DEF Opened
  <2>6. res' = i + 1
    BY <1>1 DEF Return
  <2>7. CASE ret' = NULL
    <3>1. Opened'[i + 1] = 0
      BY <2>2, <2>3, <2>7 DEF Opened
    <3>2. Opened' = Opened
      BY <2>4, <2>5, <3>1 DEF Opened
    <3>3. Promise2!Hollow(i + 1)
      BY <2>4, <2>6, <3>2 DEF Promise2!Hollow, Opened
    <3>. QED
      BY <2>3, <3>3 DEF Promise2!Next
  <2>8. CASE ret' # NULL
    <3>1. Opened'[i + 1] = fo.slot /\ fo.slot \in Used
      BY <2>2, <2>3, <2>8 DEF Opened, FileOf
    <3>2. Opened' = [Opened EXCEPT ![i + 1] = fo.slot]
      BY <2>3, <2>5, <3>1 DEF Opened
    <3>3. PICK f : f = fo.slot
      OBVIOUS
    <3>4. Promise2!Open(i + 1, f) /\ f \in Used
      BY <2>4, <2>6, <3>1, <3>2, <3>3 DEF Promise2!Open, Opened
    <3>. QED
      BY <2>3, <3>4 DEF Promise2!Next
  <2>. QED
    BY <2>7, <2>8
<1>2. CASE Return(0) /\ UNCHANGED <<vars, file_descriptors, descs>>
  <2>1. StructuresKept
    BY <1>2 DEF NewDescriptor, StructuresKept, Kept
  <2>2. Opened' = Opened
    BY <1>2, <2>1, OpenedKept DEF vars
  <2>. QED
    BY <1>2, <2>2 DEF Promise2!Next, Promise2!Refuse, Opened, Return
<1>. QED
  BY <1>1, <1>2 DEF NewDescriptor

(* fclose is a close of the abstract table, or no step of it.              *)
LEMMA CloseRefines ==
    ASSUME FInv, NEW fd \in 0 .. (MaxDescriptors + 1), Close(fd)
    PROVE  Promise2!Next
<1>1. CASE Get(fd) = NULL
  <2>1. StructuresKept /\ Opened' = Opened /\ res' = -1
    BY <1>1, OpenedKept DEF Close, StructuresKept, Kept, memoryVars, vars
  <2>. QED
    BY <2>1 DEF Promise2!Next, Promise2!Refuse, Opened
<1>2. CASE Get(fd) # NULL
  <2>1. /\ OpenWhole' /\ fd - 1 \in Open /\ res' = 0
        /\ file_descriptors' = [file_descriptors EXCEPT ![fd - 1] = NULL]
        /\ \A j \in Open' : FileOf(file_descriptors[j])' = FileOf(file_descriptors[j])
    BY <1>2, CloseOpenFile
  <2>2. fd \in 1 .. MaxDescriptors /\ fd - 1 \in Indices
    BY <2>1, NumbersAndSlots, FilesAssumption, SMT DEF Open, Indices
  <2>3. Opened[fd] # 0
    <3>1. Whole(file_descriptors[fd - 1])
      BY <2>1 DEF FInv, OpenWhole
    <3>2. FileOf(file_descriptors[fd - 1]) \in Used
      BY <3>1 DEF Whole, FileOf, Clone, Item, Fat
    <3>3. 0 \notin Used
      BY FilesAssumption, SMT DEF Used
    <3>. QED
      BY <2>1, <2>2, <3>2, <3>3 DEF Opened, Open
  <2>4. \A j \in Indices : file_descriptors'[j] = IF j = fd - 1 THEN NULL
                                                  ELSE file_descriptors[j]
    BY <2>1, <2>2 DEF FInv, FilesTyped
  <2>5. Opened'[fd] = 0
    BY <2>2, <2>4 DEF Opened
  <2>6. ASSUME NEW n \in 1 .. MaxDescriptors, n # fd PROVE Opened'[n] = Opened[n]
    <3>1. n - 1 \in Indices /\ n - 1 # fd - 1
      BY <2>2, <2>6, NumbersAndSlots
    <3>2. file_descriptors'[n - 1] = file_descriptors[n - 1]
      BY <2>4, <3>1
    <3>3. file_descriptors[n - 1] # NULL => n - 1 \in Open'
      BY <3>1, <3>2 DEF Open, Indices
    <3>. QED
      BY <2>1, <3>2, <3>3 DEF Opened
  <2>7. Opened' = [Opened EXCEPT ![fd] = 0]
    BY <2>2, <2>5, <2>6 DEF Opened
  <2>8. Promise2!Close(fd)
    BY <2>1, <2>3, <2>7 DEF Promise2!Close, Opened
  <2>. QED
    BY <2>2, <2>8 DEF Promise2!Next
<1>. QED
  BY <1>1, <1>2

(* Every step of the file layer is a step of the table, or none.           *)
LEMMA FilesNextRefines ==
    FInv /\ [FilesNext]_filesVars => [Promise2!Next]_(Promise2!vars)
<1>. SUFFICES ASSUME FInv, [FilesNext]_filesVars PROVE [Promise2!Next]_(Promise2!vars)
  OBVIOUS
<1>1. CASE NewDescriptor
  BY <1>1, NewDescriptorRefines
<1>2. ASSUME FopenStep \/ BadPath \/ (\E path \in Calls : BeginOpen(path)), ~NewDescriptor
      PROVE  [Promise2!Next]_(Promise2!vars)
  <2>1. Opened' = Opened /\ (res' = res \/ res' = 0)
    BY <1>2, OtherSteps
  <2>2. CASE res' = res
    BY <2>1, <2>2 DEF Promise2!vars, Opened
  <2>3. CASE res' = 0
    BY <2>1, <2>3 DEF Promise2!Next, Promise2!Refuse, Opened
  <2>. QED
    BY <2>1, <2>2, <2>3
<1>3. ASSUME NEW fd \in 0 .. (MaxDescriptors + 1), Close(fd)
      PROVE  Promise2!Next
  BY <1>3, CloseRefines
<1>4. CASE UNCHANGED filesVars
  <2>1. UNCHANGED file_descriptors /\ StructuresKept /\ live' = live /\ res' = res
    BY <1>4 DEF filesVars, fileVars, memoryVars, vars, StructuresKept, Kept
  <2>2. Opened' = Opened
    BY <2>1, OpenedKept
  <2>. QED
    BY <2>1, <2>2 DEF Promise2!vars, Opened
<1>. QED
  BY <1>1, <1>2, <1>3, <1>4 DEF FilesNext

(* fopen and fclose keep the promise of a table of open files.             *)
THEOREM FilesKeepNumbers == FilesSpec => KeepsNumbers
<1>1. FilesInit => Promise2!Init
  <2>. SUFFICES ASSUME FilesInit PROVE Promise2!Init
    OBVIOUS
  <2>1. \A n \in 1 .. MaxDescriptors : file_descriptors[n - 1] = NULL
    <3>1. file_descriptors = [i \in Indices |-> NULL]
      BY DEF FilesInit
    <3>. QED
      BY <3>1, NumbersAndSlots
  <2>2. res = 0
    BY DEF FilesInit
  <2>. QED
    BY <2>1, <2>2 DEF Promise2!Init
<1>. QED
  BY <1>1, FilesNextRefines, FilesInvariant, PTL DEF FilesSpec, KeepsNumbers, Promise2!Spec

-----------------------------------------------------------------------------
(* Blocks that belong to neither an open file nor the fopen under way are  *)
(* left alone by every step of this module: what a caller keeps for itself *)
(* between them stays allocated, and stays its own.                        *)

FopensOwn == Pending \cup (IF step = "descriptor" THEN {items[fo.item]} ELSE {})

Others(S) == \A b \in S : Held(b) /\ b \notin InUse \cup FopensOwn

StillOthers(S) ==
    \A b \in S : Held(b)' /\ b \notin InUse' \cup FopensOwn' /\ live'[b] = live[b]

(* An allocation takes a block that nobody had.                            *)
LEMMA AllocationLeavesOthers ==
    ASSUME FInv, NEW S, Others(S), NEW size \in Requests, KZalloc(size),
           UNCHANGED file_descriptors, StructuresKept,
           FopensOwn' \subseteq FopensOwn \cup {ret', NULL}
    PROVE  StillOthers(S)
<1>1. InUse' = InUse
  BY AllocationKeepsOpenFiles
<1>2. \A b \in S : b # ret' /\ b # NULL /\ Held(b)' /\ live'[b] = live[b]
  BY GrantedApart, NULLAssumption DEF Others, Held, Blocks
<1>. QED
  BY <1>1, <1>2 DEF StillOthers, Others

(* What a step gives back is its own.                                      *)
LEMMA FreeingLeavesOthers ==
    ASSUME NEW S, Others(S), NEW T, FreeAll(T), T \cap S = {},
           InUse' \subseteq InUse, FopensOwn' \subseteq FopensOwn
    PROVE  StillOthers(S)
<1>1. \A b \in S : b \in Blocks /\ b \notin T
  BY DEF Others, Held
<1>2. \A b \in S : live'[b] = live[b]
  BY <1>1 DEF FreeAll
<1>. QED
  BY <1>2 DEF StillOthers, Others, Held, Blocks

(* pathparser_parse keeps the root, the parts and the string.              *)
LEMMA ParsingLeavesOthers ==
    ASSUME FInv, NEW S, Others(S), PathRoot \/ PartString \/ PartStruct
    PROVE  StillOthers(S)
<1>1. /\ KZalloc(StructSize) /\ StructSize \in Requests
      /\ UNCHANGED <<file_descriptors, descs, fats, items, clones>>
      /\ step' # "descriptor"
  BY StructSizeFits DEF PathRoot, PartString, PartStruct, memoryVars, Return, Goto
<1>2. \/ fo' = NoOpen \/ fo' = fo
      \/ fo' = [fo EXCEPT !.str = ret'] \/ fo' = [fo EXCEPT !.n = fo.n + 1]
  BY DEF PathRoot, PartString, PartStruct, Return, Goto
<1>3. fo \in Locals
  BY DEF FInv, FilesTyped
<1>4. Pending' \subseteq Pending \cup {ret', NULL}
  BY <1>2, <1>3 DEF Pending, NoOpen, Locals
<1>5. StructuresKept
  BY <1>1 DEF StructuresKept, Kept
<1>. QED
  BY <1>1, <1>4, <1>5, AllocationLeavesOthers DEF FopensOwn

(* The three structures that fat16_open makes before the clone.            *)
LEMMA MakingLeavesOthers ==
    ASSUME FInv, NEW S, Others(S), FatDescriptor \/ FatItem \/ LoadDirectory
    PROVE  StillOthers(S)
<1>1. /\ KZalloc(StructSize) /\ StructSize \in Requests
      /\ UNCHANGED <<file_descriptors, descs, clones>>
      /\ fats' = fats \/ fats' = Put(fats, ret', NULL)
      /\ items' = items \/ items' = Put(items, ret', NULL)
      /\ step' # "descriptor"
  <2>1. CASE FatDescriptor
    BY <2>1, StructSizeFits DEF FatDescriptor, Return, Goto
  <2>2. CASE FatItem
    BY <2>2, StructSizeFits DEF FatItem, Return, Goto
  <2>3. CASE LoadDirectory
    BY <2>3, StructSizeFits DEF LoadDirectory, memoryVars, Goto
  <2>. QED
    BY <2>1, <2>2, <2>3
<1>2. \/ fo' = NoOpen \/ fo' = fo \/ fo' = [fo EXCEPT !.fat = ret']
      \/ fo' = [fo EXCEPT !.item = ret'] \/ fo' = [fo EXCEPT !.dir = ret']
  BY DEF FatDescriptor, FatItem, LoadDirectory, Return, Goto
<1>3. fo \in Locals
  BY DEF FInv, FilesTyped
<1>4. Pending' \subseteq Pending \cup {ret', NULL}
  BY <1>2, <1>3 DEF Pending, NoOpen, Locals
<1>5. ret' \notin InUse
  BY <1>1, GrantedApart
<1>6. StructuresKept
  <2>1. Kept(descs, descs', InUse) /\ Kept(clones, clones', InUse)
    BY <1>1 DEF Kept
  <2>2. Kept(fats, fats', InUse)
    BY <1>1, <1>5, WritesKeep DEF Kept
  <2>3. Kept(items, items', InUse)
    BY <1>1, <1>5, WritesKeep DEF Kept
  <2>. QED
    BY <2>1, <2>2, <2>3 DEF StructuresKept
<1>. QED
  BY <1>1, <1>4, <1>6, AllocationLeavesOthers DEF FopensOwn

(* The entries of a directory, of any size.                                *)
LEMMA LoadItemsLeavesOthers ==
    ASSUME FInv, NEW S, Others(S), LoadItems
    PROVE  StillOthers(S)
<1>1. /\ KZalloc(Root[fo.slot].items * ItemSize) /\ step = "dir_items"
      /\ UNCHANGED <<file_descriptors, descs, fats, items, clones>>
      /\ fo' = [fo EXCEPT !.list = ret'] /\ step' # "descriptor"
  BY DEF LoadItems, Goto, memoryVars
<1>2. fo \in Locals /\ Root[fo.slot].dir /\ fo.slot \in Used
  BY <1>1 DEF FInv, FilesTyped, FopenSoFar, DirectorySoFar, ItemSoFar, HasItem
<1>3. Root[fo.slot].items * ItemSize \in Requests
  BY <1>2, FilesAssumption DEF Used
<1>4. Pending' \subseteq Pending \cup {ret', NULL}
  BY <1>1, <1>2 DEF Pending, Locals
<1>5. StructuresKept
  BY <1>1 DEF StructuresKept, Kept
<1>. QED
  BY <1>1, <1>3, <1>4, <1>5, AllocationLeavesOthers DEF FopensOwn

(* The clone is kept by the item, and so by the fopen under way.           *)
LEMMA CloneItemLeavesOthers ==
    ASSUME FInv, NEW S, Others(S), CloneItem
    PROVE  StillOthers(S)
<1>1. /\ KZalloc(StructSize) /\ StructSize \in Requests /\ step = "clone"
      /\ UNCHANGED <<file_descriptors, descs>>
      /\ items' = [items EXCEPT ![fo.item] = ret']
      /\ clones' = IF ret' = NULL THEN clones ELSE Put(clones, ret', fo.slot)
      /\ fats' = IF fo.n > 1 THEN fats ELSE [fats EXCEPT ![fo.fat] = fo.item]
      /\ (fo' = NoOpen /\ step' = "idle") \/ fo' = fo
  BY StructSizeFits DEF CloneItem, Return, Goto
<1>2. fo.item \in DOMAIN items /\ fo.fat \notin InUse /\ fo.item \notin InUse
  BY <1>1 DEF FInv, FopenSoFar, ItemSoFar, Apart, HasItem, Pending
<1>3. items'[fo.item] = ret'
  BY <1>1, <1>2
<1>4. ret' \notin InUse
  BY <1>1, GrantedApart
<1>5. StructuresKept
  BY <1>1, <1>2, <1>4, WritesKeep DEF StructuresKept
<1>6. FopensOwn' \subseteq FopensOwn \cup {ret', NULL}
  BY <1>1, <1>3 DEF FopensOwn, Pending, NoOpen
<1>. QED
  BY <1>1, <1>5, <1>6, AllocationLeavesOthers

(* What was the fopen's becomes the open file's.                           *)
LEMMA NewDescriptorLeavesOthers ==
    ASSUME FInv, NEW S, Others(S), NewDescriptor
    PROVE  StillOthers(S)
<1>1. step = "descriptor" /\ fo' = NoOpen /\ step' = "idle" /\ UNCHANGED <<fats, items, clones>>
  BY DEF NewDescriptor, Return
<1>2. FopensOwn' = {NULL}
  BY <1>1 DEF FopensOwn, Pending, NoOpen
<1>3. NULL \notin S
  BY NULLAssumption DEF Others, Held, Blocks
<1>4. CASE UNCHANGED <<vars, file_descriptors, descs>>
  <2>1. UNCHANGED <<vars, file_descriptors, memoryVars>>
    BY <1>1, <1>4 DEF memoryVars
  <2>2. InUse' = InUse /\ live' = live
    BY <2>1, QuietKeepsOpenFiles DEF vars
  <2>. QED
    BY <1>2, <1>3, <2>2 DEF StillOthers, Others, Held, Blocks
<1>5. ASSUME NEW i \in FreeIndex, KZalloc(StructSize),
             file_descriptors' = [file_descriptors EXCEPT ![i] = ret'],
             descs' = Put(descs, ret', [index |-> i + 1, private |-> fo.fat])
      PROVE  StillOthers(S)
  <2>1. /\ StructSize \in Requests /\ i \in Indices
        /\ file_descriptors \in [Indices -> Pointers]
        /\ fats[fo.fat] = fo.item
    BY <1>1, StructSizeFits, SlotFree DEF FInv, FilesTyped, FopenSoFar, CloneSoFar
  <2>2. \A b : Held(b) => b # ret' /\ Held(b)' /\ live'[b] = live[b]
    BY <1>5, <2>1, GrantedApart
  <2>3. ASSUME NEW j \in Open', NEW b \in FileBlocks(file_descriptors[j])'
        PROVE  b \notin S
    <3>1. PICK d : d = file_descriptors'[j]
      OBVIOUS
    <3>2. b \in FileBlocks(d)' /\ d # NULL /\ j \in Indices
      BY <2>3, <3>1 DEF Open, Indices
    <3>3. CASE d = ret'
      <4>1. Fat(d)' = fo.fat
        BY <1>5, <3>3 DEF Fat, Put
      <4>2. Item(d)' = fo.item
        BY <1>1, <2>1, <4>1 DEF Item
      <4>3. Clone(d)' = items[fo.item]
        BY <1>1, <4>2 DEF Clone
      <4>4. b \in {ret', fo.fat, fo.item, items[fo.item]}
        BY <3>2, <3>3, <4>1, <4>2, <4>3 DEF FileBlocks
      <4>. QED
        BY <1>1, <2>2, <4>4 DEF Others, FopensOwn, Pending
    <3>4. CASE d # ret'
      <4>1. j \in Open /\ d = file_descriptors[j]
        BY <1>5, <2>1, <3>1, <3>2, <3>4 DEF Open
      <4>2. Whole(d)
        BY <4>1 DEF FInv, OpenWhole
      <4>3. descs'[d] = descs[d]
        BY <1>5, <3>4, <4>2 DEF Put, Whole
      <4>4. Fat(d)' = Fat(d)
        BY <4>3 DEF Fat
      <4>5. Item(d)' = Item(d)
        BY <1>1, <4>4 DEF Item
      <4>6. Clone(d)' = Clone(d)
        BY <1>1, <4>5 DEF Clone
      <4>7. FileBlocks(d)' = FileBlocks(d)
        BY <4>4, <4>5, <4>6 DEF FileBlocks
      <4>8. b \in InUse
        BY <3>2, <4>1, <4>7 DEF InUse
      <4>. QED
        BY <4>8 DEF Others
    <3>. QED
      BY <3>3, <3>4
  <2>4. InUse' \cap S = {}
    BY <2>3 DEF InUse
  <2>. QED
    BY <1>2, <1>3, <2>2, <2>4 DEF StillOthers, Others
<1>. QED
  BY <1>4, <1>5 DEF NewDescriptor

(* A step that neither allocates nor frees.                                *)
LEMMA QuietLeavesOthers ==
    ASSUME FInv, NEW S, Others(S), UNCHANGED <<vars, file_descriptors, memoryVars>>,
           Pending' \subseteq Pending \cup {NULL}, step' # "descriptor"
    PROVE  StillOthers(S)
<1>1. InUse' = InUse /\ live' = live
  BY QuietKeepsOpenFiles DEF vars
<1>2. FopensOwn' \subseteq FopensOwn \cup {NULL}
  BY DEF FopensOwn
<1>3. NULL \notin S
  BY NULLAssumption DEF Others, Held, Blocks
<1>. QED
  BY <1>1, <1>2, <1>3 DEF StillOthers, Others, Held, Blocks

(* Each step of fopen, the two that free included.                         *)
LEMMA FopenLeavesOthers ==
    ASSUME FInv, NEW S, Others(S), FopenStep
    PROVE  StillOthers(S)
<1>1. CASE PathEnded
  <2>1. /\ KFree(fo.str) /\ step' = "parsed" /\ fo' = fo /\ step = "ended"
        /\ UNCHANGED <<file_descriptors, descs, fats, items, clones>>
    BY <1>1 DEF PathEnded, Goto, memoryVars
  <2>2. \A b \in S : b # fo.str /\ b \in Blocks
    BY DEF Others, FopensOwn, Pending, Held
  <2>3. \A b \in S : live'[b] = live[b]
    BY <2>1, <2>2 DEF KFree, FInv, IInv, TypeOK
  <2>4. fo.str \notin InUse
    BY DEF FInv, FopenSoFar, Apart, Pending
  <2>5. \A b \in InUse : live'[b] = live[b]
    BY <2>1, <2>4, InUseHeld DEF KFree, FInv, IInv, TypeOK, Held
  <2>6. InUse' = InUse
    BY <2>1, <2>5, OpenFilesKept DEF FInv, StructuresKept, Kept
  <2>7. FopensOwn' \subseteq FopensOwn
    BY <2>1 DEF FopensOwn, Pending
  <2>. QED
    BY <2>3, <2>6, <2>7 DEF StillOthers, Others, Held, Blocks
<1>2. CASE FreeDirectory
  <2>1. /\ FreeAll({fo.dir, fo.list} \ {NULL}) /\ step' = "clone" /\ fo' = fo
        /\ UNCHANGED <<file_descriptors, descs, fats, items, clones>>
    BY <1>2 DEF FreeDirectory, Goto, memoryVars
  <2>2. ({fo.dir, fo.list} \ {NULL}) \cap S = {}
    BY DEF Others, FopensOwn, Pending
  <2>3. {fo.dir, fo.list} \cap InUse = {}
    BY DEF FInv, FopenSoFar, Apart, Pending
  <2>4. \A b \in InUse : live'[b] = live[b]
    BY <2>1, <2>3, InUseHeld DEF FreeAll, FInv, Held
  <2>5. InUse' = InUse
    BY <2>1, <2>4, OpenFilesKept DEF FInv, StructuresKept, Kept
  <2>6. FopensOwn' \subseteq FopensOwn
    BY <2>1 DEF FopensOwn, Pending
  <2>. QED
    BY <2>1, <2>2, <2>5, <2>6, FreeingLeavesOthers
<1>3. CASE CheckPath \/ Find
  <2>1. /\ UNCHANGED <<vars, file_descriptors, memoryVars>> /\ step' # "descriptor"
        /\ \/ fo' = NoOpen \/ fo' = fo
           \/ \E i : fo' = [fo EXCEPT !.slot = i]
    BY <1>3 DEF CheckPath, Find, Return, Goto
  <2>2. Pending' \subseteq Pending \cup {NULL}
    BY <2>1 DEF Pending, NoOpen, FInv, FilesTyped, Locals
  <2>. QED
    BY <2>1, <2>2, QuietLeavesOthers
<1>. QED
  BY <1>1, <1>2, <1>3, ParsingLeavesOthers, MakingLeavesOthers, LoadItemsLeavesOthers,
     CloneItemLeavesOthers, NewDescriptorLeavesOthers DEF FopenStep

(* The call.                                                               *)
LEMMA BeginOpenLeavesOthers ==
    ASSUME FInv, NEW S, Others(S), NEW path, BeginOpen(path)
    PROVE  StillOthers(S)
<1>1. /\ UNCHANGED <<vars, file_descriptors, memoryVars>> /\ step' = "root"
      /\ fo' = [NoOpen EXCEPT !.path = path]
  BY DEF BeginOpen, Goto
<1>2. Pending' \subseteq Pending \cup {NULL}
  BY <1>1 DEF Pending, NoOpen
<1>. QED
  BY <1>1, <1>2, QuietLeavesOthers

(* fclose frees the four blocks of the file, which are its own.            *)
LEMMA CloseLeavesOthers ==
    ASSUME FInv, NEW S, Others(S), NEW fd \in 0 .. (MaxDescriptors + 1), Close(fd)
    PROVE  StillOthers(S)
<1>1. step = "idle" /\ UNCHANGED <<step, fo, descs, fats, items, clones>>
  BY DEF Close, memoryVars
<1>2. CASE Get(fd) = NULL
  <2>1. UNCHANGED <<vars, file_descriptors, memoryVars>>
    BY <1>2 DEF Close
  <2>2. Pending' \subseteq Pending \cup {NULL} /\ step' # "descriptor"
    BY <1>1 DEF Pending
  <2>. QED
    BY <2>1, <2>2, QuietLeavesOthers
<1>3. CASE Get(fd) # NULL
  <2>1. /\ fd - 1 \in Open /\ Get(fd) = file_descriptors[fd - 1]
        /\ file_descriptors' = [file_descriptors EXCEPT ![fd - 1] = NULL]
    BY <1>3, CloseOpenFile DEF Get
  <2>2. PICK d : d = Get(fd)
    OBVIOUS
  <2>3. Whole(d) /\ FreeAll(PartsOf(d)) /\ FileBlocks(d) \subseteq InUse
    BY <1>3, <2>1, <2>2 DEF Close, FInv, OpenWhole, InUse
  <2>4. PartsOf(d) \cap S = {}
    BY <2>3, PartsAreStructures DEF Others
  <2>5. Open' \subseteq Open /\ \A j \in Open' : file_descriptors'[j] = file_descriptors[j]
    BY <2>1 DEF Open, Indices, FInv, FilesTyped
  <2>6. \A e : FileBlocks(e)' = FileBlocks(e)
    BY <1>1 DEF FileBlocks, Fat, Item, Clone
  <2>7. ASSUME NEW j \in Open'
        PROVE  FileBlocks(file_descriptors[j])' = FileBlocks(file_descriptors[j])
    <3>1. PICK e : e = file_descriptors[j] /\ e = file_descriptors'[j]
      BY <2>5
    <3>. QED
      BY <2>6, <3>1
  <2>8. InUse' \subseteq InUse
    BY <2>5, <2>7 DEF InUse
  <2>9. FopensOwn' = FopensOwn
    BY <1>1 DEF FopensOwn, Pending
  <2>. QED
    BY <2>3, <2>4, <2>8, <2>9, FreeingLeavesOthers
<1>. QED
  BY <1>2, <1>3
=============================================================================
