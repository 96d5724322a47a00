------------------------------- MODULE Files --------------------------------
(***************************************************************************)
(* Opening and closing files: src/src/fs/file.c, the path parser           *)
(* (pparser.c) and the opening half of fat/fat16.c, over the kernel heap.  *)
(*                                                                         *)
(* fopen makes up to a dozen allocations, most of them unchecked, and      *)
(* returns 0 from half a dozen places; it is taken allocation by           *)
(* allocation. The structures are kept by the heap block they live in. One *)
(* that lands at the null pointer is written there and never read again.   *)
(*                                                                         *)
(* The disk has one root directory, a sequence of slots. The loop that     *)
(* searches it looks at as many slots as there are names in use, deleted   *)
(* slots included. Seeking and reading are module Fat16's.                 *)
(***************************************************************************)
EXTENDS Heap, Sequences, FiniteSets

CONSTANTS
    MaxDescriptors, \* GUAVAOS_MAX_FILE_DESCRIPTORS
    StructSize,     \* the size of every structure allocated here
    ItemSize,       \* sizeof(struct fat_directory_item)
    Root,           \* the slots of the root directory, as a sequence
    Deleted,        \* the name of a slot whose file was deleted
    Calls,          \* what fopen is called with: drive, parts, mode is "r"
    BootSizes,      \* how much of the heap is in use from the start
    MaxOpens        \* bound: the number of fopen calls with a good path

ASSUME FilesAssumption ==
    /\ MaxDescriptors \in Nat \ {0} /\ ItemSize \in Nat /\ MaxOpens \in Nat
    /\ BootSizes \subseteq 0 .. Total
    /\ StructSize \in Requests /\ BlocksOf(StructSize) = 1
    /\ Len(Root) \in Nat /\ DOMAIN Root = 1 .. Len(Root)
    /\ \A i, j \in DOMAIN Root :
          Root[i].name = Root[j].name /\ Root[i].name # Deleted => i = j
    /\ \A i \in DOMAIN Root : Root[i].dir => Root[i].items * ItemSize \in Requests
    /\ \A path \in Calls : /\ Len(path.parts) \in Nat
                            /\ \A k \in 1 .. Len(path.parts) : path.parts[k] # Deleted

VARIABLES
    file_descriptors,   \* the slots: a block with a file_descriptor, or NULL
    descs,      \* descs[b]: index and private of the file_descriptor at b
    fats,       \* fats[b]: the item pointer of the fat_file_descriptor at b
    items,      \* items[b]: the item pointer of the fat_item at b
    clones,     \* clones[b]: the root slot that the directory item at b copies
    step, fo,   \* where fopen stands, and its locals
    opens,      \* how many calls of fopen have begun
    res         \* what the last call returned: a descriptor, 0, or -1

memoryVars == <<descs, fats, items, clones>>
fileVars == <<file_descriptors, memoryVars, step, fo, opens, res>>
filesVars == <<vars, fileVars>>

Indices == 0 .. (MaxDescriptors - 1)
NoOpen == [path |-> [drive |-> 0, parts |-> <<>>, read |-> TRUE], n |-> 0,
           str |-> NULL, fat |-> NULL, slot |-> 0, item |-> NULL, dir |-> NULL, list |-> NULL]

(* Streams and the root directory, never released, fill the lower blocks.  *)
BootInit(used) ==
    /\ entries = [b \in Blocks |-> IF b < used THEN {"taken", "is_first"} ELSE {}]
    /\ live = [b \in Blocks |-> IF b < used THEN 1 ELSE 0]
    /\ past = {} /\ ret = NULL /\ asked = 0 /\ zeroed = {}

FilesInit ==
    /\ \E used \in BootSizes : BootInit(used)
    /\ file_descriptors = [i \in Indices |-> NULL]
    /\ descs = <<>> /\ fats = <<>> /\ items = <<>> /\ clones = <<>>
    /\ step = "idle" /\ fo = NoOpen /\ opens = 0 /\ res = 0

(* fopen ends in "out" with what it returns.                               *)
Return(n) == step' = "idle" /\ fo' = NoOpen /\ res' = n

Goto(l, locals) == step' = l /\ fo' = locals /\ UNCHANGED res

-----------------------------------------------------------------------------
(* pathparser_parse. Badly formatted paths are refused before anything is  *)
(* allocated: parts of a path here are those of a well formatted one.      *)
BeginOpen(path) ==
    /\ step = "idle" /\ opens < MaxOpens
    /\ opens' = opens + 1
    /\ Goto("root", [NoOpen EXCEPT !.path = path])
    /\ UNCHANGED <<vars, file_descriptors, memoryVars>>

BadPath ==
    /\ step = "idle"
    /\ Return(0)
    /\ UNCHANGED <<vars, file_descriptors, memoryVars, opens>>

PathRoot ==
    /\ step = "root"
    /\ KZalloc(StructSize)
    /\ IF ret' = NULL THEN Return(0) ELSE Goto("string", fo)
    /\ UNCHANGED <<file_descriptors, memoryVars, opens>>

(* The string comes first; it is given back when the path has ended. A     *)
(* failed allocation ends the path as if there were no more parts.         *)
PartString_PastEnd ==
    /\ step = "string"
    /\ KZalloc(StructSize)
    /\ Goto(IF ret' = NULL THEN "parsed"
            ELSE IF fo.n <= Len(fo.path.parts) THEN "part" ELSE "ended",
            [fo EXCEPT !.str = ret'])
    /\ UNCHANGED <<file_descriptors, memoryVars, opens>>

PartString ==
    /\ step = "string"
    /\ KZalloc(StructSize)
    /\ Goto(IF ret' = NULL THEN "parsed"
            ELSE IF fo.n < Len(fo.path.parts) THEN "part" ELSE "ended",
            [fo EXCEPT !.str = ret'])
    /\ UNCHANGED <<file_descriptors, memoryVars, opens>>

PathEnded ==
    /\ step = "ended"
    /\ KFree(fo.str)
    /\ Goto("parsed", fo)
    /\ UNCHANGED <<file_descriptors, memoryVars, opens>>

PartStruct ==
    /\ step = "part"
    /\ KZalloc(StructSize)
    /\ IF ret' = NULL THEN Goto("parsed", fo)
                      ELSE Goto("string", [fo EXCEPT !.n = @ + 1])
    /\ UNCHANGED <<file_descriptors, memoryVars, opens>>

(* No part at all, no such disk, or not the mode that fat16_open allows.   *)
CheckPath ==
    /\ step = "parsed"
    /\ IF fo.n = 0 \/ fo.path.drive # 0 \/ ~fo.path.read THEN Return(0) ELSE Goto("fat", fo)
    /\ UNCHANGED <<vars, file_descriptors, memoryVars, opens>>

-----------------------------------------------------------------------------
(* fat16_open. fat16_get_total_items_for_directory counts the names in use.*)
Used == {i \in DOMAIN Root : Root[i].name # Deleted}
Searched == 1 .. Cardinality(Used)

Matches_Anything(name) == {i \in Searched : Root[i].name # Deleted}

Matches(name) == {i \in Searched : Root[i].name = name}

FatDescriptor ==
    /\ step = "fat"
    /\ KZalloc(StructSize)
    /\ IF ret' = NULL THEN Return(0) /\ UNCHANGED fats
       ELSE /\ fats' = Put(fats, ret', NULL)
            /\ Goto("find", [fo EXCEPT !.fat = ret'])
    /\ UNCHANGED <<file_descriptors, descs, items, clones, opens>>

(* fat16_find_item_in_directory; a file that is not there costs fopen its  *)
(* path and the descriptor just allocated.                                 *)
Find ==
    /\ step = "find"
    /\ \/ \E i \in Matches(fo.path.parts[1]) : Goto("item", [fo EXCEPT !.slot = i])
       \/ Matches(fo.path.parts[1]) = {} /\ Return(0)
    /\ UNCHANGED <<vars, file_descriptors, memoryVars, opens>>

FatItem ==
    /\ step = "item"
    /\ KZalloc(StructSize)
    /\ IF ret' = NULL THEN Return(0) /\ UNCHANGED items
       ELSE /\ items' = Put(items, ret', NULL)
            /\ Goto(IF Root[fo.slot].dir THEN "dir" ELSE "clone", [fo EXCEPT !.item = ret'])
    /\ UNCHANGED <<file_descriptors, descs, fats, clones, opens>>

(* fat16_load_fat_directory, the reading of the entries included, which    *)
(* may fail. The pointer it returns, dangling or not, is overwritten in    *)
(* the union by the copy of the directory item.                            *)
LoadDirectory ==
    /\ step = "dir"
    /\ KZalloc(StructSize)
    /\ IF ret' = NULL THEN Goto("clone", fo) ELSE Goto("dir_items", [fo EXCEPT !.dir = ret'])
    /\ UNCHANGED <<file_descriptors, memoryVars, opens>>

LoadItems ==
    /\ step = "dir_items"
    /\ KZalloc(Root[fo.slot].items * ItemSize)
    /\ \/ ret' # NULL /\ Goto("clone", [fo EXCEPT !.list = ret'])
       \/ Goto("undo_dir", [fo EXCEPT !.list = ret'])
    /\ UNCHANGED <<file_descriptors, memoryVars, opens>>

FreeDirectory ==
    /\ step = "undo_dir"
    /\ FreeAll({fo.dir, fo.list} \ {NULL})
    /\ Goto("clone", fo)
    /\ UNCHANGED <<file_descriptors, memoryVars, opens>>

(* fat16_clone_directory_item, its result unchecked; every item has type   *)
(* FILE, so that a path of two parts ends here.                            *)
CloneItem ==
    /\ step = "clone"
    /\ KZalloc(StructSize)
    /\ items' = [items EXCEPT ![fo.item] = ret']
    /\ clones' = IF ret' = NULL THEN clones ELSE Put(clones, ret', fo.slot)
    /\ IF fo.n > 1 THEN Return(0) /\ UNCHANGED fats
       ELSE /\ fats' = [fats EXCEPT ![fo.fat] = fo.item]
            /\ Goto("descriptor", fo)
    /\ UNCHANGED <<file_descriptors, descs, opens>>

-----------------------------------------------------------------------------
(* file_new_descriptor. kzalloc is not checked: without memory, the slot   *)
(* stays empty and its number is returned all the same.                    *)
FreeIndex_Count ==
    {i \in Indices : i = Cardinality({j \in Indices : file_descriptors[j] # NULL})}

FreeIndex ==
    {i \in Indices : file_descriptors[i] = NULL
                     /\ \A j \in 0 .. (i - 1) : file_descriptors[j] # NULL}

NewDescriptor ==
    /\ step = "descriptor"
    /\ \/ \E i \in FreeIndex :
            /\ KZalloc(StructSize)
            /\ file_descriptors' = [file_descriptors EXCEPT ![i] = ret']
            /\ descs' = Put(descs, ret', [index |-> i + 1, private |-> fo.fat])
            /\ Return(i + 1)
       \/ /\ FreeIndex = {}
          /\ Return(0)
          /\ UNCHANGED <<vars, file_descriptors, descs>>
    /\ UNCHANGED <<fats, items, clones, opens>>

(* file_get_descriptor.                                                    *)
Get(fd) ==
    IF fd <= 0 \/ fd >= MaxDescriptors THEN NULL ELSE file_descriptors[fd - 1]

(* The blocks fat16_close and file_free_descriptor hand to kfree: the copy *)
(* of the directory item, the item, the two descriptors.                   *)
PartsOf_KeepsFat(d) ==
    LET fat == descs[d].private
    IN  {items[fats[fat]], fats[fat], d} \ {NULL}

PartsOf(d) ==
    LET fat == descs[d].private
    IN  {items[fats[fat]], fats[fat], fat, d} \ {NULL}

ClearedIndex_Number(d) == descs[d].index

ClearedIndex(d) == descs[d].index - 1

(* fclose, whose answer is 0: fat16_close never fails.                     *)
Close(fd) ==
    /\ step = "idle"
    /\ IF Get(fd) = NULL
       THEN res' = -1 /\ UNCHANGED <<vars, file_descriptors>>
       ELSE /\ FreeAll(PartsOf(Get(fd)))
            /\ file_descriptors' = [file_descriptors EXCEPT ![ClearedIndex(Get(fd))] = NULL]
            /\ res' = 0
    /\ UNCHANGED <<memoryVars, step, fo, opens>>

FopenStep ==
    \/ PathRoot \/ PartString \/ PathEnded \/ PartStruct \/ CheckPath
    \/ FatDescriptor \/ Find \/ FatItem
    \/ LoadDirectory \/ LoadItems \/ FreeDirectory \/ CloneItem
    \/ NewDescriptor

FilesNext ==
    \/ \E path \in Calls : BeginOpen(path)
    \/ BadPath
    \/ FopenStep
    \/ \E fd \in 0 .. (MaxDescriptors + 1) : Close(fd)

FilesSpec == FilesInit /\ [][FilesNext]_filesVars

-----------------------------------------------------------------------------
OpenFiles == {d \in {file_descriptors[i] : i \in Indices} : d # NULL}

FileOf(d) == clones[items[fats[descs[d].private]]]

(* Slots and locals are null or blocks, answers are descriptor numbers.    *)
FilesTypeOK ==
    /\ TypeOK
    /\ file_descriptors \in [Indices -> Blocks \cup {NULL}]
    /\ {fo.str, fo.fat, fo.item, fo.dir, fo.list} \subseteq Blocks \cup {NULL}
    /\ fo.n \in 0 .. Len(fo.path.parts) /\ fo.slot \in {0} \cup Used
    /\ res \in -1 .. MaxDescriptors

(* The four blocks a descriptor is made of are allocated, are no other     *)
(* descriptor's, and are not those of an fopen that is under way; each slot*)
(* holds the descriptor whose index leads back to it. No sequence of       *)
(* fopen, of any way of its failing, and of fclose frees a structure that  *)
(* an open file still uses.                                                *)
DescriptorsStandAlone ==
    /\ \A i \in Indices : file_descriptors[i] # NULL =>
          /\ descs[file_descriptors[i]].index = i + 1
          /\ Cardinality(PartsOf(file_descriptors[i])) = 4
          /\ \A b \in PartsOf(file_descriptors[i]) : live[b] > 0
          /\ PartsOf(file_descriptors[i]) \cap {fo.str, fo.fat, fo.item, fo.dir, fo.list} = {}
    /\ \A d, e \in OpenFiles : d # e => PartsOf(d) \cap PartsOf(e) = {}

(* The number that an fopen answers is that of a slot with a descriptor    *)
(* for the file that was asked for, through its item and the copy of its   *)
(* directory entry; only with the heap full is it not.                     *)
FopenAnswersTheFile ==
    [][step = "descriptor" /\ res' > 0 =>
          \/ \E b \in Blocks : /\ file_descriptors'[res' - 1] = b /\ FileOf(b)' = fo.slot
                                /\ Root[fo.slot].name = fo.path.parts[1]
                                /\ Len(fo.path.parts) = 1
          \/ \A b \in Blocks : ~Free(b)]_filesVars

(* The slots keep the promise of FileTable.                                *)
Promise2 == INSTANCE FileTable WITH
    Numbers <- 1 .. MaxDescriptors, Files <- Used, Closed <- 0,
    opened <- [n \in 1 .. MaxDescriptors |->
                  IF file_descriptors[n - 1] = NULL THEN 0 ELSE FileOf(file_descriptors[n - 1])],
    answer <- res

KeepsNumbers == Promise2!Spec

(* file.c:84 and file.c:102 number the descriptors from 1, one per slot:   *)
(* the number of every open descriptor leads to it.                        *)
EveryOpenFileIsFound == \A d \in OpenFiles : Get(descs[d].index) = d
=============================================================================
