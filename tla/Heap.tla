-------------------------------- MODULE Heap --------------------------------
(***************************************************************************)
(* The kernel heap: src/src/memory/heap/heap.c and kheap.c.                *)
(*                                                                         *)
(* A table holds one byte per block. A request is rounded up to whole      *)
(* blocks, the table is scanned from its start, and the blocks found are   *)
(* marked; a release follows the HAS_NEXT flags. Entries are sets of       *)
(* flags, the empty set being HEAP_BLOCK_TABLE_ENTRY_FREE.                 *)
(*                                                                         *)
(* The code has no bound check when it marks blocks. Writes beyond the     *)
(* table are kept in "past"; nothing ever takes them back.                 *)
(*                                                                         *)
(* Blocks are numbered from the heap's start, and an address has 32 bits:  *)
(* the address space is AddressBlocks blocks that go round. Its last       *)
(* HeapPage blocks, the addresses from 0 to the heap, hold the table, the  *)
(* kernel and its stacks, and memset may run into them. The marks of an    *)
(* allocation beyond the table run into the kernel's image from index      *)
(* ImageEntry on. The machine does not survive either, so no step follows. *)
(*                                                                         *)
(* A definition named D_Variant is D with a plausible mistake in it; the   *)
(* specification never uses it, and D in its place breaks a property.      *)
(***************************************************************************)
EXTENDS Integers

CONSTANTS
    Total,      \* table->total: the blocks of the heap
    BlockSize,  \* GUAVAOS_HEAP_BLOCK_SIZE
    SizeMod,    \* 2^32 in the code: sizes are uint32_t and wrap
    HeapPage,   \* GUAVAOS_HEAP_ADDRESS in blocks: what lies below the heap
    ImageEntry, \* the index at which table->entries[i] is the kernel's image
    Requests,   \* the sizes, in bytes, that callers ask for
    NULL        \* the null pointer

ASSUME TotalAssumption == Total \in Nat \ {0}
ASSUME BlockSizeAssumption == BlockSize \in Nat \ {0}
ASSUME SizeModAssumption == SizeMod \in Nat \ {0} /\ SizeMod % BlockSize = 0
ASSUME AddressAssumption ==
    /\ HeapPage \in Nat \ {0} /\ ImageEntry \in Nat
    /\ Total <= ImageEntry /\ ImageEntry <= (SizeMod \div BlockSize) - HeapPage
ASSUME RequestsAssumption == Requests \subseteq 0 .. (SizeMod - 1)
ASSUME NULLAssumption == NULL \notin Int

VARIABLES
    entries,    \* table->entries, a set of flags per block of the heap
    past,       \* the indices beyond the table that marking has overwritten
    live,       \* live[b]: blocks owned by the caller that got b (0: nobody)
    ret,        \* what the last kmalloc or kzalloc returned: a block, or NULL
    asked,      \* and how many blocks it was for
    zeroed      \* the memory the last step filled with zeros (kzalloc)

vars == <<entries, past, live, ret, asked, zeroed>>

Blocks == 0 .. (Total - 1)

AddressBlocks == SizeMod \div BlockSize

KernelBlocks == (AddressBlocks - HeapPage) .. (AddressBlocks - 1)

(* f with x mapped to y: the modules above keep memory this way.           *)
Put(f, x, y) == [z \in DOMAIN f \cup {x} |-> IF z = x THEN y ELSE f[z]]

Flags == {"taken", "has_next", "is_first"}

-----------------------------------------------------------------------------
(* Rounding a size to blocks: heap_align_value_to_upper and heap_malloc.   *)

AlignUp(size) ==
    IF size % BlockSize = 0 THEN size
    ELSE ((size - (size % BlockSize)) + BlockSize) % SizeMod

BlocksOf(size) == AlignUp(size) \div BlockSize

(***************************************************************************)
(* heap_get_start_block returns the start of the first free run of n       *)
(* blocks and, when there is none, the start of the run of free blocks     *)
(* that reaches the end of the table, however short it is; only a taken    *)
(* last block makes it fail. No run counts 0 blocks, so n = 0 always takes *)
(* the second way. Scan is the loop itself, ScanStart what it returns.     *)
(***************************************************************************)
Free(b) == "taken" \notin entries[b]

FitsAt_OffByOne(b, n) ==
    n > 0 /\ b + n <= Total /\ \A i \in b .. (b + n - 2) : Free(i)

FitsAt(b, n) == n > 0 /\ b + n <= Total /\ \A i \in b .. (b + n - 1) : Free(i)

Fits(n) == {b \in Blocks : FitsAt(b, n)}

TrailingRun ==
    {b \in Blocks : /\ \A i \in b .. (Total - 1) : Free(i)
                    /\ b > 0 => ~Free(b - 1)}

StartBlock(n) ==
    IF Fits(n) # {} THEN {b \in Fits(n) : \A c \in Fits(n) : b <= c}
                    ELSE TrailingRun

ScanBegin == [bc |-> 0, bs |-> -1]

ScanStep_KeepsCount(n, s, i) ==
    IF s.bc = n /\ s.bs # -1 THEN s
    ELSE IF ~Free(i) THEN [s EXCEPT !.bs = -1]
    ELSE [bc |-> s.bc + 1, bs |-> IF s.bs = -1 THEN i ELSE s.bs]

ScanStep(n, s, i) ==
    IF s.bc = n /\ s.bs # -1 THEN s                                 \* break
    ELSE IF ~Free(i) THEN ScanBegin
    ELSE [bc |-> s.bc + 1, bs |-> IF s.bs = -1 THEN i ELSE s.bs]

Scan(n) ==
    LET before[i \in 0 .. Total] ==
            IF i = 0 THEN ScanBegin ELSE ScanStep(n, before[i - 1], i - 1)
    IN  before[Total]

ScanStart(n) == IF Scan(n).bs = -1 THEN {} ELSE {Scan(n).bs}

-----------------------------------------------------------------------------
(* heap_mark_blocks_taken and heap_mark_blocks_free.                       *)

Run(b, n) == b .. (b + n - 1)

MarkedEntry(b, n, i) ==
    {"taken"} \cup (IF i = b THEN {"is_first"} ELSE {})
              \cup (IF i # b + n - 1 THEN {"has_next"} ELSE {})

MarkTaken(b, n) ==
    [i \in Blocks |-> IF i \in Run(b, n) THEN MarkedEntry(b, n, i)
                                           ELSE entries[i]]

FreedFrom_FirstOnly(b) == {b}

FreedFrom(b) ==
    {i \in Blocks : i >= b /\ \A j \in b .. (i - 1) : "has_next" \in entries[j]}

MarkFree(b) == [i \in Blocks |-> IF i \in FreedFrom(b) THEN {} ELSE entries[i]]

-----------------------------------------------------------------------------
(* Init is the state kheap_init leaves.                                    *)
Init ==
    /\ entries = [b \in Blocks |-> {}]
    /\ past = {}
    /\ live = [b \in Blocks |-> 0]
    /\ ret = NULL /\ asked = 0
    /\ zeroed = {}

(* heap_malloc_blocks with a start block found.                            *)
MallocFound(n) ==
    \E b \in StartBlock(n) :
        /\ entries' = MarkTaken(b, n)
        /\ past' = past \cup (Run(b, n) \ Blocks)
        /\ live' = [live EXCEPT ![b] = n]
        /\ ret' = b /\ asked' = n

(* heap_malloc_blocks after -ENOMEM.                                       *)
MallocFailed_NegativeBlock(n) ==
    /\ Fits(n) = {} /\ TrailingRun = {}
    /\ ret' = -1 /\ asked' = n
    /\ UNCHANGED <<entries, past, live>>

MallocFailed_LastTaken(n) ==
    /\ TrailingRun = {}
    /\ ret' = NULL /\ asked' = n
    /\ UNCHANGED <<entries, past, live>>

MallocFailed(n) ==
    /\ Fits(n) = {} /\ TrailingRun = {}
    /\ ret' = NULL /\ asked' = n
    /\ UNCHANGED <<entries, past, live>>

KMalloc(size) ==
    /\ MallocFound(BlocksOf(size)) \/ MallocFailed(BlocksOf(size))
    /\ zeroed' = {}

(* kzalloc clears "size" bytes, the number asked for and not rounded up.   *)
(* memset goes round the address space like every pointer.                 *)
Memory(b, n) == {(b + i) % AddressBlocks : i \in 0 .. (n - 1)}

ZeroedBy_ExtraBlock(b, size) == Memory(b, (size \div BlockSize) + 1)

ZeroedBy(b, size) == Memory(b, (size + BlockSize - 1) \div BlockSize)

KZalloc(size) ==
    \/ /\ MallocFound(BlocksOf(size))
       /\ zeroed' = ZeroedBy(ret', size)
    \/ /\ MallocFailed(BlocksOf(size))
       /\ zeroed' = {}

(* Callers release only what they were given (process.c and task.c hand    *)
(* kfree other pointers on their error paths; see the README).             *)
KFree(b) ==
    /\ live[b] > 0
    /\ entries' = MarkFree(b)
    /\ live' = [live EXCEPT ![b] = 0]
    /\ zeroed' = {}
    /\ UNCHANGED <<past, ret, asked>>

(* kfree of several blocks in a row.                                       *)
FreeAll(S) ==
    /\ entries' = [i \in Blocks |->
                      IF \E b \in S : i \in FreedFrom(b) THEN {} ELSE entries[i]]
    /\ live' = [b \in Blocks |-> IF b \in S THEN 0 ELSE live[b]]
    /\ zeroed' = {}
    /\ UNCHANGED <<past, ret, asked>>

(* Neither memset nor the marks have reached the kernel or its table.      *)
KernelIntact ==
    /\ zeroed \cap KernelBlocks = {}
    /\ \A i \in past : i < ImageEntry

Next ==
    /\ KernelIntact
    /\ \/ \E size \in Requests : KMalloc(size)
       \/ \E size \in Requests : KZalloc(size)
       \/ \E b \in Blocks : KFree(b)

Spec == Init /\ [][Next]_vars

-----------------------------------------------------------------------------
Owned(b) == Run(b, live[b])

(* The table, the ghost state and the last answer have their types.        *)
TypeOK ==
    /\ entries \in [Blocks -> SUBSET Flags]
    /\ past \subseteq Nat
    /\ live \in [Blocks -> Nat]
    /\ ret \in Blocks \cup {NULL} /\ asked \in Nat
    /\ zeroed \subseteq Nat

(* No block belongs to two callers of kmalloc, beyond the table's end too: *)
(* first fit over the flags never hands out a block still in use.          *)
LiveDisjoint ==
    \A b, c \in Blocks : b # c => Owned(b) \cap Owned(c) = {}

(* The flags a block carries are exactly those of its place in the range   *)
(* that owns it, which is what heap_mark_blocks_free walks along: no flag  *)
(* of a range released earlier survives to make a later release run on.    *)
TableEncodesLive ==
    \A i \in Blocks :
        /\ entries[i] = {} \/ \E b \in Blocks : i \in Owned(b)
        /\ \A b \in Blocks : i \in Owned(b) => entries[i] = MarkedEntry(b, live[b], i)

(* The loop of heap_get_start_block finds the first fit, or the trailing   *)
(* run, whatever the table and the number of blocks asked for.             *)
ScanIsFirstFit == \A n \in 0 .. (Total + 1) : ScanStart(n) = StartBlock(n)

(* Filling a new allocation with zeros touches no memory that another      *)
(* caller owns, unless it takes the kernel along; and it always does when  *)
(* rounding the size wrapped to no block at all: kmalloc grants the        *)
(* trailing run without a mark and memset goes round the address space.    *)
ZeroesOnlyItsOwn ==
    [][/\ KernelIntact' =>
              \A b \in Blocks : b # ret' => zeroed' \cap Memory(b, live'[b]) = {}
       /\ asked' = 0 /\ zeroed' # {} => ~KernelIntact']_vars

(* The heap keeps the promise of BlockAllocator.                           *)
Promise == INSTANCE BlockAllocator WITH
    Starts <- Blocks, Lengths <- 0 .. SizeMod, held <- live, asked <- asked, answer <- ret

KeepsPromise == Promise!Spec

(* The 25600 entries of kheap.c:8-11 cover the 100MB of config.h:8: no     *)
(* allocation, and no mark in the table, lies outside them.                *)
InsideHeap == past = {} /\ \A b \in Blocks : Owned(b) \subseteq Blocks
=============================================================================
