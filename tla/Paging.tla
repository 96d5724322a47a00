------------------------------- MODULE Paging -------------------------------
(***************************************************************************)
(* Two-level page tables in blocks of the kernel heap:                     *)
(* src/src/memory/paging/paging.c.                                         *)
(*                                                                         *)
(* Memory is counted in pages of one heap block. Page 0 holds the null     *)
(* pointer, and heap block b is page HeapPage + b. The tables are kept as  *)
(* the memory of the blocks they live in, so that two directories could    *)
(* share a table, or a table could sit at address 0, if the code let them. *)
(***************************************************************************)
EXTENDS Heap

CONSTANTS
    PagesPerTable,  \* PAGING_TOTAL_ENTRIES_PER_TABLE, for the tables
    Tables          \* the same number, for the directory

ASSUME PagingAssumption ==
    /\ PagesPerTable \in Nat \ {0} /\ Tables \in Nat \ {0}
    /\ HeapPage + Total <= PagesPerTable * Tables

VARIABLES
    dirs,   \* dirs[d][i]: the table that entry i of the directory at d names
    tabs,   \* tabs[t][j]: entry j of the table at t, a page and "writable"
    chunks  \* chunks[c]: directory_entry of the paging_4gb_chunk at c

pagingVars == <<dirs, tabs, chunks>>

Places == Blocks \cup {NULL}
Pages == 0 .. (PagesPerTable * Tables - 1)
PageOf(b) == HeapPage + b

Entry(page, writable) == [to |-> page, w |-> writable]

-----------------------------------------------------------------------------
(* paging_get_indexes of an aligned address, paging_get.                   *)
DirIndex(v) == v \div PagesPerTable

TabIndex(v) == v % PagesPerTable

TableOf(d, v) == dirs[d][DirIndex(v)]

PagingGet(d, v) == tabs[TableOf(d, v)][TabIndex(v)]

(* paging_map_to of n pages from page v on to the pages from "page" on:    *)
(* one paging_set per page. A page v' is the one that entry j of table     *)
(* t stands for when v' has t and j for its indexes.                       *)
MapTo_OnePageShort(d, v, page, n) ==
    LET mapped == {u \in Pages : v <= u /\ u < v + n - 1}
    IN  [t \in DOMAIN tabs |-> [j \in DOMAIN tabs[t] |->
            IF \E u \in mapped : TableOf(d, u) = t /\ TabIndex(u) = j
            THEN Entry(page + (CHOOSE u \in mapped : TableOf(d, u) = t
                                                     /\ TabIndex(u) = j) - v, TRUE)
            ELSE tabs[t][j]]]

MapTo(d, v, page, n) ==
    LET mapped == {u \in Pages : v <= u /\ u < v + n}
    IN  [t \in DOMAIN tabs |-> [j \in DOMAIN tabs[t] |->
            IF \E u \in mapped : TableOf(d, u) = t /\ TabIndex(u) = j
            THEN Entry(page + (CHOOSE u \in mapped : TableOf(d, u) = t
                                                     /\ TabIndex(u) = j) - v, TRUE)
            ELSE tabs[t][j]]]

-----------------------------------------------------------------------------
(* The allocations of paging_new_4gb. Their results are used unchecked: a  *)
(* directory, a table or a chunk may be written through the null pointer.  *)
NewDirectory ==
    /\ KZalloc(BlockSize)
    /\ dirs' = Put(dirs, ret', [i \in 0 .. (Tables - 1) |-> NULL])
    /\ UNCHANGED <<tabs, chunks>>

IdentityTable(i) ==
    [j \in 0 .. (PagesPerTable - 1) |-> Entry(i * PagesPerTable + j, FALSE)]

NewTable_NoOffset(d, i) ==
    /\ KZalloc(BlockSize)
    /\ tabs' = Put(tabs, ret', IdentityTable(0))
    /\ dirs' = [dirs EXCEPT ![d][i] = ret']
    /\ UNCHANGED chunks

NewTable(d, i) ==
    /\ KZalloc(BlockSize)
    /\ tabs' = Put(tabs, ret', IdentityTable(i))
    /\ dirs' = [dirs EXCEPT ![d][i] = ret']
    /\ UNCHANGED chunks

NewChunk(d) ==
    /\ KZalloc(BlockSize)
    /\ chunks' = Put(chunks, ret', d)
    /\ UNCHANGED <<dirs, tabs>>

(* The blocks paging_free_4gb hands to kfree.                              *)
ChunkBlocks(c) ==
    {c, chunks[c]} \cup {dirs[chunks[c]][i] : i \in DOMAIN dirs[chunks[c]]}
=============================================================================
