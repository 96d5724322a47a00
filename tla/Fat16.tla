------------------------------- MODULE Fat16 --------------------------------
(***************************************************************************)
(* Reading an open file: fread and fseek of src/src/fs/fat/fat16.c down to *)
(* the sectors of the disk (src/src/disk/streamer.c, disk.c).              *)
(*                                                                         *)
(* The content of the disk does not matter, only where a byte comes from:  *)
(* the caller's buffer is the sequence of the disk positions that were     *)
(* copied to it, or Stack for a byte from beyond the streamer's buffer of  *)
(* one sector. The disk controller is external and always answers.         *)
(***************************************************************************)
EXTENDS Integers, Sequences

CONSTANTS
    SectorSize,         \* GUAVAOS_SECTOR_SIZE
    ClusterSectors,     \* sectors_per_cluster
    ReservedSectors,    \* reserved_sectors: the first FAT starts after them
    DataSector,         \* ending_sector_pos of the root directory
    Files,              \* files: the sequence of the clusters, and filesize
    Sizes, Counts,      \* the sizes and numbers of items fread is called with
    Offsets,            \* the offsets fseek is called with
    MaxPos,             \* bound: how far SEEK_CUR goes
    FatMarks,           \* entries fat16_get_cluster_for_offset refuses
    EndOfChain,         \* the entry of a last cluster in a FAT16, 0xFFFF
    Elsewhere,          \* what two bytes outside the FAT may hold
    Stack               \* a byte nobody read from the disk

ASSUME Fat16Assumption ==
    /\ {SectorSize, ClusterSectors, ReservedSectors, DataSector} \subseteq Nat \ {0}
    /\ Sizes \cup Counts \cup Offsets \subseteq Nat /\ MaxPos \in Nat
    /\ FatMarks \cup {EndOfChain} \cup Elsewhere \subseteq Nat /\ EndOfChain \notin FatMarks
    /\ \A f \in Files :
          /\ f.chain \in Seq(Nat) /\ f.chain # <<>>
          /\ f.size \in 0 .. (Len(f.chain) * ClusterSectors * SectorSize)
    /\ Stack \notin Int

VARIABLES
    file,       \* the file that is open, constant
    pos,        \* fat_file_descriptor.pos
    stream,     \* cluster_read_stream->pos
    at, rd,     \* where fread stands, and the locals of its calls
    out,        \* what has been copied to the caller's buffer
    res         \* what the last call returned: an item count, or -1

vars == <<file, pos, stream, at, rd, out, res>>

ClusterSize == ClusterSectors * SectorSize
EntrySize == 2

NoRead == [size |-> 0, nmemb |-> 0, i |-> 0, offset |-> 0, total |-> 0,
           cluster |-> 0, ahead |-> 0, left |-> 0]

Init ==
    /\ file \in Files
    /\ pos = 0 /\ stream = 0 /\ at = "idle" /\ rd = NoRead
    /\ out = <<>> /\ res = 0

-----------------------------------------------------------------------------
(* fat16_seek. The test against the file's size is made of the offset, not *)
(* of the position it leads to.                                            *)
Seek(offset, whence) ==
    /\ at = "idle"
    /\ IF offset >= file.size \/ whence = "end" THEN res' = -1 /\ UNCHANGED pos
       ELSE /\ pos' = IF whence = "set" THEN offset ELSE pos + offset
            /\ pos' <= MaxPos
            /\ res' = 0
    /\ UNCHANGED <<file, stream, at, rd, out>>

(* fread and the loop of fat16_read, which leaves pos alone.               *)
BeginRead(size, nmemb) ==
    /\ at = "idle"
    /\ IF size = 0 \/ nmemb = 0 THEN res' = -1 /\ UNCHANGED <<at, rd>>
       ELSE /\ rd' = [NoRead EXCEPT !.size = size, !.nmemb = nmemb,
                                    !.offset = pos, !.total = size]
            /\ at' = "read" /\ UNCHANGED res
    /\ UNCHANGED <<file, pos, stream, out>>

Fail == at' = "done" /\ res' = -1 /\ UNCHANGED rd

-----------------------------------------------------------------------------
(* fat16_read_internal_from_stream, entered again with a larger offset     *)
(* until nothing is left to read.                                          *)
StartPiece ==
    /\ at = "read"
    /\ rd' = [rd EXCEPT !.cluster = file.chain[1], !.ahead = rd.offset \div ClusterSize]
    /\ at' = "cluster"
    /\ UNCHANGED <<file, pos, stream, out, res>>

(* fat16_get_fat_entry: two bytes at the position of the FAT times that of *)
(* the entry. Only where these happen to be the entry's own does the FAT   *)
(* answer.                                                                 *)
FatStart == ReservedSectors * SectorSize
EntryPosition(cluster) == FatStart * (cluster * EntrySize)

EntriesAt(position) ==
    LET here == {i \in DOMAIN file.chain : FatStart + file.chain[i] * EntrySize = position}
    IN  IF here = {} THEN Elsewhere
        ELSE {IF i = Len(file.chain) THEN EndOfChain ELSE file.chain[i + 1] : i \in here}

(* fat16_get_cluster_for_offset: one turn of its loop.                     *)
NextCluster_NotCounted ==
    /\ at = "cluster" /\ rd.ahead > 0
    /\ \E entry \in EntriesAt(EntryPosition(rd.cluster)) :
          IF entry \in FatMarks THEN Fail
          ELSE rd' = [rd EXCEPT !.cluster = entry] /\ UNCHANGED <<at, res>>
    /\ UNCHANGED <<file, pos, stream, out>>

NextCluster ==
    /\ at = "cluster" /\ rd.ahead > 0
    /\ \E entry \in EntriesAt(EntryPosition(rd.cluster)) :
          IF entry \in FatMarks THEN Fail
          ELSE /\ rd' = [rd EXCEPT !.cluster = entry, !.ahead = @ - 1]
               /\ UNCHANGED <<at, res>>
    /\ UNCHANGED <<file, pos, stream, out>>

Smaller_Larger(a, b) == IF a < b THEN b ELSE a

Smaller(a, b) == IF a < b THEN a ELSE b

PositionOf(cluster, offset) ==
    (DataSector + (cluster - 2) * ClusterSectors) * SectorSize + (offset % ClusterSize)

PieceSize == Smaller(rd.total, ClusterSize)

(* fat16_cluster_to_sector and diskstreamer_seek.                          *)
SeekPiece ==
    /\ at = "cluster" /\ rd.ahead = 0
    /\ stream' = PositionOf(rd.cluster, rd.offset)
    /\ rd' = [rd EXCEPT !.left = PieceSize]
    /\ at' = "sector"
    /\ UNCHANGED <<file, pos, out, res>>

(* diskstreamer_read, entered again while more than a sector is wanted. It *)
(* reads one sector and copies from the offset of the position in it on,   *)
(* beyond the end of its buffer if need be.                                *)
SectorByte(position, i) ==
    IF (position % SectorSize) + i < SectorSize THEN position + i ELSE Stack

ReadSector_StreamStays ==
    /\ at = "sector"
    /\ LET n == Smaller(rd.left, SectorSize)
       IN  /\ out' = out \o [i \in 1 .. n |-> SectorByte(stream, i - 1)]
           /\ rd' = [rd EXCEPT !.left = @ - n]
           /\ at' = IF rd.left > SectorSize THEN "sector" ELSE "piece"
    /\ UNCHANGED <<file, pos, stream, res>>

ReadSector ==
    /\ at = "sector"
    /\ LET n == Smaller(rd.left, SectorSize)
       IN  /\ out' = out \o [i \in 1 .. n |-> SectorByte(stream, i - 1)]
           /\ stream' = stream + n
           /\ rd' = [rd EXCEPT !.left = @ - n]
           /\ at' = IF rd.left > SectorSize THEN "sector" ELSE "piece"
    /\ UNCHANGED <<file, pos, res>>

(* The rest of the item, the next item, or the end.                        *)
NextPiece_TotalStays ==
    /\ at = "piece"
    /\ \/ /\ rd.total > PieceSize
          /\ rd' = [rd EXCEPT !.offset = @ + PieceSize]
          /\ at' = "read" /\ UNCHANGED res
       \/ /\ rd.total = PieceSize /\ rd.i + 1 < rd.nmemb
          /\ rd' = [rd EXCEPT !.offset = @ + PieceSize, !.total = rd.size, !.i = @ + 1]
          /\ at' = "read" /\ UNCHANGED res
       \/ /\ rd.total = PieceSize /\ rd.i + 1 = rd.nmemb
          /\ at' = "done" /\ res' = rd.nmemb /\ UNCHANGED rd
    /\ UNCHANGED <<file, pos, stream, out>>

NextPiece ==
    /\ at = "piece"
    /\ \/ /\ rd.total > PieceSize
          /\ rd' = [rd EXCEPT !.offset = @ + PieceSize, !.total = @ - PieceSize]
          /\ at' = "read" /\ UNCHANGED res
       \/ /\ rd.total = PieceSize /\ rd.i + 1 < rd.nmemb
          /\ rd' = [rd EXCEPT !.offset = @ + PieceSize, !.total = rd.size, !.i = @ + 1]
          /\ at' = "read" /\ UNCHANGED res
       \/ /\ rd.total = PieceSize /\ rd.i + 1 = rd.nmemb
          /\ at' = "done" /\ res' = rd.nmemb /\ UNCHANGED rd
    /\ UNCHANGED <<file, pos, stream, out>>

(* fread returns; the buffer is the caller's.                              *)
Return ==
    /\ at = "done"
    /\ at' = "idle" /\ rd' = NoRead /\ out' = <<>>
    /\ UNCHANGED <<file, pos, stream, res>>

Reading == StartPiece \/ NextCluster \/ SeekPiece \/ ReadSector \/ NextPiece \/ Return

Next ==
    \/ \E offset \in Offsets, whence \in {"set", "cur", "end"} : Seek(offset, whence)
    \/ \E size \in Sizes, nmemb \in Counts : BeginRead(size, nmemb)
    \/ Reading

(* fread runs to its end before the kernel does anything else.             *)
Spec == Init /\ [][Next]_vars /\ WF_vars(Reading)

-----------------------------------------------------------------------------
(* Positions, locals and results have their types.                         *)
TypeOK ==
    /\ file \in Files
    /\ pos \in 0 .. MaxPos /\ stream \in Int
    /\ at \in {"idle", "read", "cluster", "sector", "piece", "done"}
    /\ {rd.size, rd.nmemb, rd.i, rd.offset, rd.total, rd.ahead, rd.left} \subseteq Nat
    /\ \A k \in DOMAIN out : out[k] \in Int \cup {Stack}
    /\ res \in {-1, 0} \cup Counts

(* Where byte k of the file is.                                            *)
FileByte(k) == PositionOf(file.chain[(k \div ClusterSize) + 1], k)

(* What the code reads correctly: within the first cluster, and each item  *)
(* either from the start of a sector or from one sector alone.             *)
Wanted == rd.size * rd.nmemb

Simple ==
    /\ pos + Wanted <= ClusterSize
    /\ \A i \in 0 .. (rd.nmemb - 1) :
          ((pos + i * rd.size) % SectorSize) + Smaller(rd.size, SectorSize) <= SectorSize

(* Every byte that has reached the buffer by the end of a successful read  *)
(* of this kind is the byte of the file it should be, through the loops    *)
(* over items, clusters and sectors.                                       *)
ReadsTheFile ==
    at = "done" /\ res > 0 /\ Simple =>
        out = [k \in 1 .. Wanted |-> FileByte(pos + k - 1)]

(* No read, right or wrong, writes more than size * nmemb bytes, and one   *)
(* that succeeds writes them all: the pieces and sectors add up.           *)
FillsTheBuffer ==
    /\ Len(out) + rd.left <= Wanted
    /\ at = "done" /\ res > 0 => Len(out) = Wanted

(* fread comes back: the loops over items, clusters and sectors end.       *)
ReadsEnd == at # "idle" ~> at = "idle"

(* fat16.c:267 says that fat16_get_cluster_for_offset finds the correct    *)
(* cluster for the starting cluster and the offset.                        *)
CorrectCluster ==
    at = "cluster" /\ rd.ahead = 0 /\ rd.offset < file.size =>
        rd.cluster = file.chain[(rd.offset \div ClusterSize) + 1]
=============================================================================
