------------------------------- MODULE Kernel -------------------------------
(***************************************************************************)
(* The start of the kernel: kernel_main of src/src/kernel.c, with its      *)
(* screen, its segments, the disk it mounts and the path of the program it *)
(* opens there. Steps of kernel_main that only set up a device or write a  *)
(* table which another module models are not steps here. What happens to   *)
(* the program once its file is found is Process.tla; here it loads or not.*)
(***************************************************************************)
EXTENDS Terminal, Mount, Gdt

CONSTANTS
    Tables,         \* the values of gdt_structured
    Paths,          \* the path of the first program
    Messages,       \* what the program prints
    MaxPrinted      \* bound: characters printed

(* Strings in C: the characters before the 0 that ends them.               *)
ASSUME KernelAssumption ==
    /\ Tables \subseteq Seq(Segments)
    /\ Paths \subseteq Seq(Bytes \ {0}) /\ Messages \subseteq Seq(Char \ {0})

VARIABLES
    stage,          \* how far kernel_main has come
    gdt_structured, gdt_real,
    path,           \* the argument of process_load_switch
    found           \* the directory item fopen finds: 0 is none

bootVars == <<stage, gdt_structured, gdt_real, path, found>>
vars == <<terminalVars, mountVars, bootVars>>

(* The messages of the two panics, cut short, and the colours of print.    *)
InvalidArgument == <<101, 58, 105, 10>>
FailedToLoad == <<102, 97, 105, 108, 10>>
PanicColour == 10
PrintColour == 3

Init ==
    /\ TerminalStart /\ MountInit
    /\ stage = "start"
    /\ gdt_structured \in Tables /\ gdt_real = <<>>
    /\ path \in Paths /\ found = 0

Panic(msg) ==
    /\ PrintText(msg, PanicColour)
    /\ stage' = "panic"

ClearScreen ==
    /\ stage = "start"
    /\ TerminalInitialize
    /\ stage' = "gdt"
    /\ UNCHANGED <<mountVars, gdt_structured, gdt_real, path, found>>

(* gdt_structured_to_gdt. A panic inside leaves the processor where it is. *)
EncodeGdt ==
    /\ stage = "gdt"
    /\ \A i \in DOMAIN gdt_structured : ~Refused(gdt_structured[i])
    /\ gdt_real' = [i \in DOMAIN gdt_structured |-> Encode(gdt_structured[i])]
    /\ stage' = "fs"
    /\ UNCHANGED <<terminalVars, mountVars, gdt_structured, path, found>>

RefuseGdt ==
    /\ stage = "gdt"
    /\ \E i \in DOMAIN gdt_structured : Refused(gdt_structured[i])
    /\ Panic(InvalidArgument)
    /\ UNCHANGED <<mountVars, gdt_structured, gdt_real, path, found>>

InitFilesystems_DiskFirst ==
    /\ stage = "fs"
    /\ DiskSearchAndInit
    /\ stage' = "disk"
    /\ UNCHANGED <<terminalVars, gdt_structured, gdt_real, path, found>>

InitFilesystems ==
    /\ stage = "fs"
    /\ FsInit
    /\ stage' = "disk"
    /\ UNCHANGED <<terminalVars, gdt_structured, gdt_real, path, found>>

InitDisk ==
    /\ stage = "disk"
    /\ DiskSearchAndInit
    /\ stage' = "load"
    /\ UNCHANGED <<terminalVars, gdt_structured, gdt_real, path, found>>

-----------------------------------------------------------------------------
(* fopen of the path. Every item of a directory is opened as a file, so    *)
(* that a path of two parts opens nothing.                                 *)
Opened ==
    IF /\ Accepted(path) /\ Drive(path) = 0 /\ filesystem = "FAT16"
       /\ Len(Parts(path)) = 1
    THEN FindItem(Parts(path)[1])
    ELSE {0}

OpenProgram ==
    /\ stage = "load"
    /\ found' \in Opened
    /\ stage' = IF found' = 0 THEN "missed" ELSE "opened"
    /\ UNCHANGED <<terminalVars, mountVars, gdt_structured, gdt_real, path>>

RunProgram ==
    /\ stage = "opened"
    /\ stage' = "run"
    /\ UNCHANGED <<terminalVars, mountVars, gdt_structured, gdt_real, path, found>>

(* Reading or mapping the program may fail still.                          *)
LoadFails ==
    /\ stage \in {"missed", "opened"}
    /\ Panic(FailedToLoad)
    /\ UNCHANGED <<mountVars, gdt_structured, gdt_real, path, found>>

(* Command 1 of the running program, as long as the kernel is whole.       *)
ProgramPrints ==
    /\ stage = "run" /\ ~overrun
    /\ \E msg \in Messages :
        /\ Len(printed) + Len(msg) <= MaxPrinted
        /\ PrintText(msg, PrintColour)
    /\ UNCHANGED <<mountVars, bootVars>>

KernelMain ==
    \/ ClearScreen \/ EncodeGdt \/ RefuseGdt \/ InitFilesystems \/ InitDisk
    \/ OpenProgram \/ RunProgram \/ LoadFails

Next == KernelMain \/ ProgramPrints

(* kernel_main goes on as long as it has not come to its end; a program    *)
(* need not print.                                                         *)
Spec == Init /\ [][Next]_vars /\ WF_vars(KernelMain)

-----------------------------------------------------------------------------
(* What the names, paths and disks mean to whoever wrote them.             *)

(* The characters of a field of an item, without the padding.              *)
Unpadded(field) ==
    LET used == {i \in DOMAIN field : field[i] \notin {EndMark, Space}}
    IN  [i \in 1 .. Cardinality({i \in DOMAIN field : \E j \in used : i <= j}) |-> field[i]]

DosName(item) ==
    Unpadded(item.filename) \o
        (IF Unpadded(item.ext) = <<>> THEN <<>> ELSE <<Dot>> \o Unpadded(item.ext))

NoGap(field) == \A i \in 1 .. Len(Unpadded(field)) : field[i] \notin {EndMark, Space}

(* The names the code can read: the name or the extension is shorter than  *)
(* its field, or what follows the field happens to end it.                 *)
Plain(item) ==
    /\ NoGap(item.filename) /\ NoGap(item.ext)
    /\ \/ Len(Unpadded(item.filename)) < NameLen
       \/ Unpadded(item.ext) = <<>>
    /\ \/ Len(Unpadded(item.ext)) < ExtLen
       \/ item.attribute \in {0, ArchiveAttribute}

Lower(s) == [i \in DOMAIN s |-> IF s[i] \in 65 .. 90 THEN s[i] + 32 ELSE s[i]]

(* FAT16 as it is laid out: reserved sectors, the tables, the directory.   *)
GoodDisk ==
    /\ image.header.signature = 41
    /\ image.sector = image.header.reserved_sectors
                        + image.header.sectors_per_fat * image.header.fat_copies

(* The first slot that was never used, if the root directory has one.      *)
EndSlots == {i \in DOMAIN image.directory : image.directory[i].filename[1] = EndMark}
HasEnd ==
    /\ image.header.root_dir_entries > 0
    /\ Len(image.directory) < image.header.root_dir_entries
        \/ \E i \in EndSlots : i <= image.header.root_dir_entries
Slots == {i \in DOMAIN image.directory : \A e \in EndSlots : i < e}
NamesInUse == {i \in Slots : image.directory[i].filename[1] # DeletedMark}

(* Deleted slots hide as many of the last ones from the search. Files are  *)
(* called by name: two items of one name, or a long name's items, are not. *)
Reached == {i \in Slots : i <= Cardinality(NamesInUse)}
Regular ==
    /\ GoodDisk /\ HasEnd
    /\ \A i \in Slots : Plain(image.directory[i])
    /\ \A i, j \in Slots :
        Lower(DosName(image.directory[i])) = Lower(DosName(image.directory[j])) => i = j

NamedSlots(name) == {i \in Reached : Lower(DosName(image.directory[i])) = Lower(name)}

(* The name a path asks for in the root directory of drive 0: "0:/name",   *)
(* with nothing, a slash, or two slashes and anything behind it.           *)
PathName ==
    LET body == SubSeq(path, 4, Len(path))
        ends == {i \in DOMAIN body : body[i] = Slash} \cup {Len(body) + 1}
    IN  SubSeq(body, 1, (CHOOSE i \in ends : \A j \in ends : i <= j) - 1)

OneName ==
    LET rest == SubSeq(path, 4 + Len(PathName), Len(path))
    IN  /\ Len(path) \in 3 .. MaxPath /\ SubSeq(path, 1, 3) = <<48, Colon, Slash>>
        /\ PathName # <<>>
        /\ Len(rest) <= 1 \/ rest[2] = Slash

-----------------------------------------------------------------------------
Stages == {"start", "gdt", "fs", "disk", "load", "opened", "missed", "run", "panic"}
Mounted == stage \in {"load", "opened", "missed", "run"}
Tried == stage \in {"opened", "missed", "run"}

(* The types of the state of the kernel's start.                           *)
KernelTypeOK ==
    /\ TerminalTypeOK
    /\ \A i \in DOMAIN filesystems : filesystems[i] \in {"none", "FAT16"}
    /\ filesystem \in {"none", "FAT16"} /\ root_directory \in Directories
    /\ stage \in Stages
    /\ gdt_structured \in Seq(Segments) /\ gdt_real \in Seq(Descriptors)
    /\ found \in Nat

(* kernel.c's print and panic: the video memory shows the text printed     *)
(* since the start, row by row, whatever the messages it came in and       *)
(* however it was cut by newlines and by the end of a row, until a         *)
(* character is written over the kernel, which comes of the rows of the    *)
(* text alone: the row counter never stops there, and it may go round.     *)
ScreenShowsText == stage # "start" => ShowsText

(* gdt.c: the kernel does not go on until the processor reads each segment *)
(* descriptor as the base, the limit and the type that kernel.c asked for. *)
SegmentsMeanWhatTheySay ==
    stage \in {"fs", "disk", "load", "opened", "missed", "run"} =>
        /\ DOMAIN gdt_real = DOMAIN gdt_structured
        /\ \A i \in DOMAIN gdt_real : Meaning(gdt_real[i]) = gdt_structured[i]

(* pparser.c: the parts, joined by slashes again, are the path behind the  *)
(* drive; it is cut short only at its end and at two slashes in a row.     *)
ParsesThePath ==
    LET body  == SubSeq(path, 4, Len(path))
        parts == Parts(path)
        joined[i \in 0 .. Len(parts)] ==
            IF i = 0 THEN <<>> ELSE joined[i - 1] \o parts[i] \o <<Slash>>
        all == joined[Len(parts)]
    IN  Accepted(path) =>
            /\ \A i \in DOMAIN parts :
                parts[i] # <<>> /\ \A k \in DOMAIN parts[i] : parts[i][k] # Slash
            /\ \/ all = body \o <<Slash>>
               \/ all = body
               \/ Len(all) < Len(body) /\ SubSeq(body, 1, Len(all)) = all
                    /\ body[Len(all) + 1] = Slash

(* fat16.c's fat16_get_full_relative_filename: the name of an item is read *)
(* as it was written exactly when nothing of the next field joins it.      *)
NamesReadAsWritten ==
    \A i \in DOMAIN image.directory :
        LET item == image.directory[i]
        IN  InUse(item) => (FullName(item) = DosName(item) <=> Plain(item))

(* disk_search_and_init and fat16_resolve: the disk has a file system just *)
(* if its signature says so; then the names in use have all been counted,  *)
(* the directory is read from where it is, and the clusters start behind   *)
(* it, unless its last sector is not full.                                 *)
MountsTheDirectory ==
    Mounted =>
        /\ filesystem = "FAT16" <=> image.header.signature = 41
        /\ GoodDisk /\ HasEnd =>
            /\ root_directory.total = Cardinality(NamesInUse)
            /\ root_directory.total <= Len(root_directory.item)
            /\ \A i \in Slots : root_directory.item[i] = image.directory[i]
            /\ root_directory.ending_sector_pos * SectorItems
                    = image.sector * SectorItems + image.header.root_dir_entries
                <=> image.header.root_dir_entries % SectorItems = 0

(* fopen at boot: on a disk whose names the code can read, a path opens    *)
(* the file of that name, whatever its case, and no other; any other path  *)
(* opens none.                                                             *)
OpensByName ==
    Tried /\ Regular =>
        IF OneName /\ NamedSlots(PathName) # {} THEN found \in NamedSlots(PathName)
        ELSE found = 0

(* kernel_main: on such a disk, with segments that can be encoded, the     *)
(* kernel comes to open the program; it does not stop before.              *)
GoodDiskOpens ==
    (/\ stage = "start" /\ Regular
     /\ \A i \in DOMAIN gdt_structured : ~Refused(gdt_structured[i])
     /\ OneName /\ NamedSlots(PathName) # {}) ~> stage = "opened"
=============================================================================
