------------------------------- MODULE Mount --------------------------------
(***************************************************************************)
(* Finding the file system of the disk and its root directory at boot, and *)
(* a file in that directory: fs_init and fs_resolve (src/src/fs/file.c),   *)
(* disk_search_and_init (src/src/disk/disk.c), fat16_resolve and the       *)
(* search (src/src/fs/fat/fat16.c).                                        *)
(*                                                                         *)
(* A disk is what the code looks at: the header's numbers and a directory  *)
(* item wherever one may be read. Items fill sectors evenly, and are       *)
(* numbered from the start of the disk; where the directory is not, they   *)
(* are taken to read as 0. The heap of 25600 blocks is empty when the disk *)
(* is mounted, so that no allocation fails here.                           *)
(***************************************************************************)
EXTENDS Names, FiniteSets

CONSTANTS
    SectorItems,    \* directory items in a sector, 16
    MaxFilesystems, \* GUAVAOS_MAX_FILESYSTEMS
    Images          \* the disks


VARIABLES
    image,          \* the disk
    filesystems,    \* the registered file systems, "none" in a free slot
    filesystem,     \* disk.filesystem
    root_directory  \* fs_private's: item, total, sector_pos, ending_sector_pos

mountVars == <<image, filesystems, filesystem, root_directory>>

Headers ==
    [signature : Bytes, fat_copies : Nat, sectors_per_fat : Nat, reserved_sectors : Nat,
     root_dir_entries : Nat]
Directories ==
    [item : Seq(DirectoryItems), total : Nat, sector_pos : Nat, ending_sector_pos : Nat]

ASSUME MountAssumption ==
    /\ SectorItems \in Nat \ {0} /\ MaxFilesystems \in Nat \ {0}
    /\ Images \subseteq [header : Headers, sector : Nat, directory : Seq(DirectoryItems)]

NoDirectory == [item |-> <<>>, total |-> 0, sector_pos |-> 0, ending_sector_pos |-> 0]
FreeItem ==
    [filename |-> [i \in 1 .. NameLen |-> 0], ext |-> [i \in 1 .. ExtLen |-> 0],
     attribute |-> 0]

(* The item that is read at place n of the disk: "directory" lies where    *)
(* whoever formatted the disk has put it, in sector "sector".              *)
ItemAt(n) ==
    LET i == n - image.sector * SectorItems + 1
    IN  IF i \in DOMAIN image.directory THEN image.directory[i] ELSE FreeItem

MountInit ==
    /\ image \in Images
    /\ filesystems = [i \in 1 .. MaxFilesystems |-> "none"]
    /\ filesystem = "none" /\ root_directory = NoDirectory

-----------------------------------------------------------------------------
(* fs_insert_filesystem of the one static file system, into zeroed slots.  *)
FreeFilesystem ==
    {i \in DOMAIN filesystems : /\ filesystems[i] = "none"
                                /\ \A j \in 1 .. (i - 1) : filesystems[j] # "none"}

FsInit ==
    /\ filesystems' = [i \in DOMAIN filesystems |->
                        IF i \in FreeFilesystem THEN "FAT16" ELSE filesystems[i]]
    /\ UNCHANGED <<image, filesystem, root_directory>>

(* fat16_get_total_items_for_directory has no limit but the first item     *)
(* that was never used.                                                    *)
Unused(item) == item.filename[1] = EndMark
InUse(item) == item.filename[1] \notin {EndMark, DeletedMark}

FirstUnused(place) ==
    CHOOSE n \in 0 .. Len(image.directory) :
        Unused(ItemAt(place + n)) /\ \A m \in 0 .. (n - 1) : ~Unused(ItemAt(place + m))

TotalItems_AllSlots(sector) == FirstUnused(sector * SectorItems)

TotalItems(sector) ==
    LET place == sector * SectorItems
    IN  Cardinality({n \in 0 .. (FirstUnused(place) - 1) : InUse(ItemAt(place + n))})

(* fat16_get_root_directory. The sectors are rounded down.                 *)
RootSector ==
    image.header.fat_copies * image.header.sectors_per_fat + image.header.reserved_sectors

RootDirectory ==
    [item |-> [i \in 1 .. image.header.root_dir_entries |->
                  ItemAt(RootSector * SectorItems + i - 1)],
     total |-> TotalItems(RootSector),
     sector_pos |-> RootSector,
     ending_sector_pos |-> RootSector + image.header.root_dir_entries \div SectorItems]

(* fat16_resolve: 0x29 or -EFSNOTUS; fs_resolve takes the first that fits. *)
Resolves(fs) == fs = "FAT16" /\ image.header.signature = 41

DiskSearchAndInit ==
    LET fits == {i \in DOMAIN filesystems : Resolves(filesystems[i])}
    IN  /\ IF fits = {} THEN UNCHANGED <<filesystem, root_directory>>
           ELSE filesystem' = "FAT16" /\ root_directory' = RootDirectory
        /\ UNCHANGED <<image, filesystems>>

-----------------------------------------------------------------------------
(* fat16_find_item_in_directory goes on after a match, so that the last    *)
(* one counts. It looks at as many items as were counted, and behind the   *)
(* end of the copy that was read there may be anything.                    *)
Searched ==
    {i \in 1 .. root_directory.total : i <= Len(root_directory.item)}

Matching(name) ==
    {i \in Searched : Same(FullName(root_directory.item[i]), name, MaxPath)}

Unknown == Len(root_directory.item) + 1

FindItem(name) ==
    {i \in Matching(name) : \A j \in Matching(name) : j <= i}
        \cup (IF Matching(name) = {} THEN {0} ELSE {})
        \cup (IF root_directory.total > Len(root_directory.item) THEN {Unknown} ELSE {})
=============================================================================
