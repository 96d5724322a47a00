------------------------------ MODULE MCKernel ------------------------------
(***************************************************************************)
(* Names of three and two characters, sectors of two items. A terminal of  *)
(* four by two cells, video memory for two rows and a half, the kernel in  *)
(* the middle of the fourth row, and a row counter that wraps after five:  *)
(* a text can fill the screen, be lost behind the video memory, reach the  *)
(* kernel, or pass it by newlines and begin again at the top. Directories  *)
(* with short and full names, a deleted slot, a gap in a name, an item     *)
(* that is not a plain file, stale slots behind the end, two items of one  *)
(* name, and no end at all; paths of one part, of several, of none, of     *)
(* another drive, and malformed ones.                                      *)
(***************************************************************************)
EXTENDS Kernel

Item(filename, ext, attribute) ==
    [filename |-> filename, ext |-> ext, attribute |-> attribute]
NoExt == <<Space, Space>>
AB_X == Item(<<65, 66, Space>>, <<88, Space>>, 32)
AB_XY == Item(<<65, 66, Space>>, <<88, 89>>, 32)
AB_XY_ReadOnly == Item(<<65, 66, Space>>, <<88, 89>>, 33)
ABC == Item(<<65, 66, 67>>, NoExt, 32)
ABC_X == Item(<<65, 66, 67>>, <<88, Space>>, 32)
ABC_XY == Item(<<65, 66, 67>>, <<88, 89>>, 32)
Z == Item(<<90, Space, Space>>, NoExt, 0)
Z_Label == Item(<<90, Space, Space>>, NoExt, LabelAttribute)
A_Gap_B == Item(<<65, Space, 66>>, NoExt, 32)
Deleted == Item(<<DeletedMark, 66, Space>>, NoExt, 32)
End == Item(<<EndMark, 66, Space>>, NoExt, 32)

MCDirectories ==
    {<<>>, <<AB_X>>, <<AB_X, ABC, Z>>, <<Deleted, ABC, Z>>, <<AB_XY, Deleted, AB_X>>,
     <<AB_XY_ReadOnly, Z>>, <<ABC_X, ABC_XY>>, <<A_Gap_B, Z>>, <<Z, ABC, Z_Label>>,
     <<AB_X, End, Z>>, <<ABC, AB_X, AB_XY, Z, End>>, <<ABC, AB_X, AB_XY, Z, A_Gap_B>>}

Header(signature, reserved, entries) ==
    [signature |-> signature, fat_copies |-> 2, sectors_per_fat |-> 1,
     reserved_sectors |-> reserved, root_dir_entries |-> entries]
MCHeaders == {Header(41, 1, 4), Header(41, 1, 5), Header(41, 2, 4), Header(0, 1, 4)}

MCImages ==
    {[header |-> h, sector |-> 3, directory |-> d] : h \in MCHeaders, d \in MCDirectories}

Drive0(name) == <<48, Colon, Slash>> \o name
MCPaths ==
    {Drive0(<<97, 98, Dot, 120>>), Drive0(<<65, 98, Dot, 88, 89>>), Drive0(<<97, 98, 99>>),
     Drive0(<<122>>), Drive0(<<122, Slash>>), Drive0(<<122, Slash, Slash, 97>>),
     Drive0(<<97, 98, 99, Slash, 122>>), Drive0(<<Slash, 122>>), Drive0(<<>>),
     Drive0(<<97, 98, Dot>>), Drive0([i \in 1 .. 10 |-> 122]),
     <<49, Colon, Slash, 122>>, <<48, Colon, 122>>, <<48, Colon>>}

Segment(base_hi, base_lo, limit_hi, limit_lo, type) ==
    [base_hi |-> base_hi, base_lo |-> base_lo, limit_hi |-> limit_hi, limit_lo |-> limit_lo,
     type |-> type]
MCTables ==
    {<<Segment(0, 0, 0, 0, 0), Segment(0, 0, 65535, 65535, 154), Segment(16, 8241, 0, 104, 233)>>,
     <<Segment(43981, 4660, 1, 0, 146), Segment(65535, 65535, 1, 4095, 242),
       Segment(0, 1, 43981, 8191, 248)>>,
     <<Segment(0, 0, 0, 0, 0), Segment(0, 0, 1, 1, 154)>>}

MCMessages == {<<65>>, <<66, Newline>>, <<Newline, Newline>>, <<67, 200, 68, 69>>}
=============================================================================
