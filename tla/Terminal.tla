------------------------------ MODULE Terminal ------------------------------
(***************************************************************************)
(* The text terminal of src/src/kernel.c. A cell of the video memory is a  *)
(* character and a colour; the terminal writes behind the screen of        *)
(* VgaWidth * VgaHeight cells as readily as into it. Behind the screen the *)
(* video memory goes on for some cells; then come device memory and the    *)
(* BIOS, which keep nothing of what is written; then the kernel itself.    *)
(* The first character written there overwrites it: overrun. A newline     *)
(* writes nothing wherever it is.                                          *)
(***************************************************************************)
EXTENDS Integers, Sequences, FiniteSets

CONSTANTS
    VgaWidth, VgaHeight,    \* 80 and 20
    VideoCells,             \* from 0xB8000 to 0xC0000: 16384
    KernelCell,             \* from 0xB8000 to 0x100000, where the kernel lies: 147456
    RowMod                  \* terminal_row is a uint16_t: 2^16

ASSUME TerminalAssumption ==
    /\ VgaWidth \in Nat \ {0} /\ VgaHeight \in Nat \ {0} /\ RowMod \in Nat \ {0}
    /\ VideoCells \in Nat /\ KernelCell \in Nat
    /\ VgaWidth * VgaHeight <= VideoCells /\ VideoCells <= KernelCell

VARIABLES
    video_mem,      \* cells, from the offset in the video memory
    terminal_row,
    terminal_col,
    overrun,        \* a character has been written over the kernel
    printed         \* what has been written since the start, cell by cell

terminalVars == <<video_mem, terminal_row, terminal_col, overrun, printed>>

Newline == 10
Char == 0 .. 255
Cells == [char : Char, colour : 0 .. 255]
Blank == [char |-> 32, colour |-> 0]
Screen == 0 .. (VgaWidth * VgaHeight - 1)
Offsets == 0 .. (VideoCells - 1)

(* A char is signed: with its high bit set it overlays the colour.         *)
MakeChar(c, colour) == [char |-> c, colour |-> IF c < 128 THEN colour ELSE 255]

(* Before kernel_main nothing is known of the memory.                      *)
Unwritten == [char |-> 0, colour |-> 0]
TerminalStart ==
    /\ video_mem = [o \in Offsets |-> Unwritten]
    /\ terminal_row = 0 /\ terminal_col = 0 /\ overrun = FALSE /\ printed = <<>>

TerminalInitialize ==
    /\ video_mem' = [o \in Offsets |-> IF o \in Screen THEN Blank ELSE video_mem[o]]
    /\ terminal_row' = 0 /\ terminal_col' = 0
    /\ UNCHANGED <<overrun, printed>>

-----------------------------------------------------------------------------
Terminal ==
    [video |-> video_mem, row |-> terminal_row, col |-> terminal_col, overrun |-> overrun]

(* terminal_writechar: a newline, or a cell and a step to the right.       *)
NextRow(t) == [t EXCEPT !.row = (@ + 1) % RowMod, !.col = 0]
PutChar(t, cell) ==
    LET o == t.row * VgaWidth + t.col
    IN  [video |-> IF o \in Offsets
                   THEN [t.video EXCEPT ![o] = MakeChar(cell.char, cell.colour)]
                   ELSE t.video,
         row |-> t.row, col |-> t.col + 1,
         overrun |-> t.overrun \/ o >= KernelCell]

WriteChar_RowStays(t, cell) ==
    IF cell.char = Newline THEN NextRow(t)
    ELSE IF t.col + 1 >= VgaWidth THEN [PutChar(t, cell) EXCEPT !.col = 0]
    ELSE PutChar(t, cell)

WriteChar_PastTheEdge(t, cell) ==
    IF cell.char = Newline THEN NextRow(t)
    ELSE IF t.col + 1 > VgaWidth THEN NextRow(PutChar(t, cell))
    ELSE PutChar(t, cell)

WriteChar(t, cell) ==
    IF cell.char = Newline THEN NextRow(t)
    ELSE IF t.col + 1 >= VgaWidth THEN NextRow(PutChar(t, cell))
    ELSE PutChar(t, cell)

(* print: the message ends before its first 0.                             *)
PrintText(msg, colour) ==
    LET cells == [i \in 1 .. Len(msg) |-> [char |-> msg[i], colour |-> colour]]
        after[i \in 0 .. Len(msg)] ==
            IF i = 0 THEN Terminal ELSE WriteChar(after[i - 1], cells[i])
        t == after[Len(msg)]
    IN  /\ video_mem' = t.video /\ terminal_row' = t.row /\ terminal_col' = t.col
        /\ overrun' = t.overrun
        /\ printed' = printed \o cells

-----------------------------------------------------------------------------
(* What the screen ought to be, from the text alone. The text is divided   *)
(* into lines by newlines, and a line takes a row for each VgaWidth of its *)
(* characters, and the row the cursor ends in.                             *)
LineStart(n) ==
    LET ends == {m \in 1 .. (n - 1) : printed[m].char = Newline} \cup {0}
    IN  CHOOSE m \in ends : \A k \in ends : k <= m

ColumnInLine == [n \in 1 .. (Len(printed) + 1) |-> n - LineStart(n) - 1]

Visible == {n \in DOMAIN printed : printed[n].char # Newline}

(* The place of each character, and of the one to come.                    *)
Places ==
    LET column == ColumnInLine
        rows == {n \in DOMAIN printed : n \in Visible => (column[n] + 1) % VgaWidth = 0}
    IN  [n \in 1 .. (Len(printed) + 1) |->
            [row |-> Cardinality({m \in rows : m < n}) % RowMod, col |-> column[n] % VgaWidth]]

TerminalTypeOK ==
    /\ video_mem \in [Offsets -> Cells]
    /\ terminal_row \in 0 .. (RowMod - 1) /\ terminal_col \in 0 .. (VgaWidth - 1)
    /\ overrun \in BOOLEAN /\ printed \in Seq(Cells)

(* The kernel is written over just if the text says so: when a character   *)
(* of it has its place there. Until then the next character goes where the *)
(* text so far says; a cell of the video memory shows the last character   *)
(* of the text whose place it is, in its colour if the character is ASCII; *)
(* and the other cells are as the cleared screen left them.                *)
ShowsText ==
    LET places == Places
        offset == [n \in Visible |-> places[n].row * VgaWidth + places[n].col]
        here(o) == {n \in Visible : offset[n] = o}
    IN  /\ overrun <=> \E n \in Visible : offset[n] >= KernelCell
        /\ ~overrun => places[Len(printed) + 1] = [row |-> terminal_row, col |-> terminal_col]
        /\ ~overrun => \A o \in Offsets :
            \/ here(o) = {} /\ video_mem[o] = IF o \in Screen THEN Blank ELSE Unwritten
            \/ \E n \in here(o) :
                /\ \A m \in here(o) : m <= n
                /\ video_mem[o].char = printed[n].char
                /\ printed[n].char < 128 => video_mem[o] = printed[n]
=============================================================================
