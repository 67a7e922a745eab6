------------------------------ MODULE Console -------------------------------
(***************************************************************************)
(* The console of console.c: the cursor, the window of video memory that   *)
(* is on the screen, and the parser of escape sequences.                   *)
(*                                                                         *)
(* Addresses are counted in cells of a character and its style.  `con.mem' *)
(* says what the last byte did to the memory: it gives for each address    *)
(* where its contents were before, or Blank, Space (a blank that keeps the *)
(* style of the cell) or Char.  One step is one turn of the loop of        *)
(* console_write.  Styles and the registers of the chip are left out.      *)
(***************************************************************************)
EXTENDS Integers, Sequences

CONSTANTS Width, Height,  (* WIDTH and HEIGHT of the screen                 *)
          Rows,           (* the rows of the video memory                   *)
          TabSize,        (* 8                                              *)
          ARG_NR,         (* the arguments a sequence may have              *)
          Word,           (* u32 counts modulo this                         *)
          Number,         (* the digits that are written, as numbers        *)
          Longest         (* may a sequence have ARG_NR semicolons?         *)

ASSUME ConsoleAssumption ==
    /\ Width \in Nat \ {0} /\ Height \in Nat \ {0} /\ TabSize \in Nat \ {0}
    /\ Width % TabSize = 0
    /\ Rows \in Nat /\ Rows > 2 * Height
    /\ ARG_NR \in Nat /\ ARG_NR >= 2
    /\ Word \in Nat /\ Word > Width + Height
    /\ {7, 8} \subseteq Number /\ Number \subseteq 0 .. 9
    /\ Longest \in BOOLEAN

Size == Width * Height      \* scr_size
End == Width * Rows         \* mem_end; mem_base is 0
Cell == 0 .. End - 1

\* The memory with a screen of other memory on either side.
Addr == -Size .. End + Size - 1
Blank == End + Size
Space == End + Size + 1
Char == End + Size + 2
Same == [a \in Addr |-> a]

Control == {"NUL", "BEL", "BS", "HT", "LF", "VT", "FF", "CR", "DEL", "ESC"}
Letter == {"A", "B", "C", "D", "E", "F", "G", "H", "J", "K", "L", "M", "P", "Z",
           "@", "d", "m", "r", "s", "u"}
Sign == {"[", "?", ";", "x"}
Digit == {<<"0", "1", "2", "3", "4", "5", "6", "7", "8", "9">>[n + 1] : n \in Number}
Value(b) == CHOOSE n \in Number :
                <<"0", "1", "2", "3", "4", "5", "6", "7", "8", "9">>[n + 1] = b
Byte == Control \cup Letter \cup Sign \cup Digit

VARIABLES con,    (* screen, the cursor (pos, x, y), and what was written   *)
          saved,  (* saved_x and saved_y                                    *)
          state,  (* the state of the parser; CSI lasts no byte             *)
          args,   (* args[0] and args[1]: none of the other arguments is    *)
                  (* used, except by 'm'; cleared after a sequence and not  *)
                  (* before the next                                        *)
          argc

vars == <<con, saved, state, args, argc>>

TypeOK ==
    /\ con \in [screen : Addr, pos : Addr, x : 0 .. Word - 1, y : 0 .. Word - 1,
                mem : [Addr -> Addr \cup {Blank, Space, Char}]]
    /\ saved \in [x : 0 .. Word - 1, y : 0 .. Word - 1]
    /\ state \in {"NOR", "ESC", "QUE", "ARG"}
    /\ args \in [0 .. 1 -> 0 .. Word - 1]
    /\ argc \in 0 .. ARG_NR

\* console_init: the memory is blank.
Init ==
    /\ con = [screen |-> 0, pos |-> 0, x |-> 0, y |-> 0, mem |-> Same]
    /\ saved = [x |-> 0, y |-> 0]
    /\ state = "NOR"
    /\ args = [i \in 0 .. 1 |-> 0]
    /\ argc = 0

-----------------------------------------------------------------------------
\* erase_screen and the other loops that store one value; memcpy.
Fill(c, start, count, v) ==
    [c EXCEPT !.mem = [a \in Addr |-> IF a \in start .. start + count - 1 THEN v ELSE @[a]]]

Copy(c, to, from, count) ==
    [c EXCEPT !.mem = [a \in Addr |->
        IF a \in to .. to + count - 1 THEN @[from + a - to] ELSE @[a]]]

SetXY(c, x, y) ==
    IF x > Width \/ y >= Height THEN c
    ELSE [c EXCEPT !.x = x, !.y = y, !.pos = c.screen + y * Width + x]

\* Mutant: the address of the cursor stays behind.
Rewound_Cursor(c) ==
    IF c.screen + Size + Width < End THEN c
    ELSE [Copy(c, 0, c.screen, Size) EXCEPT !.screen = 0]

\* Mutant: scroll_up leaves the new row as it is.
ScrollUp_Dirty(c) ==
    LET r == IF c.screen + Size + Width < End THEN c
             ELSE [Copy(c, 0, c.screen, Size) EXCEPT !.pos = @ - c.screen, !.screen = 0] IN
    [r EXCEPT !.screen = @ + Width, !.pos = @ + Width]

\* scroll_up: where there is no row left behind the screen, it moves to the start.
Room(c) == c.screen + Size + Width < End

Rewound(c) ==
    IF Room(c) THEN c
    ELSE [Copy(c, 0, c.screen, Size) EXCEPT !.pos = @ - c.screen, !.screen = 0]

ScrollUp(c) == LET r == Rewound(c) IN
    [Fill(r, r.screen + Size, Width, Blank) EXCEPT !.screen = @ + Width, !.pos = @ + Width]

Lf(c) == IF c.y + 1 < Height THEN [c EXCEPT !.y = @ + 1, !.pos = @ + Width] ELSE ScrollUp(c)

Cr(c) == [c EXCEPT !.pos = @ - c.x, !.x = 0]

\* What chr does before a character and tab after a move: behind the last column, it goes to
\* the next line.
Wrapped(c) == IF c.x < Width THEN c ELSE Lf([c EXCEPT !.x = @ - Width, !.pos = @ - Width])

Tab(c) == LET offset == TabSize - (c.x % TabSize) IN
    Wrapped([c EXCEPT !.x = @ + offset, !.pos = @ + offset])

Bs(c) == IF c.x = 0 THEN c
         ELSE Fill([c EXCEPT !.x = @ - 1, !.pos = @ - 1], c.pos - 1, 1, Blank)

Del(c) == Fill(c, c.pos, 1, Blank)

Chr(c) == LET w == Wrapped(c) IN
    [Fill(w, w.pos, 1, Char) EXCEPT !.x = @ + 1, !.pos = @ + 1]

-----------------------------------------------------------------------------
LineStart(c) == c.pos - c.x

\* csi_J and csi_K: behind the cursor, before it, or all.
EraseScreen(c, n) ==
    CASE n = 0 -> Fill(c, c.pos, c.screen + Size - c.pos, Blank)
      [] n = 1 -> Fill(c, c.screen, c.pos - c.screen, Blank)
      [] n = 2 -> Fill(c, c.screen, Size, Blank)
      [] OTHER -> c

EraseLine(c, n) ==
    CASE n = 0 -> Fill(c, c.pos, Width - c.x, Blank)
      [] n = 1 -> Fill(c, LineStart(c), c.x, Blank)
      [] n = 2 -> Fill(c, LineStart(c), Width, Blank)
      [] OTHER -> c

\* Mutant: the loop of insert_line starts at 1 and moves the last row as well.
InsertLine_Last(c) == LET start == c.screen + c.y * Width IN
    Fill(Copy(c, start + Width, start, End - start), start, Width, Blank)

\* Mutant: insert_line moves the first row first.
InsertLine_First(c) == LET start == c.screen + c.y * Width IN
    Fill([c EXCEPT !.mem = [a \in Addr |-> IF a \in start .. End - 1
                                           THEN @[start + ((a - start) % Width)] ELSE @[a]]],
         start, Width, Blank)

\* insert_line moves the rows from the line to the end of the memory one row down, the last
\* first.
InsertLine(c) == LET start == c.screen + c.y * Width IN
    Fill(Copy(c, start + Width, start, End - Width - start), start, Width, Blank)

\* delete_line: `start' is a pointer to cells and row_size a number of bytes, so that i rows
\* are two times i rows of cells: every second row is moved one row up.
DeleteLine(c) == LET start == c.screen + c.y * Width
                     Moves(a) == /\ a >= start /\ a + Width < End
                                 /\ ((a - start) \div Width) % 2 = 1 IN
    Fill([c EXCEPT !.mem = [a \in Addr |-> IF Moves(a) THEN @[a + Width] ELSE @[a]]],
         End - Width, Width, Blank)

\* Mutant: delete_char moves as many cells as the screen is wide.
DeleteChar_Wide(c) == Fill(Copy(c, c.pos, c.pos + 1, Width), c.pos + Width, 1, Blank)

\* delete_char and insert_char; behind the last column they move nothing.
DeleteChar(c) == LET n == IF c.x < Width THEN Width - 1 - c.x ELSE 0 IN
    Fill(Copy(c, c.pos, c.pos + 1, n), c.pos + n, 1, Blank)

InsertChar(c) == LET n == IF c.x < Width THEN Width - 1 - c.x ELSE 0 IN
    Fill(Copy(c, c.pos + 1, c.pos, n), c.pos, 1, Space)

\* The four that csi_L, csi_M, csi_P and csi_at repeat, and how often they do.
Edit(b, c) ==
    CASE b = "L" -> InsertLine(c)
      [] b = "M" -> DeleteLine(c)
      [] b = "P" -> DeleteChar(c)
      [] b = "@" -> InsertChar(c)

Times(n) == IF n > Height THEN Height ELSE IF n = 0 THEN 1 ELSE n

Repeated(b, c, n) ==
    LET done[k \in 0 .. Height] == IF k = 0 THEN c ELSE Edit(b, done[k - 1]) IN done[Times(n)]

-----------------------------------------------------------------------------
Start == [con EXCEPT !.mem = Same]

\* state_normal.
Normal(b) ==
    /\ state = "NOR"
    /\ state' = IF b = "ESC" THEN "ESC" ELSE "NOR"
    /\ con' = CASE b \in {"NUL", "BEL", "ESC"} -> Start
                [] b = "BS" -> Bs(Start)
                [] b = "HT" -> Tab(Start)
                [] b = "LF" -> Cr(Lf(Start))
                [] b \in {"VT", "FF"} -> Lf(Start)
                [] b = "CR" -> Cr(Start)
                [] b = "DEL" -> Del(Start)
                [] b \notin Control -> Chr(Start)
    /\ UNCHANGED <<saved, args, argc>>

\* state_esc: only '[' leaves the state.
Escape(b) ==
    /\ state = "ESC"
    /\ state' = IF b = "[" THEN "QUE" ELSE "ESC"
    /\ con' = CASE b = "E" -> Cr(Lf(Start))
                [] b = "D" -> Lf(Start)
                [] b = "8" -> SetXY(Start, saved.x, saved.y)
                [] OTHER -> Start
    /\ saved' = IF b = "7" THEN [x |-> con.x, y |-> con.y] ELSE saved
    /\ UNCHANGED <<args, argc>>

\* STATE_QUE with a '?'.
Question ==
    /\ state = "QUE"
    /\ state' = "ARG"
    /\ con' = Start
    /\ UNCHANGED <<saved, args, argc>>

\* Is the byte one that state_arg keeps?
InArgument(b) ==
    /\ state = "ARG" \/ (state = "QUE" /\ b # "?")
    /\ argc >= ARG_NR \/ b \in {";"} \cup Digit

\* state_arg.
Argument(b) ==
    /\ InArgument(b)
    /\ Longest \/ ~(b = ";" /\ argc + 1 = ARG_NR)
    /\ state' = "ARG"
    /\ argc' = IF b = ";" /\ argc < ARG_NR THEN argc + 1 ELSE argc
    /\ args' = IF b \in Digit /\ argc <= 1
               THEN [args EXCEPT ![argc] = (@ * 10 + Value(b)) % Word] ELSE args
    /\ con' = Start
    /\ UNCHANGED saved

\* state_csi for the moves of the cursor: where they lead, in unsigned arithmetic.
Less(n) == IF n = 0 THEN 0 ELSE n - 1
More(n) == IF n = 0 THEN 1 ELSE n

Moved(b, n, m) == LET c == Start IN
    CASE b = "G" -> SetXY(c, Less(n), c.y)
      [] b = "A" -> SetXY(c, c.x, (c.y - More(n)) % Word)
      [] b = "B" -> SetXY(c, c.x, (c.y + More(n)) % Word)
      [] b = "C" -> SetXY(c, (c.x + More(n)) % Word, c.y)
      [] b = "D" -> SetXY(c, (c.x - More(n)) % Word, c.y)
      [] b = "E" -> SetXY(c, 0, (c.y + More(n)) % Word)
      [] b = "F" -> SetXY(c, 0, (c.y - More(n)) % Word)
      [] b = "d" -> SetXY(c, c.x, Less(n))
      [] b = "H" -> SetXY(c, Less(m), Less(n))

Edited(b, n) == LET c == Start IN
    CASE b = "J" -> EraseScreen(c, n)
      [] b = "K" -> EraseLine(c, n)
      [] b \in {"L", "M", "P", "@"} -> Repeated(b, c, n)

\* state_csi: any other byte ends the sequence.  The case of 's' falls through to that of 'u'.
Csi(b) ==
    /\ state = "ARG" \/ (state = "QUE" /\ b # "?")
    /\ ~InArgument(b)
    /\ state' = "NOR"
    /\ args' = [i \in 0 .. 1 |-> 0]
    /\ argc' = 0
    /\ saved' = IF b = "s" THEN [x |-> con.x, y |-> con.y] ELSE saved
    /\ con' = CASE b \in {"G", "A", "B", "C", "D", "E", "F", "d", "H"} ->
                       Moved(b, args[0], args[1])
                [] b \in {"J", "K", "L", "M", "P", "@"} -> Edited(b, args[0])
                [] b \in {"s", "u"} -> SetXY(Start, saved'.x, saved'.y)
                [] OTHER -> Start

\* console_write.
Next ==
    \/ Question
    \/ \E b \in Byte : Normal(b) \/ Escape(b) \/ Argument(b) \/ Csi(b)

Spec == Init /\ [][Next]_vars

-----------------------------------------------------------------------------
(* Whatever was written, the address of the cursor (console.c:79-83), its  *)
(* coordinates and the window say the same thing: the operations change    *)
(* pos and x and y separately (lf, cr, tab, scroll_up and chr, 163-253).   *)
CursorRight ==
    /\ con.x <= Width /\ con.y < Height
    /\ con.pos = con.screen + con.y * Width + con.x
    /\ con.screen % Width = 0 /\ con.screen + Size <= End

(* Nothing is written outside the memory of the console: the row that      *)
(* scroll_up clears is behind the screen (console.c:165-173), insert_line  *)
(* and delete_line go to the end of the memory (404-412, 433-441), and     *)
(* the cursor may stand behind the last cell of the screen (125).          *)
InMemory == \A a \in Addr \ Cell : con.mem[a] = a

(* When the window moves, also when it returns to the start of the memory  *)
(* (console.c:165-170), the screen shows what it showed, a row higher,     *)
(* and a new row that is blank but for the character just written.         *)
ScrollKeeps ==
    [][con'.screen # con.screen =>
        \A i \in 0 .. Size - 1 :
            LET now == con'.mem[con'.screen + i] IN
            IF i < Size - Width THEN now = con.screen + Width + i
            ELSE now = Blank \/ (now = Char /\ i = con'.pos - con'.screen - 1)]_vars

(* A byte that ends no erasure of the screen and no insertion or deletion  *)
(* of lines, and does not scroll, changes cells of the row of the cursor   *)
(* only, as long as the cursor stands on a cell: behind the last column    *)
(* del, delete_char and insert_char write to the next row (console.c:237,  *)
(* 468, 494).                                                              *)
RowsKept ==
    [][(/\ con.x < Width /\ con'.screen = con.screen
        /\ \E a \in Cell : con'.mem[a] # a /\ a \div Width # LineStart(con) \div Width)
       => \E b \in {"J", "L", "M"} : Csi(b)]_vars

(* The loops of csi_L, csi_P and csi_at (console.c:416-427, 472-483,       *)
(* 498-509) do in n turns what the editing of n lines or n characters      *)
(* means: what stands behind the cursor moves by n, and nothing is lost    *)
(* or doubled.                                                             *)
LinesInserted == LET start == con.screen + con.y * Width
                     n == Times(args[0]) * Width IN
    \A a \in Cell : con'.mem[a] = IF a < start THEN a
                                   ELSE IF a < start + n THEN Blank ELSE a - n

CharsDeleted == \A i \in con.x .. Width - 1 :
    con'.mem[LineStart(con) + i] = LET from == i + Times(args[0]) IN
                                   IF from < Width THEN LineStart(con) + from ELSE Blank

CharsInserted == \A i \in con.x .. Width - 1 :
    con'.mem[LineStart(con) + i] = LET from == i - Times(args[0]) IN
                                   IF from >= con.x THEN LineStart(con) + from ELSE Space

EditsShift ==
    [][/\ Csi("L") => LinesInserted
       /\ Csi("P") /\ con.x < Width => CharsDeleted
       /\ Csi("@") /\ con.x < Width => CharsInserted]_vars

(* csi_M deletes lines, as its comment (console.c:429, 444) and that of    *)
(* its case (591) say: the rows behind them move up.  It does not hold.    *)
RowsUp(start, n) == \A a \in start .. con.screen + Size - n - 1 : con'.mem[a] = a + n

LinesDeleted ==
    [][Csi("M") => RowsUp(con.screen + con.y * Width, Times(args[0]) * Width)]_vars
=============================================================================
