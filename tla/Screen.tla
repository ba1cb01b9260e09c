------------------------------- MODULE Screen -------------------------------
(***************************************************************************)
(* The text screen of one terminal: putc (lib.c) and the keyboard's echo   *)
(* and erasure of the line being typed (keyboard.c).  A console is the     *)
(* cells of a video frame and the cursor; colours are left out.            *)
(***************************************************************************)
EXTENDS Integers, Sequences

CONSTANTS
  NUM_ROWS, NUM_COLS,     \* lib.h, 25 and 80
  TAB_SIZE,               \* the 4 of putc and of the backspace handling
  KEYBOARD_BUFFER_SIZE,   \* 128
  Events,                 \* what occurs besides, a subset of AllEvents
  PAPER_ROWS              \* bound: rows printed since the last clear

\* "bottom_tab": a tab that goes over the end of the last row.  "message": CTRL+S or
\* CTRL+V in the middle of a line.
AllEvents == {"bottom_tab", "message"}

ASSUME ScreenAssumption ==
  /\ NUM_ROWS \in Nat \ {0} /\ NUM_COLS \in Nat /\ TAB_SIZE \in Nat
  /\ TAB_SIZE < NUM_COLS
  /\ KEYBOARD_BUFFER_SIZE \in Nat
  /\ Events \subseteq AllEvents
  /\ PAPER_ROWS \in Nat /\ NUM_ROWS <= PAPER_ROWS

Row == 0 .. NUM_ROWS - 1
Col == 0 .. NUM_COLS - 1

\* The cells of a frame in the order of the memory, row by row.
Place == 0 .. NUM_COLS * NUM_ROWS - 1

\* Characters: "a" stands for the printable ones; nl, bs and tab are \n, \b and \t.
Space == " "
Cell == {Space, "a"}
Console == [cells : [Place -> Cell], x : Col, y : Row]

VARIABLES
  console,
  buf,        \* keyboard.c: buf_local up to buf_size
  reading,    \* echo: a program reads a line
  paper       \* the reference: all that was printed, on paper without end

vars == <<console, buf, reading, paper>>

-----------------------------------------------------------------------------
(* putc.                                                                    *)

Cleared == [cells |-> [i \in Place |-> Space], x |-> 0, y |-> 0]

\* The cell under the cursor.
Offset(k) == NUM_COLS * k.y + k.x

\* n cells written from the cursor on, and the cursor moved behind them, maybe below
\* the last row: what is written there is outside of the rows that the screen shows.
Write(k, c, n) ==
  [cells |-> [i \in Place |-> IF i \in Offset(k) .. Offset(k) + n - 1 THEN c ELSE k.cells[i]],
   x |-> (k.x + n) % NUM_COLS,
   y |-> k.y + (k.x + n) \div NUM_COLS]

NewLine(k) == [cells |-> k.cells, x |-> 0, y |-> k.y + 1]

\* The erased cell is the one before the cursor; nothing at the top left corner.
Backspace(k) ==
  IF k.x = 0 /\ k.y = 0 THEN k
  ELSE [cells |-> [k.cells EXCEPT ![Offset(k) - 1] = Space],
        x |-> IF k.x = 0 THEN NUM_COLS - 1 ELSE k.x - 1,
        y |-> IF k.x = 0 THEN k.y - 1 ELSE k.y]

\* The rows move up and the last one is cleared from the cursor on, after which
\* the cursor is in column 0.  Mutant: the last row is not cleared.
ScrollOnly(k) ==
  [cells |-> [i \in Place |-> IF i + NUM_COLS \in Place THEN k.cells[i + NUM_COLS]
                              ELSE k.cells[i]],
   x |-> 0, y |-> NUM_ROWS - 1]
Scroll(k) ==
  [cells |-> [i \in Place |-> IF i + NUM_COLS \in Place THEN k.cells[i + NUM_COLS]
                              ELSE IF i < NUM_COLS * (NUM_ROWS - 1) + k.x THEN k.cells[i]
                              ELSE Space],
   x |-> 0, y |-> NUM_ROWS - 1]

\* Mutant: one row too late.
PastBottomLate(k) == k.y > NUM_ROWS
PastBottom(k) == k.y = NUM_ROWS

putc(k, c) ==
  LET moved == CASE c = "nl" -> NewLine(k)
                 [] c = "bs" -> Backspace(k)
                 [] c = "tab" -> Write(k, Space, TAB_SIZE)
                 [] OTHER    -> Write(k, c, 1)
  IN  IF PastBottom(moved) THEN Scroll(moved) ELSE moved

puts(k, s) ==
  LET after[n \in 0 .. Len(s)] == IF n = 0 THEN k ELSE putc(after[n - 1], s[n])
  IN  after[Len(s)]

-----------------------------------------------------------------------------
(* The reference: a typewriter with paper without end.  The screen is a      *)
(* window on its last NUM_ROWS rows, from row `top' on; the cell at row r    *)
(* and column c of the paper is number NUM_COLS * r + c.                     *)

Sheet == 0 .. NUM_COLS * PAPER_ROWS - 1
NewPaper == [text |-> [i \in Sheet |-> Space], at |-> 0, top |-> 0]

Type(p, c, n) ==
  [text |-> [i \in Sheet |-> IF i \in p.at .. p.at + n - 1 THEN c ELSE p.text[i]],
   at |-> p.at + n, top |-> p.top]

EndLine(p) == [p EXCEPT !.at = NUM_COLS * (@ \div NUM_COLS + 1)]

\* Not back over the top of the window.
Erased(p) ==
  IF p.at = NUM_COLS * p.top THEN p
  ELSE [p EXCEPT !.text[p.at - 1] = Space, !.at = @ - 1]

\* The window follows the typewriter down.
Follow(p) ==
  LET row == p.at \div NUM_COLS
  IN  [p EXCEPT !.top = IF row >= @ + NUM_ROWS THEN row - NUM_ROWS + 1 ELSE @]

TypeOn(p, c) ==
  Follow(CASE c = "nl" -> EndLine(p)
           [] c = "bs" -> Erased(p)
           [] c = "tab" -> Type(p, Space, TAB_SIZE)
           [] OTHER    -> Type(p, c, 1))

TypeAll(p, s) ==
  LET after[n \in 0 .. Len(s)] == IF n = 0 THEN p ELSE TypeOn(after[n - 1], s[n])
  IN  after[Len(s)]

\* There is room on the paper for n more cells.
Room(n) == paper.at + n < NUM_COLS * PAPER_ROWS

\* Not a tab over the end of the last row.
TabFits(c) ==
  c = "tab" /\ "bottom_tab" \notin Events =>
     console.y + 1 \in Row \/ console.x + TAB_SIZE <= NUM_COLS

-----------------------------------------------------------------------------
Prints(s) ==
  /\ console' = puts(console, s)
  /\ paper' = TypeAll(paper, s)

\* terminal_write, or any message of the kernel, while nobody types.
Output(c) ==
  /\ ~reading
  /\ TabFits(c) /\ Room(NUM_COLS)
  /\ Prints(<<c>>)
  /\ UNCHANGED <<buf, reading>>

\* sys_read of FD_STDIN: keys are taken from now on.
ReadBegins ==
  /\ ~reading
  /\ reading' = TRUE
  /\ UNCHANGED <<console, buf, paper>>

KeyChar(c) ==
  /\ reading
  /\ Len(buf) < KEYBOARD_BUFFER_SIZE
  /\ TabFits(c) /\ Room(NUM_COLS)
  /\ buf' = Append(buf, c)
  /\ Prints(<<c>>)
  /\ UNCHANGED reading

\* What keyboard_handle prints to erase c.  Mutant: one backspace for a tab too.
EraseOne(c) == <<"bs">>
Erase(c) == [i \in 1 .. (IF c = "tab" THEN TAB_SIZE ELSE 1) |-> "bs"]

\* Refused on an empty line (BUG 10).
KeyBackspace ==
  /\ reading /\ buf # <<>>
  /\ buf' = SubSeq(buf, 1, Len(buf) - 1)
  /\ Prints(Erase(buf[Len(buf)]))
  /\ UNCHANGED reading

KeyEnter ==
  /\ reading
  /\ Room(NUM_COLS)
  /\ buf' = <<>>
  /\ reading' = FALSE
  /\ Prints(<<"nl">>)

\* CTRL+L.
KeyClear ==
  /\ console' = Cleared
  /\ paper' = NewPaper
  /\ buf' = <<>>
  /\ UNCHANGED reading

\* CTRL+S and CTRL+V answer with a line of their own; buf stays.
KeyMessage ==
  /\ buf # <<>> => "message" \in Events
  /\ Room(3 * NUM_COLS)
  /\ Prints(<<"nl", "a", "nl">>)
  /\ UNCHANGED <<buf, reading>>

Init ==
  /\ console = Cleared
  /\ buf = <<>>
  /\ reading = FALSE
  /\ paper = NewPaper

Keyboard ==
  \/ \E c \in {"a", "tab"} : KeyChar(c)
  \/ KeyBackspace \/ KeyEnter \/ KeyClear \/ KeyMessage

Next == \/ \E c \in {"a", "nl", "bs", "tab"} : Output(c)
        \/ ReadBegins
        \/ Keyboard

Spec == Init /\ [][Next]_vars

-----------------------------------------------------------------------------
TypeOK ==
  /\ console \in Console
  /\ buf \in Seq({"a", "tab"}) /\ Len(buf) <= KEYBOARD_BUFFER_SIZE
  /\ reading \in BOOLEAN

\* The screen is a window on the paper: whatever is printed, with its wraps,
\* backspaces and scrolls, no cell of it is lost, misplaced or left over, and the
\* cursor is where the typewriter is (BUG 9 and BUG 28 of bug.log).
WindowOnPaper ==
  /\ Offset(console) = paper.at - NUM_COLS * paper.top
  /\ \A i \in Place : console.cells[i] = paper.text[NUM_COLS * paper.top + i]

\* What a line looks like on the screen.
Look(c) == IF c = "tab" THEN [i \in 1 .. TAB_SIZE |-> Space] ELSE <<c>>
Shown(s) ==
  LET shown[n \in 0 .. Len(s)] == IF n = 0 THEN <<>> ELSE shown[n - 1] \o Look(s[n])
  IN  shown[Len(s)]

\* The cells before the cursor, across row ends, spell the line in the buffer: so
\* backspace erases what was typed and never "eats up" what stood there before
\* (BUG 10 of bug.log).
LineAtCursor ==
  LET s == Shown(buf)
      start == Offset(console) - Len(s)
  IN  \A i \in 1 .. Len(s) :
        start + i - 1 >= 0 => console.cells[start + i - 1] = s[i]
=============================================================================
