---------------------------- MODULE ScreenProofs ----------------------------
(***************************************************************************)
(* The properties of Screen, proved for every size of the screen, of tabs, *)
(* of the line and of the paper.  OnPaper relates a console to the paper   *)
(* cell by cell; it says more than WindowOnPaper: that the paper behind    *)
(* the typewriter is blank, which is what a scroll brings to the screen.   *)
(* Each putc keeps it, and with it every message of any length.            *)
(***************************************************************************)
EXTENDS Screen, NatLemmas, SequenceTheorems

Paper == [text : [Sheet -> Cell], at : Nat, top : Nat]

\* A console that may be one row too low, before a scroll.
Moved == [cells : [Place -> Cell], x : Col, y : 0 .. NUM_ROWS]

OnPaper(k, p) ==
  /\ p \in Paper
  /\ p.at = NUM_COLS * p.top + Offset(k) /\ p.top + NUM_ROWS <= PAPER_ROWS
  /\ \A i \in Place : k.cells[i] = p.text[NUM_COLS * p.top + i]
  /\ \A j \in Sheet : j >= p.at => p.text[j] = Space

-----------------------------------------------------------------------------
(* Rows and columns.                                                        *)

LEMMA SizeFacts ==
  /\ NUM_COLS \in Nat \ {0} /\ NUM_ROWS \in Nat \ {0} /\ PAPER_ROWS \in Nat /\ TAB_SIZE \in Nat
  /\ NUM_ROWS <= PAPER_ROWS /\ TAB_SIZE < NUM_COLS
BY ScreenAssumption DEF ScreenAssumption

\* The first cells of rows.
LEMMA Rows ==
  ASSUME NEW r \in Nat, NEW s \in Nat
  PROVE  /\ NUM_COLS * r \in Nat /\ NUM_COLS * (r + s) = NUM_COLS * r + NUM_COLS * s
         /\ NUM_COLS * (r + 1) = NUM_COLS * r + NUM_COLS /\ NUM_COLS * 0 = 0
         /\ r <= s => NUM_COLS * r <= NUM_COLS * s
<1>1. NUM_COLS \in Nat
  BY SizeFacts
<1>2. NUM_COLS * r \in Nat /\ NUM_COLS * (r + s) = NUM_COLS * r + NUM_COLS * s
      /\ NUM_COLS * (r + 1) = NUM_COLS * r + NUM_COLS /\ NUM_COLS * 0 = 0
  BY <1>1
<1>3. ASSUME r <= s PROVE NUM_COLS * r <= NUM_COLS * s
  <2>1. PICK d \in Nat : s = r + d
    <3>1. s - r \in Nat /\ s = r + (s - r)
      BY <1>3
    <3> QED BY <3>1
  <2>2. NUM_COLS * s = NUM_COLS * r + NUM_COLS * d /\ NUM_COLS * d \in Nat
    BY <2>1, <1>1
  <2> QED BY <2>2, <1>2
<1> QED BY <1>2, <1>3

\* Less is at least one less.
LEMMA RowsStrict ==
  ASSUME NEW r \in Nat, NEW s \in Nat, NUM_COLS * r < NUM_COLS * s
  PROVE  r < s /\ NUM_COLS * r + NUM_COLS <= NUM_COLS * s
<1>1. ~(s <= r)
  BY Rows
<1>2. r + 1 <= s /\ r + 1 \in Nat
  BY <1>1
<1> QED BY <1>2, Rows

\* The cell of a row and a column, and back.
LEMMA CellOf ==
  ASSUME NEW r \in Nat, NEW x \in Col
  PROVE  (NUM_COLS * r + x) \div NUM_COLS = r /\ (NUM_COLS * r + x) % NUM_COLS = x
<1>1. NUM_COLS \in Nat \ {0} /\ x \in 0 .. NUM_COLS - 1 /\ NUM_COLS * r \in Nat
  BY SizeFacts, Rows DEF Col
<1>2. PICK a \in Nat : a = NUM_COLS * r + x
  BY <1>1
<1>3. /\ a \div NUM_COLS \in Nat /\ a % NUM_COLS \in 0 .. NUM_COLS - 1
      /\ a = NUM_COLS * (a \div NUM_COLS) + (a % NUM_COLS)
  BY <1>1, DivMod
<1>4. PICK q \in Nat, m \in 0 .. NUM_COLS - 1 : q = a \div NUM_COLS /\ m = a % NUM_COLS
  BY <1>3
<1>5. NUM_COLS * q + m = NUM_COLS * r + x
  BY <1>2, <1>3, <1>4
<1>6. q = r /\ m = x
  BY <1>1, <1>5, Unique
<1> QED BY <1>2, <1>4, <1>6

\* What a cursor's place is.
LEMMA OffsetFacts ==
  ASSUME NEW k, k.x \in Col, k.y \in 0 .. NUM_ROWS
  PROVE  /\ Offset(k) \in Nat /\ Offset(k) = NUM_COLS * k.y + k.x
         /\ k.y \in Row => Offset(k) \in Place
         /\ k.y = NUM_ROWS => Offset(k) = NUM_COLS * NUM_ROWS + k.x
<1>1. /\ k.x \in Nat /\ k.x < NUM_COLS /\ k.y \in Nat /\ NUM_COLS * k.y \in Nat
      /\ NUM_ROWS \in Nat /\ NUM_COLS * NUM_ROWS \in Nat
      /\ NUM_COLS \in Nat
  BY SizeFacts, Rows DEF Col
<1>2. ASSUME k.y \in Row PROVE Offset(k) \in Place
  <2>1. k.y + 1 \in Nat /\ k.y + 1 <= NUM_ROWS
    BY <1>1, <1>2 DEF Row
  <2>2. NUM_COLS * (k.y + 1) <= NUM_COLS * NUM_ROWS
    BY <1>1, <2>1, Rows
  <2>3. NUM_COLS * (k.y + 1) = NUM_COLS * k.y + NUM_COLS
    BY <1>1, Rows
  <2> QED BY <1>1, <2>2, <2>3 DEF Offset, Place
<1> QED BY <1>1, <1>2 DEF Offset

\* The window lies on the paper.
LEMMA OnSheet ==
  ASSUME NEW top \in Nat, top + NUM_ROWS <= PAPER_ROWS, NEW i \in Place
  PROVE  NUM_COLS * top + i \in Sheet /\ NUM_COLS * top \in Nat /\ i \in Nat
<1>1. NUM_COLS * (top + NUM_ROWS) = NUM_COLS * top + NUM_COLS * NUM_ROWS
      /\ NUM_COLS * (top + NUM_ROWS) <= NUM_COLS * PAPER_ROWS
      /\ NUM_COLS * top \in Nat /\ NUM_COLS * NUM_ROWS \in Nat /\ NUM_COLS * PAPER_ROWS \in Nat
  BY SizeFacts, Rows
<1> QED BY <1>1 DEF Place, Sheet

-----------------------------------------------------------------------------
(* One character.                                                           *)

\* A scroll and the move of the window go together.
LEMMA Settles ==
  ASSUME NEW k \in Moved, NEW p, OnPaper(k, p), k.y = NUM_ROWS => k.x = 0,
         p.at < NUM_COLS * PAPER_ROWS
  PROVE  LET j == IF PastBottom(k) THEN Scroll(k) ELSE k
         IN  /\ j \in Console /\ OnPaper(j, Follow(p))
             /\ Follow(p).at = p.at /\ Follow(p).text = p.text /\ Follow(p).top >= p.top
             /\ k.y # NUM_ROWS => Follow(p) = p
<1> USE SizeFacts
<1>1. PICK text \in [Sheet -> Cell], at \in Nat, top \in Nat :
        p = [text |-> text, at |-> at, top |-> top]
  BY DEF OnPaper, Paper
<1>2. PICK cells \in [Place -> Cell], x \in Col, y \in 0 .. NUM_ROWS :
        k = [cells |-> cells, x |-> x, y |-> y]
  BY DEF Moved
<1>3. Offset(k) = NUM_COLS * y + x /\ NUM_COLS * y \in Nat /\ x \in Nat
  BY <1>2, Rows DEF Offset, Col
<1>4. /\ at = NUM_COLS * top + (NUM_COLS * y + x) /\ top + NUM_ROWS <= PAPER_ROWS
      /\ \A i \in Place : cells[i] = text[NUM_COLS * top + i]
      /\ \A j \in Sheet : j >= at => text[j] = Space
  BY <1>1, <1>2, <1>3 DEF OnPaper
<1>5. NUM_COLS * (top + y) = NUM_COLS * top + NUM_COLS * y /\ NUM_COLS * top \in Nat
      /\ top + y \in Nat
  BY Rows
<1>6. at \div NUM_COLS = top + y
  BY <1>3, <1>4, <1>5, CellOf
<1>7. CASE y # NUM_ROWS
  <2>1. y \in Row /\ ~(top + y >= top + NUM_ROWS)
    BY <1>7 DEF Row
  <2>2. Follow(p) = p
    BY <1>1, <1>6, <2>1 DEF Follow
  <2>3. k \in Console /\ ~PastBottom(k)
    BY <1>2, <1>7, <2>1 DEF Console, PastBottom
  <2> QED BY <1>1, <2>2, <2>3
<1>8. CASE y = NUM_ROWS
  <2>1. x = 0 /\ at = NUM_COLS * (top + NUM_ROWS)
    BY <1>2, <1>4, <1>5, <1>8
  <2>2. top + NUM_ROWS < PAPER_ROWS
    BY <1>1, <2>1, RowsStrict
  <2>3. Follow(p) = [text |-> text, at |-> at, top |-> top + 1]
    <3>1. top + y >= top + NUM_ROWS /\ top + y - NUM_ROWS + 1 = top + 1
      BY <1>8
    <3> QED BY <1>1, <1>6, <3>1 DEF Follow
  <2> DEFINE new == [i \in Place |-> IF i + NUM_COLS \in Place THEN cells[i + NUM_COLS]
                              ELSE IF i < NUM_COLS * (NUM_ROWS - 1) + x THEN cells[i]
                              ELSE Space]
  <2>4. PastBottom(k) /\ Scroll(k) = [cells |-> new, x |-> 0, y |-> NUM_ROWS - 1]
    BY <1>2, <1>8 DEF PastBottom, Scroll
  <2>5. NUM_COLS * (NUM_ROWS - 1 + 1) = NUM_COLS * (NUM_ROWS - 1) + NUM_COLS
        /\ NUM_COLS * (NUM_ROWS - 1) \in Nat /\ NUM_ROWS - 1 + 1 = NUM_ROWS
        /\ NUM_COLS * (top + 1) = NUM_COLS * top + NUM_COLS
        /\ NUM_COLS * (top + NUM_ROWS) = NUM_COLS * top + NUM_COLS * NUM_ROWS
        /\ NUM_COLS * NUM_ROWS \in Nat
    <3>1. NUM_ROWS - 1 \in Nat
      OBVIOUS
    <3> QED BY <3>1, Rows
  <2>6. new \in [Place -> Cell]
    BY DEF Place, Cell
  <2>7. ASSUME NEW i \in Place PROVE new[i] = text[NUM_COLS * (top + 1) + i]
    <3>1. i \in Nat /\ NUM_COLS * (top + 1) + i \in Sheet
      <4>1. top + 1 \in Nat /\ top + 1 + NUM_ROWS <= PAPER_ROWS
        BY <2>2
      <4> QED BY <4>1, OnSheet
    <3>2. CASE i + NUM_COLS \in Place
      <4>1. NUM_COLS * top + (i + NUM_COLS) = NUM_COLS * (top + 1) + i
        BY <2>5, <3>1, <1>5
      <4>2. new[i] = cells[i + NUM_COLS]
        BY <3>2
      <4> QED BY <3>2, <4>1, <4>2, <1>4
    <3>3. CASE i + NUM_COLS \notin Place
      <4>1. ~(i < NUM_COLS * (NUM_ROWS - 1) + x) /\ NUM_COLS * (top + 1) + i >= at
        BY <2>1, <2>5, <3>1, <3>3, <1>5 DEF Place
      <4>2. new[i] = Space
        BY <3>3, <4>1
      <4> QED BY <3>1, <4>1, <4>2, <1>4
    <3> QED BY <3>2, <3>3
  <2> HIDE DEF new
  <2>8. PICK j : j = Scroll(k)
    OBVIOUS
  <2>9. j = [cells |-> new, x |-> 0, y |-> NUM_ROWS - 1]
    BY <2>4, <2>8
  <2>10. j \in Console
    BY <2>6, <2>9 DEF Console, Row, Col
  <2>11. Offset(j) = NUM_COLS * (NUM_ROWS - 1)
    BY <2>5, <2>9 DEF Offset
  <2>12. at = NUM_COLS * (top + 1) + Offset(j) /\ top + 1 + NUM_ROWS <= PAPER_ROWS
    BY <2>1, <2>2, <2>5, <2>11, <1>5
  <2>13. OnPaper(j, Follow(p))
    BY <1>4, <2>3, <2>7, <2>9, <2>12 DEF OnPaper, Paper
  <2> QED BY <1>1, <1>2, <1>8, <2>3, <2>4, <2>8, <2>10, <2>13
<1> QED BY <1>7, <1>8

\* n cells written, on the screen and on the paper.
LEMMA Writes ==
  ASSUME NEW k \in Console, NEW p, OnPaper(k, p), NEW c \in Cell, NEW n \in 0 .. NUM_COLS
  PROVE  /\ Write(k, c, n) \in Moved /\ OnPaper(Write(k, c, n), Type(p, c, n))
         /\ k.y + 1 \in Row \/ k.x + n <= NUM_COLS =>
              (Write(k, c, n).y = NUM_ROWS => Write(k, c, n).x = 0)
<1> USE SizeFacts
<1>1. PICK text \in [Sheet -> Cell], at \in Nat, top \in Nat :
        p = [text |-> text, at |-> at, top |-> top]
  BY DEF OnPaper, Paper
<1>2. PICK cells \in [Place -> Cell], x \in Col, y \in Row :
        k = [cells |-> cells, x |-> x, y |-> y]
  BY DEF Console
<1>3. PICK o \in Nat : o = Offset(k) /\ o = NUM_COLS * y + x
  BY <1>2, OffsetFacts DEF Row
<1>4. /\ at = NUM_COLS * top + o /\ top + NUM_ROWS <= PAPER_ROWS
      /\ \A i \in Place : cells[i] = text[NUM_COLS * top + i]
      /\ \A j \in Sheet : j >= at => text[j] = Space
  BY <1>1, <1>2, <1>3 DEF OnPaper
<1>5. NUM_COLS * y \in Nat /\ NUM_COLS * (y + 1) = NUM_COLS * y + NUM_COLS
      /\ NUM_COLS * 0 = 0 /\ NUM_COLS * 1 = NUM_COLS /\ NUM_COLS * top \in Nat /\ y \in Nat
      /\ x \in Nat /\ x < NUM_COLS
  BY Rows DEF Row, Col
<1> DEFINE x1 == (x + n) % NUM_COLS
           y1 == y + (x + n) \div NUM_COLS
<1>6. /\ x1 \in Col /\ y1 \in 0 .. NUM_ROWS /\ NUM_COLS * y1 + x1 = o + n
      /\ y + 1 \in Row \/ x + n <= NUM_COLS => (y1 = NUM_ROWS => x1 = 0)
  <2>1. CASE x + n < NUM_COLS
    <3>1. x + n \in Col /\ NUM_COLS * 0 + (x + n) = x + n
      BY <2>1, <1>5 DEF Col
    <3>2. (x + n) \div NUM_COLS = 0 /\ x1 = x + n
      BY <3>1, CellOf
    <3>3. y1 = y
      BY <3>2, <1>5
    <3> HIDE DEF x1, y1
    <3> QED BY <3>1, <3>2, <3>3, <1>3, <1>5 DEF Row
  <2>2. CASE ~(x + n < NUM_COLS)
    <3>1. x + n - NUM_COLS \in Col /\ NUM_COLS * 1 + (x + n - NUM_COLS) = x + n
      BY <2>2, <1>5 DEF Col
    <3>2. (x + n) \div NUM_COLS = 1 /\ x1 = x + n - NUM_COLS
      BY <3>1, CellOf
    <3>3. y1 = y + 1
      BY <3>2, <1>5
    <3> HIDE DEF x1, y1
    <3>4. x1 \in Col /\ y1 \in 0 .. NUM_ROWS
      BY <3>1, <3>2, <3>3 DEF Row
    <3>5. NUM_COLS * y1 + x1 = o + n
      BY <3>2, <3>3, <1>3, <1>5
    <3>6. ASSUME y + 1 \in Row \/ x + n <= NUM_COLS, y1 = NUM_ROWS PROVE x1 = 0
      BY <3>2, <3>3, <3>6, <2>2, <1>5 DEF Row
    <3> QED BY <3>4, <3>5, <3>6
  <2> QED BY <2>1, <2>2
<1> DEFINE new == [i \in Place |-> IF i \in o .. o + n - 1 THEN c ELSE cells[i]]
           text1 == [i \in Sheet |-> IF i \in at .. at + n - 1 THEN c ELSE text[i]]
<1>7. Write(k, c, n) = [cells |-> new, x |-> x1, y |-> y1]
  BY <1>2, <1>3 DEF Write
<1>8. Type(p, c, n) = [text |-> text1, at |-> at + n, top |-> top]
  BY <1>1 DEF Type
<1>9. new \in [Place -> Cell] /\ text1 \in [Sheet -> Cell]
  OBVIOUS
<1>10. ASSUME NEW i \in Place PROVE new[i] = text1[NUM_COLS * top + i]
  <2>1. NUM_COLS * top + i \in Sheet /\ i \in Nat
    BY <1>4, OnSheet
  <2>2. i \in o .. o + n - 1 <=> NUM_COLS * top + i \in at .. at + n - 1
    BY <2>1, <1>4, <1>5
  <2> QED BY <2>1, <2>2, <1>4
<1>11. \A j \in Sheet : j >= at + n => text1[j] = Space
  <2> SUFFICES ASSUME NEW j \in Sheet, j >= at + n PROVE text1[j] = Space
    OBVIOUS
  <2>1. j \in Int /\ j >= at /\ j \notin at .. at + n - 1
    BY DEF Sheet
  <2> QED BY <2>1, <1>4
<1> HIDE DEF x1, y1, new, text1
<1>12. Write(k, c, n) \in Moved
  BY <1>6, <1>7, <1>9 DEF Moved
<1>13. Offset(Write(k, c, n)) = o + n /\ at + n = NUM_COLS * top + (o + n)
  BY <1>4, <1>5, <1>6, <1>7 DEF Offset
<1>14. OnPaper(Write(k, c, n), Type(p, c, n))
  BY <1>4, <1>7, <1>8, <1>9, <1>10, <1>11, <1>13 DEF OnPaper, Paper
<1> QED BY <1>2, <1>6, <1>7, <1>12, <1>14

LEMMA EndsLine ==
  ASSUME NEW k \in Console, NEW p, OnPaper(k, p)
  PROVE  /\ NewLine(k) \in Moved /\ NewLine(k).x = 0 /\ OnPaper(NewLine(k), EndLine(p))
         /\ EndLine(p).at > p.at /\ EndLine(p).at <= p.at + NUM_COLS
         /\ EndLine(p).text = p.text /\ EndLine(p).top = p.top
<1> USE SizeFacts
<1>1. PICK text \in [Sheet -> Cell], at \in Nat, top \in Nat :
        p = [text |-> text, at |-> at, top |-> top]
  BY DEF OnPaper, Paper
<1>2. PICK cells \in [Place -> Cell], x \in Col, y \in Row :
        k = [cells |-> cells, x |-> x, y |-> y]
  BY DEF Console
<1>3. Offset(k) = NUM_COLS * y + x /\ y \in Nat /\ x \in Nat /\ x < NUM_COLS
  BY <1>2 DEF Offset, Row, Col
<1>4. /\ at = NUM_COLS * top + (NUM_COLS * y + x) /\ top + NUM_ROWS <= PAPER_ROWS
      /\ \A i \in Place : cells[i] = text[NUM_COLS * top + i]
      /\ \A j \in Sheet : j >= at => text[j] = Space
  BY <1>1, <1>2, <1>3 DEF OnPaper
<1>5. /\ NUM_COLS * y \in Nat /\ NUM_COLS * top \in Nat /\ top + y \in Nat
      /\ NUM_COLS * (top + y) = NUM_COLS * top + NUM_COLS * y
      /\ NUM_COLS * (y + 1) = NUM_COLS * y + NUM_COLS
      /\ NUM_COLS * (top + y + 1) = NUM_COLS * (top + y) + NUM_COLS
  BY <1>3, Rows
<1>6. at = NUM_COLS * (top + y) + x
  BY <1>3, <1>4, <1>5
<1>7. at \div NUM_COLS = top + y
  BY <1>5, <1>6, CellOf
<1>8. PICK to \in Nat : to = NUM_COLS * (top + y + 1)
  BY <1>5
<1>9. EndLine(p) = [text |-> text, at |-> to, top |-> top]
  BY <1>1, <1>7, <1>8 DEF EndLine
<1>10. NewLine(k) = [cells |-> cells, x |-> 0, y |-> y + 1]
  BY <1>2 DEF NewLine
<1>11. NewLine(k) \in Moved
  BY <1>10 DEF Moved, Row, Col
<1>12. Offset(NewLine(k)) = NUM_COLS * (y + 1)
  BY <1>10, <1>5 DEF Offset
<1>13. to = NUM_COLS * top + NUM_COLS * (y + 1) /\ to > at /\ to <= at + NUM_COLS
  BY <1>3, <1>4, <1>5, <1>8
<1>14. \A j \in Sheet : j >= to => text[j] = Space
  <2>1. \A j \in Sheet : j \in Int
    BY DEF Sheet
  <2> QED BY <2>1, <1>4, <1>13
<1>15. OnPaper(NewLine(k), EndLine(p))
  BY <1>4, <1>9, <1>10, <1>12, <1>13, <1>14 DEF OnPaper, Paper
<1> QED BY <1>1, <1>9, <1>10, <1>11, <1>13, <1>15

\* A backspace erases one cell of both, or none at the top left corner.
LEMMA Erases ==
  ASSUME NEW k \in Console, NEW p, OnPaper(k, p)
  PROVE  /\ Backspace(k) \in Console /\ OnPaper(Backspace(k), Erased(p))
         /\ Erased(p).top = p.top
         /\ IF p.at = NUM_COLS * p.top THEN Erased(p) = p
            ELSE /\ Erased(p).at = p.at - 1
                 /\ \A i \in Sheet : i < p.at - 1 => Erased(p).text[i] = p.text[i]
<1> USE SizeFacts
<1>1. PICK text \in [Sheet -> Cell], at \in Nat, top \in Nat :
        p = [text |-> text, at |-> at, top |-> top]
  BY DEF OnPaper, Paper
<1>2. PICK cells \in [Place -> Cell], x \in Col, y \in Row :
        k = [cells |-> cells, x |-> x, y |-> y]
  BY DEF Console
<1>3. PICK o \in Place : o = Offset(k) /\ o = NUM_COLS * y + x
  BY <1>2, OffsetFacts DEF Row
<1>4. /\ at = NUM_COLS * top + o /\ top + NUM_ROWS <= PAPER_ROWS
      /\ \A i \in Place : cells[i] = text[NUM_COLS * top + i]
      /\ \A j \in Sheet : j >= at => text[j] = Space
  BY <1>1, <1>2, <1>3 DEF OnPaper
<1>5. NUM_COLS * y \in Nat /\ NUM_COLS * 0 = 0 /\ NUM_COLS * top \in Nat /\ y \in Nat
      /\ x \in Nat /\ x < NUM_COLS /\ o \in Nat /\ (y # 0 => NUM_COLS <= NUM_COLS * y)
  <2>1. y # 0 => NUM_COLS * 1 <= NUM_COLS * y
    BY Rows DEF Row
  <2> QED BY <2>1, Rows DEF Row, Col, Place
<1>6. o = 0 <=> x = 0 /\ y = 0
  BY <1>3, <1>5
<1>7. CASE o = 0
  <2>1. Backspace(k) = k /\ Erased(p) = p /\ at = NUM_COLS * top
    BY <1>1, <1>2, <1>4, <1>5, <1>6, <1>7 DEF Backspace, Erased
  <2> QED BY <1>1, <2>1
<1>8. CASE o # 0
  <2>1. o - 1 \in Place /\ at - 1 \in Sheet /\ at - 1 \in Nat /\ at # NUM_COLS * top
        /\ at - 1 = NUM_COLS * top + (o - 1)
    <3>1. o - 1 \in Place
      BY <1>5, <1>8 DEF Place
    <3>2. NUM_COLS * top + (o - 1) \in Sheet
      BY <3>1, <1>4, OnSheet
    <3> QED BY <3>1, <3>2, <1>4, <1>5, <1>8
  <2> DEFINE x1 == IF x = 0 THEN NUM_COLS - 1 ELSE x - 1
             y1 == IF x = 0 THEN y - 1 ELSE y
  <2>2. x1 \in Col /\ y1 \in Row /\ NUM_COLS * y1 + x1 = o - 1
    <3>1. CASE x = 0
      <4>1. y # 0 /\ y - 1 \in Nat /\ y - 1 + 1 = y
        BY <3>1, <1>5, <1>6, <1>8
      <4>2. NUM_COLS * y = NUM_COLS * (y - 1) + NUM_COLS /\ NUM_COLS * (y - 1) \in Nat
        BY <4>1, Rows
      <4> QED BY <3>1, <4>1, <4>2, <1>3 DEF Row, Col
    <3>2. CASE x # 0
      BY <3>2, <1>3, <1>5 DEF Row, Col
    <3> QED BY <3>1, <3>2
  <2> DEFINE new == [cells EXCEPT ![o - 1] = Space]
             text1 == [text EXCEPT ![at - 1] = Space]
  <2>3. Backspace(k) = [cells |-> new, x |-> x1, y |-> y1]
    BY <1>2, <1>3, <1>6, <1>8 DEF Backspace
  <2>4. Erased(p) = [text |-> text1, at |-> at - 1, top |-> top]
    BY <1>1, <2>1 DEF Erased
  <2>5. new \in [Place -> Cell] /\ text1 \in [Sheet -> Cell]
    BY DEF Cell
  <2>6. ASSUME NEW i \in Place PROVE new[i] = text1[NUM_COLS * top + i]
    <3>1. NUM_COLS * top + i \in Sheet /\ i \in Nat
      BY <1>4, OnSheet
    <3>2. i = o - 1 <=> NUM_COLS * top + i = at - 1
      BY <2>1, <3>1, <1>5
    <3> QED BY <3>1, <3>2, <1>4
  <2>7. \A j \in Sheet : j >= at - 1 => text1[j] = Space
    <3>1. \A j \in Sheet : j \in Int
      BY DEF Sheet
    <3> QED BY <3>1, <1>4
  <2>8. \A j \in Sheet : j < at - 1 => text1[j] = text[j]
    BY DEF Sheet
  <2> HIDE DEF x1, y1, new, text1
  <2>9. Backspace(k) \in Console
    BY <2>2, <2>3, <2>5 DEF Console
  <2>10. Offset(Backspace(k)) = o - 1
    BY <2>2, <2>3 DEF Offset
  <2>11. OnPaper(Backspace(k), Erased(p))
    BY <1>4, <2>1, <2>3, <2>4, <2>5, <2>6, <2>7, <2>10 DEF OnPaper, Paper
  <2> QED BY <1>1, <2>1, <2>4, <2>8, <2>9, <2>11
<1> QED BY <1>7, <1>8

Char == {"a", "nl", "bs", "tab"}

LEMMA PutcMoves ==
  ASSUME NEW k, NEW p
  PROVE  /\ putc(k, "nl") = IF PastBottom(NewLine(k)) THEN Scroll(NewLine(k)) ELSE NewLine(k)
         /\ putc(k, "bs") = IF PastBottom(Backspace(k)) THEN Scroll(Backspace(k)) ELSE Backspace(k)
         /\ putc(k, "tab") = IF PastBottom(Write(k, Space, TAB_SIZE))
                             THEN Scroll(Write(k, Space, TAB_SIZE)) ELSE Write(k, Space, TAB_SIZE)
         /\ putc(k, "a") = IF PastBottom(Write(k, "a", 1)) THEN Scroll(Write(k, "a", 1))
                           ELSE Write(k, "a", 1)
         /\ TypeOn(p, "nl") = Follow(EndLine(p)) /\ TypeOn(p, "bs") = Follow(Erased(p))
         /\ TypeOn(p, "tab") = Follow(Type(p, Space, TAB_SIZE))
         /\ TypeOn(p, "a") = Follow(Type(p, "a", 1))
BY DEF putc, TypeOn

LEMMA AtOnSheet ==
  ASSUME NEW k \in Console, NEW p, OnPaper(k, p)
  PROVE  p.at \in Nat /\ p.at < NUM_COLS * PAPER_ROWS
<1> USE SizeFacts
<1>1. p.at \in Nat /\ p.top \in Nat
  BY DEF OnPaper, Paper
<1>2. PICK o \in Place : o = Offset(k)
  BY OffsetFacts DEF Console, Row
<1>3. NUM_COLS * p.top + o \in Sheet
  BY <1>1, OnSheet DEF OnPaper
<1>4. p.at \in Sheet
  BY <1>2, <1>3 DEF OnPaper
<1> QED BY <1>1, <1>4 DEF Sheet

\* The number of cells of a character: how far it takes the cursor.
LEMMA OneChar ==
  ASSUME NEW k \in Console, NEW p, OnPaper(k, p), NEW c \in Char,
         c = "tab" => k.y + 1 \in Row \/ k.x + TAB_SIZE <= NUM_COLS,
         c # "bs" => p.at + NUM_COLS < NUM_COLS * PAPER_ROWS
  PROVE  /\ putc(k, c) \in Console /\ OnPaper(putc(k, c), TypeOn(p, c))
         /\ TypeOn(p, c).at <= p.at + NUM_COLS /\ TypeOn(p, c).top >= p.top
         /\ c = "bs" => TypeOn(p, c) = Erased(p)
         /\ c = "a" => /\ TypeOn(p, c).at = Type(p, "a", 1).at
                       /\ TypeOn(p, c).text = Type(p, "a", 1).text
         /\ c = "tab" => /\ TypeOn(p, c).at = Type(p, Space, TAB_SIZE).at
                         /\ TypeOn(p, c).text = Type(p, Space, TAB_SIZE).text
<1> USE SizeFacts
<1>1. p.at \in Nat /\ p.top \in Nat /\ p \in Paper
  BY DEF OnPaper, Paper
<1>2. p.at < NUM_COLS * PAPER_ROWS
  BY AtOnSheet
<1>3. CASE c = "nl"
  <2>1. PICK m, q : m = NewLine(k) /\ q = EndLine(p)
    OBVIOUS
  <2>2. /\ m \in Moved /\ m.x = 0 /\ OnPaper(m, q) /\ q.at <= p.at + NUM_COLS
        /\ q.at \in Nat /\ q.top = p.top
    BY <2>1, EndsLine DEF OnPaper, Paper
  <2>3. q.at < NUM_COLS * PAPER_ROWS
    BY <1>1, <1>3, <2>2
  <2>4. LET j == IF PastBottom(m) THEN Scroll(m) ELSE m
        IN  /\ j \in Console /\ OnPaper(j, Follow(q))
            /\ Follow(q).at = q.at /\ Follow(q).top >= q.top
    BY <2>2, <2>3, Settles
  <2> QED BY <1>3, <2>1, <2>2, <2>4, PutcMoves
<1>4. CASE c = "bs"
  <2>1. PICK m, q : m = Backspace(k) /\ q = Erased(p)
    OBVIOUS
  <2>2. m \in Console /\ OnPaper(m, q) /\ q.at <= p.at /\ q.at \in Nat /\ q.top = p.top
    BY <1>1, <2>1, Erases DEF OnPaper, Paper
  <2>3. m \in Moved /\ m.y # NUM_ROWS
    BY <2>2 DEF Console, Moved, Row
  <2>4. LET j == IF PastBottom(m) THEN Scroll(m) ELSE m
        IN  j \in Console /\ OnPaper(j, Follow(q)) /\ Follow(q) = q
    BY <1>1, <1>2, <2>2, <2>3, Settles
  <2> QED BY <1>1, <1>4, <2>1, <2>2, <2>4, PutcMoves
<1>5. ASSUME NEW d \in Cell, NEW n \in 0 .. NUM_COLS, p.at + NUM_COLS < NUM_COLS * PAPER_ROWS,
             k.y + 1 \in Row \/ k.x + n <= NUM_COLS
      PROVE  LET m == Write(k, d, n)
                 q == Type(p, d, n)
                 j == IF PastBottom(m) THEN Scroll(m) ELSE m
             IN  /\ j \in Console /\ OnPaper(j, Follow(q)) /\ q.at = p.at + n
                 /\ Follow(q).at = q.at /\ Follow(q).text = q.text /\ Follow(q).top >= p.top
  <2>1. PICK m, q : m = Write(k, d, n) /\ q = Type(p, d, n)
    OBVIOUS
  <2>2. m \in Moved /\ OnPaper(m, q) /\ (m.y = NUM_ROWS => m.x = 0)
    BY <1>5, <2>1, Writes
  <2>3. q.at = p.at + n /\ q.top = p.top
    BY <2>1 DEF Type
  <2>4. q.at < NUM_COLS * PAPER_ROWS
    BY <1>1, <1>5, <2>3
  <2>5. LET j == IF PastBottom(m) THEN Scroll(m) ELSE m
        IN  /\ j \in Console /\ OnPaper(j, Follow(q))
            /\ Follow(q).at = q.at /\ Follow(q).text = q.text /\ Follow(q).top >= q.top
    BY <2>2, <2>4, Settles
  <2> QED BY <2>1, <2>3, <2>5
<1>6. CASE c = "a"
  <2>1. 1 \in 0 .. NUM_COLS /\ k.x + 1 <= NUM_COLS
    BY DEF Console, Col
  <2>2. LET m == Write(k, "a", 1)
            q == Type(p, "a", 1)
            j == IF PastBottom(m) THEN Scroll(m) ELSE m
        IN  /\ j \in Console /\ OnPaper(j, Follow(q)) /\ q.at = p.at + 1
            /\ Follow(q).at = q.at /\ Follow(q).text = q.text /\ Follow(q).top >= p.top
    BY <1>5, <1>6, <2>1 DEF Cell
  <2> QED BY <1>1, <1>6, <2>1, <2>2, PutcMoves
<1>7. CASE c = "tab"
  <2>1. TAB_SIZE \in 0 .. NUM_COLS /\ Space \in Cell
    BY DEF Cell
  <2>2. LET m == Write(k, Space, TAB_SIZE)
            q == Type(p, Space, TAB_SIZE)
            j == IF PastBottom(m) THEN Scroll(m) ELSE m
        IN  /\ j \in Console /\ OnPaper(j, Follow(q)) /\ q.at = p.at + TAB_SIZE
            /\ Follow(q).at = q.at /\ Follow(q).text = q.text /\ Follow(q).top >= p.top
    BY <1>5, <1>7, <2>1
  <2> QED BY <1>1, <1>7, <2>1, <2>2, PutcMoves
<1> QED BY <1>3, <1>4, <1>6, <1>7 DEF Char

\* Whatever is printed, the result is a console; tabs over the end of the last row too.
LEMMA PutcTyped ==
  ASSUME NEW k \in Console, NEW c \in Char
  PROVE  putc(k, c) \in Console
<1> USE SizeFacts
<1>1. PICK cells \in [Place -> Cell], x \in Col, y \in Row :
        k = [cells |-> cells, x |-> x, y |-> y]
  BY DEF Console
<1>2. x \in Nat /\ x < NUM_COLS /\ y \in Nat /\ y < NUM_ROWS
  BY DEF Row, Col
<1>3. ASSUME NEW m \in Moved
      PROVE  (IF PastBottom(m) THEN Scroll(m) ELSE m) \in Console
  <2>1. CASE PastBottom(m)
    <3>1. [i \in Place |-> IF i + NUM_COLS \in Place THEN m.cells[i + NUM_COLS]
                           ELSE IF i < NUM_COLS * (NUM_ROWS - 1) + m.x THEN m.cells[i]
                           ELSE Space] \in [Place -> Cell]
      BY DEF Moved, Cell
    <3>2. 0 \in Col /\ NUM_ROWS - 1 \in Row
      BY DEF Row, Col
    <3> QED BY <2>1, <3>1, <3>2 DEF Scroll, Console
  <2>2. CASE ~PastBottom(m)
    BY <2>2 DEF PastBottom, Moved, Console, Row
  <2> QED BY <2>1, <2>2
<1>4. ASSUME NEW d \in Cell, NEW n \in 0 .. NUM_COLS PROVE Write(k, d, n) \in Moved
  <2>1. [i \in Place |-> IF i \in Offset(k) .. Offset(k) + n - 1 THEN d ELSE cells[i]]
          \in [Place -> Cell]
    OBVIOUS
  <2>2. PICK a \in Nat : a = x + n /\ a < 2 * NUM_COLS
    BY <1>2
  <2>3. a % NUM_COLS \in Col /\ (a \div NUM_COLS = 0 \/ a \div NUM_COLS = 1)
    <3>1. NUM_COLS * 0 = 0 /\ NUM_COLS * 1 = NUM_COLS
      BY Rows
    <3>2. CASE a < NUM_COLS
      <4>1. a \in Col /\ NUM_COLS * 0 + a = a
        BY <3>1, <3>2 DEF Col
      <4> QED BY <4>1, CellOf
    <3>3. CASE ~(a < NUM_COLS)
      <4>1. PICK b \in Col : b = a - NUM_COLS /\ NUM_COLS * 1 + b = a
        <5>1. a - NUM_COLS \in Col /\ NUM_COLS * 1 + (a - NUM_COLS) = a
          BY <2>2, <3>1, <3>3 DEF Col
        <5> QED BY <5>1
      <4>2. (NUM_COLS * 1 + b) \div NUM_COLS = 1 /\ (NUM_COLS * 1 + b) % NUM_COLS = b
        BY CellOf
      <4>3. a \div NUM_COLS = 1 /\ (a % NUM_COLS) = b
        BY <4>1, <4>2, Zenon
      <4> QED BY <4>3
    <3> QED BY <3>2, <3>3
  <2>4. y + a \div NUM_COLS \in 0 .. NUM_ROWS
    BY <1>2, <2>3
  <2>5. Write(k, d, n) = [cells |-> [i \in Place |-> IF i \in Offset(k) .. Offset(k) + n - 1
                                                     THEN d ELSE cells[i]],
                          x |-> a % NUM_COLS, y |-> y + a \div NUM_COLS]
    BY <1>1, <2>2 DEF Write
  <2> QED BY <2>1, <2>3, <2>4, <2>5 DEF Moved
<1>5. NewLine(k) \in Moved
  BY <1>1, <1>2 DEF NewLine, Moved, Col
<1>6. Backspace(k) \in Moved
  <2>1. [cells EXCEPT ![Offset(k) - 1] = Space] \in [Place -> Cell]
    BY DEF Cell
  <2>2. CASE x = 0 /\ y = 0
    BY <1>1, <1>2, <2>2 DEF Backspace, Moved
  <2>3. CASE ~(x = 0 /\ y = 0)
    <3>1. (IF x = 0 THEN NUM_COLS - 1 ELSE x - 1) \in Col
          /\ (IF x = 0 THEN y - 1 ELSE y) \in 0 .. NUM_ROWS
      BY <1>2, <2>3 DEF Col
    <3>2. Backspace(k) = [cells |-> [cells EXCEPT ![Offset(k) - 1] = Space],
                          x |-> IF x = 0 THEN NUM_COLS - 1 ELSE x - 1,
                          y |-> IF x = 0 THEN y - 1 ELSE y]
      BY <1>1, <2>3 DEF Backspace
    <3> QED BY <2>1, <3>1, <3>2 DEF Moved
  <2> QED BY <2>2, <2>3
<1>7. Write(k, "a", 1) \in Moved /\ Write(k, Space, TAB_SIZE) \in Moved
  <2>1. 1 \in 0 .. NUM_COLS /\ TAB_SIZE \in 0 .. NUM_COLS /\ "a" \in Cell /\ Space \in Cell
    BY DEF Cell
  <2> QED BY <2>1, <1>4
<1> QED BY <1>3, <1>5, <1>6, <1>7, PutcMoves DEF Char

-----------------------------------------------------------------------------
(* Messages, backspaces and what a line looks like: functions that recur over a *)
(* sequence.                                                                    *)

LEMMA PutsDef ==
  ASSUME NEW k \in Console
  PROVE  \A s \in Seq(Char) : \E f \in [0 .. Len(s) -> Console] :
           /\ f[0] = k /\ f[Len(s)] = puts(k, s)
           /\ \A n \in 1 .. Len(s) : f[n] = putc(f[n - 1], s[n])
<1> DEFINE T(N) == [1 .. N -> [Console -> Console]]
<1>0. \A N \in Nat : \A step \in T(N) : \E f \in [0 .. N -> Console] :
        f[0] = k /\ \A n \in 1 .. N : f[n] = step[n][f[n - 1]]
  BY Recursion
<1> HIDE DEF T
<1> TAKE s \in Seq(Char)
<1> DEFINE N == Len(s)
           step == [n \in 1 .. N |-> [j \in Console |-> putc(j, s[n])]]
           body(f, n) == IF n = 0 THEN k ELSE putc(f[n - 1], s[n])
           after[n \in 0 .. N] == IF n = 0 THEN k ELSE putc(after[n - 1], s[n])
<1>1. N \in Nat
  OBVIOUS
<1>2. step \in T(N)
  <2>1. \A n \in 1 .. N, j \in Console : putc(j, s[n]) \in Console
    BY PutcTyped
  <2> QED BY <2>1 DEF T
<1>3. puts(k, s) = after[N]
  BY DEF puts
<1>4. (\E f : f = [n \in 0 .. N |-> body(f, n)]) => after = [n \in 0 .. N |-> body(after, n)]
  OBVIOUS
<1> HIDE DEF after, N
<1>5. ASSUME NEW f \in [0 .. N -> Console],
             f[0] = k, \A n \in 1 .. N : f[n] = step[n][f[n - 1]]
      PROVE  f = [n \in 0 .. N |-> body(f, n)]
  <2>1. ASSUME NEW n \in 0 .. N, n # 0 PROVE f[n] = putc(f[n - 1], s[n])
    <3>1. n \in 1 .. N /\ n - 1 \in 0 .. N
      BY <1>1, <2>1
    <3> QED BY <1>5, <3>1
  <2> HIDE DEF step
  <2>2. ASSUME NEW n \in 0 .. N PROVE f[n] = body(f, n)
    BY <1>5, <2>1
  <2> HIDE DEF body
  <2> QED BY <2>2
<1> HIDE DEF step
<1>7. PICK f \in [0 .. N -> Console] :
        f[0] = k /\ \A n \in 1 .. N : f[n] = step[n][f[n - 1]]
  BY <1>0, <1>1, <1>2
<1>8. after = [n \in 0 .. N |-> body(after, n)]
  BY <1>4, <1>5, <1>7
<1>9. \A n \in 0 .. N : after[n] = body(after, n)
  <2> HIDE DEF body
  <2>1. PICK h : h = after
    OBVIOUS
  <2>2. \A n \in 0 .. N : h[n] = body(h, n)
    BY <1>8, <2>1
  <2> QED BY <2>1, <2>2
<1>10. PICK h : h = after
  OBVIOUS
<1>11. h = [n \in 0 .. N |-> h[n]]
  <2> HIDE DEF body
  <2> QED BY <1>8, <1>10
<1>12. ASSUME NEW n \in 0 .. N, n # 0 PROVE h[n] = putc(h[n - 1], s[n])
  BY <1>9, <1>10, <1>12
<1>13. h[0] = k
  BY <1>1, <1>9, <1>10
<1> DEFINE In == {m \in Nat : m <= N => h[m] \in Console}
<1>14. \A n \in Nat : n \in In
  <2>1. 0 \in In
    BY <1>13
  <2>2. ASSUME NEW n \in Nat, n \in In PROVE n + 1 \in In
    <3> SUFFICES ASSUME n + 1 <= N PROVE h[n + 1] \in Console
      OBVIOUS
    <3>1. n + 1 \in 0 .. N /\ n + 1 # 0 /\ n + 1 - 1 = n /\ n + 1 \in 1 .. Len(s)
      BY <1>1 DEF N
    <3>2. h[n + 1] = putc(h[n], s[n + 1])
      BY <1>12, <3>1
    <3>3. s[n + 1] \in Char /\ h[n] \in Console
      BY <1>1, <2>2, <3>1
    <3> QED BY <3>2, <3>3, PutcTyped
  <2> HIDE DEF In
  <2> QED BY <2>1, <2>2, Induction
<1>15. h \in [0 .. N -> Console]
  BY <1>1, <1>11, <1>14
<1>16. \A n \in 1 .. N : h[n] = putc(h[n - 1], s[n])
  BY <1>1, <1>12
<1>17. h[N] = puts(k, s)
  BY <1>3, <1>10
<1> QED BY <1>13, <1>15, <1>16, <1>17 DEF N

Page == [text : [Sheet -> Cell], at : Int, top : Int]

LEMMA TypeOnTyped ==
  ASSUME NEW p \in Page, NEW c \in Char
  PROVE  TypeOn(p, c) \in Page
<1> USE SizeFacts
<1>1. PICK text \in [Sheet -> Cell], at \in Int, top \in Int :
        p = [text |-> text, at |-> at, top |-> top]
  BY DEF Page
<1>2. ASSUME NEW q \in Page PROVE Follow(q) \in Page
  <2>1. PICK row \in Int : row = q.at \div NUM_COLS
    <3>1. q.at \div NUM_COLS \in Int
      BY DEF Page
    <3> QED BY <3>1
  <2>2. (IF row >= q.top + NUM_ROWS THEN row - NUM_ROWS + 1 ELSE q.top) \in Int
    BY <2>1 DEF Page
  <2> QED BY <2>1, <2>2 DEF Follow, Page
<1>3. ASSUME NEW d \in Cell, NEW n \in Nat PROVE Type(p, d, n) \in Page
  <2>1. [i \in Sheet |-> IF i \in at .. at + n - 1 THEN d ELSE text[i]] \in [Sheet -> Cell]
    OBVIOUS
  <2> QED BY <1>1, <2>1 DEF Type, Page
<1>4. EndLine(p) \in Page
  <2>1. PICK q \in Int : q = at \div NUM_COLS
    <3>1. at \div NUM_COLS \in Int
      OBVIOUS
    <3> QED BY <3>1
  <2>2. NUM_COLS * (q + 1) \in Int
    OBVIOUS
  <2> QED BY <1>1, <2>1, <2>2 DEF EndLine, Page
<1>5. Erased(p) \in Page
  <2>1. [text EXCEPT ![at - 1] = Space] \in [Sheet -> Cell]
    BY DEF Cell
  <2>2. Erased(p) = p \/ Erased(p) = [text |-> [text EXCEPT ![at - 1] = Space],
                                     at |-> at - 1, top |-> top]
    BY <1>1 DEF Erased
  <2> QED BY <1>1, <2>1, <2>2 DEF Page
<1>6. Type(p, "a", 1) \in Page /\ Type(p, Space, TAB_SIZE) \in Page
  BY <1>3 DEF Cell
<1> QED BY <1>2, <1>4, <1>5, <1>6, PutcMoves DEF Char

LEMMA TypeAllDef ==
  ASSUME NEW p \in Page
  PROVE  \A s \in Seq(Char) : \E f \in [0 .. Len(s) -> Page] :
           /\ f[0] = p /\ f[Len(s)] = TypeAll(p, s)
           /\ \A n \in 1 .. Len(s) : f[n] = TypeOn(f[n - 1], s[n])
<1> DEFINE T(N) == [1 .. N -> [Page -> Page]]
<1>0. \A N \in Nat : \A step \in T(N) : \E f \in [0 .. N -> Page] :
        f[0] = p /\ \A n \in 1 .. N : f[n] = step[n][f[n - 1]]
  BY Recursion
<1> HIDE DEF T
<1> TAKE s \in Seq(Char)
<1> DEFINE N == Len(s)
           step == [n \in 1 .. N |-> [j \in Page |-> TypeOn(j, s[n])]]
           body(f, n) == IF n = 0 THEN p ELSE TypeOn(f[n - 1], s[n])
           after[n \in 0 .. N] == IF n = 0 THEN p ELSE TypeOn(after[n - 1], s[n])
<1>1. N \in Nat
  OBVIOUS
<1>2. step \in T(N)
  <2>1. \A n \in 1 .. N, j \in Page : TypeOn(j, s[n]) \in Page
    BY TypeOnTyped
  <2> QED BY <2>1 DEF T
<1>3. TypeAll(p, s) = after[N]
  BY DEF TypeAll
<1>4. (\E f : f = [n \in 0 .. N |-> body(f, n)]) => after = [n \in 0 .. N |-> body(after, n)]
  OBVIOUS
<1> HIDE DEF after, N
<1>5. ASSUME NEW f \in [0 .. N -> Page],
             f[0] = p, \A n \in 1 .. N : f[n] = step[n][f[n - 1]]
      PROVE  f = [n \in 0 .. N |-> body(f, n)]
  <2>1. ASSUME NEW n \in 0 .. N, n # 0 PROVE f[n] = TypeOn(f[n - 1], s[n])
    <3>1. n \in 1 .. N /\ n - 1 \in 0 .. N
      BY <1>1, <2>1
    <3> QED BY <1>5, <3>1
  <2> HIDE DEF step
  <2>2. ASSUME NEW n \in 0 .. N PROVE f[n] = body(f, n)
    BY <1>5, <2>1
  <2> HIDE DEF body
  <2> QED BY <2>2
<1> HIDE DEF step
<1>7. PICK f \in [0 .. N -> Page] :
        f[0] = p /\ \A n \in 1 .. N : f[n] = step[n][f[n - 1]]
  BY <1>0, <1>1, <1>2
<1>8. after = [n \in 0 .. N |-> body(after, n)]
  BY <1>4, <1>5, <1>7
<1>9. \A n \in 0 .. N : after[n] = body(after, n)
  <2> HIDE DEF body
  <2>1. PICK h : h = after
    OBVIOUS
  <2>2. \A n \in 0 .. N : h[n] = body(h, n)
    BY <1>8, <2>1
  <2> QED BY <2>1, <2>2
<1>10. PICK h : h = after
  OBVIOUS
<1>11. h = [n \in 0 .. N |-> h[n]]
  <2> HIDE DEF body
  <2> QED BY <1>8, <1>10
<1>12. ASSUME NEW n \in 0 .. N, n # 0 PROVE h[n] = TypeOn(h[n - 1], s[n])
  BY <1>9, <1>10, <1>12
<1>13. h[0] = p
  BY <1>1, <1>9, <1>10
<1> DEFINE In == {m \in Nat : m <= N => h[m] \in Page}
<1>14. \A n \in Nat : n \in In
  <2>1. 0 \in In
    BY <1>13
  <2>2. ASSUME NEW n \in Nat, n \in In PROVE n + 1 \in In
    <3> SUFFICES ASSUME n + 1 <= N PROVE h[n + 1] \in Page
      OBVIOUS
    <3>1. n + 1 \in 0 .. N /\ n + 1 # 0 /\ n + 1 - 1 = n /\ n + 1 \in 1 .. Len(s)
      BY <1>1 DEF N
    <3>2. h[n + 1] = TypeOn(h[n], s[n + 1])
      BY <1>12, <3>1
    <3>3. s[n + 1] \in Char /\ h[n] \in Page
      BY <1>1, <2>2, <3>1
    <3> QED BY <3>2, <3>3, TypeOnTyped
  <2> HIDE DEF In
  <2> QED BY <2>1, <2>2, Induction
<1>15. h \in [0 .. N -> Page]
  BY <1>1, <1>11, <1>14
<1>16. \A n \in 1 .. N : h[n] = TypeOn(h[n - 1], s[n])
  BY <1>1, <1>12
<1>17. h[N] = TypeAll(p, s)
  BY <1>3, <1>10
<1> QED BY <1>13, <1>15, <1>16, <1>17 DEF N

Key == {"a", "tab"}

LEMMA LookTyped ==
  ASSUME NEW t \in Seq(Cell), NEW c \in Key
  PROVE  /\ t \o Look(c) \in Seq(Cell) /\ Look(c) \in Seq(Cell)
         /\ Len(Look(c)) = IF c = "tab" THEN TAB_SIZE ELSE 1
         /\ \A i \in 1 .. Len(Look(c)) : Look(c)[i] = IF c = "tab" THEN Space ELSE c
<1>0. \A u \in Seq(Cell) : t \o u \in Seq(Cell)
  BY ConcatProperties
<1>1. CASE c = "tab"
  <2>1. [i \in 1 .. TAB_SIZE |-> Space] \in Seq(Cell)
        /\ Len([i \in 1 .. TAB_SIZE |-> Space]) = TAB_SIZE
    BY SizeFacts DEF Cell
  <2>2. Look(c) = [i \in 1 .. TAB_SIZE |-> Space]
    BY <1>1 DEF Look
  <2>3. PICK u : u = [i \in 1 .. TAB_SIZE |-> Space]
    OBVIOUS
  <2>4. /\ u \in Seq(Cell) /\ Len(u) = TAB_SIZE /\ Look(c) = u
        /\ \A i \in 1 .. TAB_SIZE : u[i] = Space
    BY <2>1, <2>2, <2>3
  <2> QED BY <1>0, <1>1, <2>4, Zenon
<1>2. CASE c = "a"
  <2>1. Look(c) = <<"a">> /\ <<"a">> \in Seq(Cell)
    BY <1>2 DEF Look, Cell
  <2>2. Len(<<"a">>) = 1 /\ \A i \in 1 .. 1 : <<"a">>[i] = "a"
    OBVIOUS
  <2>3. PICK u : u = <<"a">>
    OBVIOUS
  <2>4. u \in Seq(Cell) /\ Len(u) = 1 /\ Look(c) = u /\ \A i \in 1 .. 1 : u[i] = "a"
    BY <2>1, <2>2, <2>3, Zenon
  <2>5. c # "tab"
    BY <1>2
  <2> QED BY <1>0, <1>2, <2>4, <2>5, Zenon
<1> QED BY <1>1, <1>2 DEF Key

LEMMA ShownDef ==
  \A s \in Seq(Key) : \E f \in [0 .. Len(s) -> Seq(Cell)] :
    /\ f[0] = <<>> /\ f[Len(s)] = Shown(s)
    /\ \A n \in 1 .. Len(s) : f[n] = f[n - 1] \o Look(s[n])
<1> DEFINE T(N) == [1 .. N -> [Seq(Cell) -> Seq(Cell)]]
<1>0. \A N \in Nat : \A step \in T(N) : \E f \in [0 .. N -> Seq(Cell)] :
        f[0] = <<>> /\ \A n \in 1 .. N : f[n] = step[n][f[n - 1]]
  <2> DEFINE S == Seq(Cell)
             none == <<>>
  <2>1. none \in S
    OBVIOUS
  <2> HIDE DEF S, none
  <2>2. \A N \in Nat : \A step \in [1 .. N -> [S -> S]] : \E f \in [0 .. N -> S] :
          f[0] = none /\ \A n \in 1 .. N : f[n] = step[n][f[n - 1]]
    BY <2>1, Recursion
  <2> QED BY <2>2, Zenon DEF S, none, T
<1> HIDE DEF T
<1> TAKE s \in Seq(Key)
<1> DEFINE N == Len(s)
           step == [n \in 1 .. N |-> [j \in Seq(Cell) |-> j \o Look(s[n])]]
           body(f, n) == IF n = 0 THEN <<>> ELSE f[n - 1] \o Look(s[n])
           shown[n \in 0 .. N] == IF n = 0 THEN <<>> ELSE shown[n - 1] \o Look(s[n])
<1>1. N \in Nat
  OBVIOUS
<1>2. step \in T(N)
  <2>1. \A n \in 1 .. N, j \in Seq(Cell) : j \o Look(s[n]) \in Seq(Cell)
    BY LookTyped
  <2> QED BY <2>1 DEF T
<1>3. Shown(s) = shown[N]
  BY DEF Shown
<1>4. (\E f : f = [n \in 0 .. N |-> body(f, n)]) => shown = [n \in 0 .. N |-> body(shown, n)]
  OBVIOUS
<1> HIDE DEF shown, N
<1>5. ASSUME NEW f \in [0 .. N -> Seq(Cell)],
             f[0] = <<>>, \A n \in 1 .. N : f[n] = step[n][f[n - 1]]
      PROVE  f = [n \in 0 .. N |-> body(f, n)]
  <2>1. ASSUME NEW n \in 0 .. N, n # 0 PROVE f[n] = f[n - 1] \o Look(s[n])
    <3>1. n \in 1 .. N /\ n - 1 \in 0 .. N
      BY <1>1, <2>1
    <3> QED BY <1>5, <3>1
  <2> HIDE DEF step
  <2>2. ASSUME NEW n \in 0 .. N PROVE f[n] = body(f, n)
    BY <1>5, <2>1
  <2> HIDE DEF body
  <2> QED BY <2>2
<1> HIDE DEF step
<1>7. PICK f \in [0 .. N -> Seq(Cell)] :
        f[0] = <<>> /\ \A n \in 1 .. N : f[n] = step[n][f[n - 1]]
  BY <1>0, <1>1, <1>2
<1>8. shown = [n \in 0 .. N |-> body(shown, n)]
  BY <1>4, <1>5, <1>7
<1>9. \A n \in 0 .. N : shown[n] = body(shown, n)
  <2> HIDE DEF body
  <2>1. PICK h : h = shown
    OBVIOUS
  <2>2. \A n \in 0 .. N : h[n] = body(h, n)
    BY <1>8, <2>1
  <2> QED BY <2>1, <2>2
<1>10. PICK h : h = shown
  OBVIOUS
<1>11. h = [n \in 0 .. N |-> h[n]]
  <2> HIDE DEF body
  <2> QED BY <1>8, <1>10
<1>12. ASSUME NEW n \in 0 .. N, n # 0 PROVE h[n] = h[n - 1] \o Look(s[n])
  BY <1>9, <1>10, <1>12
<1>13. h[0] = <<>>
  <2>1. h[0] = body(h, 0)
    <3> HIDE DEF body
    <3>1. 0 \in 0 .. N
      BY <1>1
    <3> QED BY <3>1, <1>9, <1>10
  <2> QED BY <2>1
<1> DEFINE In == {m \in Nat : m <= N => h[m] \in Seq(Cell)}
<1>14. \A n \in Nat : n \in In
  <2>1. 0 \in In
    <3>1. h[0] \in Seq(Cell)
      BY <1>13
    <3> QED BY <3>1
  <2>2. ASSUME NEW n \in Nat, n \in In PROVE n + 1 \in In
    <3> SUFFICES ASSUME n + 1 <= N PROVE h[n + 1] \in Seq(Cell)
      OBVIOUS
    <3>1. n + 1 \in 0 .. N /\ n + 1 # 0 /\ n + 1 - 1 = n /\ n + 1 \in 1 .. Len(s)
      BY <1>1 DEF N
    <3>2. h[n + 1] = h[n] \o Look(s[n + 1])
      <4>1. PICK m \in 0 .. N : m = n + 1 /\ m # 0 /\ m - 1 = n
        BY <3>1
      <4> QED BY <1>12, <4>1, Zenon
    <3>3. s[n + 1] \in Key /\ h[n] \in Seq(Cell)
      BY <1>1, <2>2, <3>1
    <3> QED BY <3>2, <3>3, LookTyped
  <2> HIDE DEF In
  <2> QED BY <2>1, <2>2, Induction
<1>15. h \in [0 .. N -> Seq(Cell)]
  BY <1>1, <1>11, <1>14
<1>16. \A n \in 1 .. N : h[n] = h[n - 1] \o Look(s[n])
  BY <1>1, <1>12
<1>17. h[N] = Shown(s)
  BY <1>3, <1>10
<1> QED BY <1>13, <1>15, <1>16, <1>17 DEF N

LEMMA ShownAppend ==
  ASSUME NEW s \in Seq(Key), NEW c \in Key
  PROVE  /\ Shown(<<>>) = <<>> /\ Shown(s) \in Seq(Cell)
         /\ Shown(Append(s, c)) = Shown(s) \o Look(c)
<1>1. PICK N \in Nat : N = Len(s)
  OBVIOUS
<1>2. PICK t : t = Append(s, c)
  OBVIOUS
<1>3. t \in Seq(Key) /\ Len(t) = N + 1 /\ t[N + 1] = c /\ \A n \in 1 .. N : t[n] = s[n]
  BY <1>1, <1>2, AppendProperties
<1>4. PICK f \in [0 .. N -> Seq(Cell)] :
        /\ f[0] = <<>> /\ f[N] = Shown(s)
        /\ \A n \in 1 .. N : f[n] = f[n - 1] \o Look(s[n])
  BY <1>1, ShownDef
<1>5. PICK g \in [0 .. N + 1 -> Seq(Cell)] :
        /\ g[0] = <<>> /\ g[N + 1] = Shown(t)
        /\ \A n \in 1 .. N + 1 : g[n] = g[n - 1] \o Look(t[n])
  BY <1>3, ShownDef, ZenonT(60)
<1> DEFINE Same == {n \in Nat : n <= N => f[n] = g[n]}
<1>6. 0 \in Same
  BY <1>4, <1>5, Zenon
<1>7. ASSUME NEW n \in Nat, n \in Same PROVE n + 1 \in Same
  <2> SUFFICES ASSUME n + 1 <= N PROVE f[n + 1] = g[n + 1]
    OBVIOUS
  <2>1. PICK m \in 1 .. N : m = n + 1 /\ m - 1 = n /\ m \in 1 .. N + 1
    <3>1. n + 1 \in 1 .. N /\ n + 1 - 1 = n /\ n + 1 \in 1 .. N + 1
      OBVIOUS
    <3> QED BY <3>1
  <2>2. f[m] = f[n] \o Look(s[m]) /\ g[m] = g[n] \o Look(t[m])
    BY <1>4, <1>5, <2>1, Zenon
  <2>3. f[n] = g[n]
    BY <1>7
  <2> QED BY <1>3, <2>1, <2>2, <2>3, Zenon
<1> HIDE DEF Same
<1>8. N \in Same
  BY <1>6, <1>7, Induction
<1>9. f[N] = g[N]
  BY <1>8 DEF Same
<1>10. g[N + 1] = g[N] \o Look(c)
  <2>1. PICK m \in 1 .. N + 1 : m = N + 1 /\ m - 1 = N
    <3>1. N + 1 \in 1 .. N + 1 /\ N + 1 - 1 = N
      OBVIOUS
    <3> QED BY <3>1
  <2> QED BY <1>3, <1>5, <2>1, Zenon
<1>11. Shown(s) \in Seq(Cell)
  <2>1. N \in 0 .. N
    OBVIOUS
  <2> QED BY <1>4, <2>1, Zenon
<1>12. Shown(<<>>) = <<>>
  <2>1. PICK e : e = <<>> /\ e \in Seq(Key) /\ Len(e) = 0
    <3>1. <<>> \in Seq(Key) /\ Len(<<>>) = 0
      OBVIOUS
    <3> QED BY <3>1
  <2>2. PICK w \in [0 .. Len(e) -> Seq(Cell)] : w[0] = <<>> /\ w[Len(e)] = Shown(e)
    BY <2>1, ShownDef, ZenonT(30)
  <2> QED BY <2>1, <2>2, Zenon
<1> QED BY <1>2, <1>4, <1>5, <1>9, <1>10, <1>11, <1>12, Zenon

-----------------------------------------------------------------------------
(* Messages and backspaces.                                                 *)

LEMMA OneTyped ==
  ASSUME NEW k \in Console, NEW p \in Page, NEW c \in Char
  PROVE  puts(k, <<c>>) = putc(k, c) /\ TypeAll(p, <<c>>) = TypeOn(p, c)
<1>1. PICK s : s = <<c>>
  OBVIOUS
<1>2. s \in Seq(Char) /\ Len(s) = 1 /\ s[1] = c
  BY <1>1
<1>3. PICK f \in [0 .. 1 -> Console] :
        f[0] = k /\ f[1] = puts(k, s) /\ \A n \in 1 .. 1 : f[n] = putc(f[n - 1], s[n])
  BY <1>2, PutsDef
<1>4. PICK h \in [0 .. 1 -> Page] :
        h[0] = p /\ h[1] = TypeAll(p, s) /\ \A n \in 1 .. 1 : h[n] = TypeOn(h[n - 1], s[n])
  BY <1>2, TypeAllDef
<1>5. 1 \in 1 .. 1 /\ 1 - 1 = 0
  OBVIOUS
<1>6. f[1] = putc(f[0], s[1]) /\ h[1] = TypeOn(h[0], s[1])
  BY <1>3, <1>4, <1>5
<1> QED BY <1>1, <1>2, <1>3, <1>4, <1>6

\* A message without tabs, on the screen and on the paper.
LEMMA Message ==
  ASSUME NEW k \in Console, NEW p, OnPaper(k, p), NEW s \in Seq(Char \ {"tab"}),
         p.at + NUM_COLS * Len(s) < NUM_COLS * PAPER_ROWS
  PROVE  OnPaper(puts(k, s), TypeAll(p, s))
<1> USE SizeFacts
<1>1. PICK N \in Nat : N = Len(s) /\ s \in Seq(Char) /\ \A n \in 1 .. N : s[n] \in Char \ {"tab"}
  OBVIOUS
<1>2. p \in Page /\ p.at \in Nat
  BY DEF OnPaper, Paper, Page
<1>3. PICK f \in [0 .. N -> Console] :
        f[0] = k /\ f[N] = puts(k, s) /\ \A n \in 1 .. N : f[n] = putc(f[n - 1], s[n])
  BY <1>1, PutsDef, SMTT(30)
<1>4. PICK h \in [0 .. N -> Page] :
        h[0] = p /\ h[N] = TypeAll(p, s) /\ \A n \in 1 .. N : h[n] = TypeOn(h[n - 1], s[n])
  BY <1>1, <1>2, TypeAllDef
<1> DEFINE In == {n \in Nat : n <= N => OnPaper(f[n], h[n]) /\ h[n].at <= p.at + NUM_COLS * n}
<1>5. 0 \in In
  BY <1>2, <1>3, <1>4, Rows
<1>6. ASSUME NEW n \in Nat, n \in In PROVE n + 1 \in In
  <2> SUFFICES ASSUME n + 1 <= N
               PROVE  OnPaper(f[n + 1], h[n + 1]) /\ h[n + 1].at <= p.at + NUM_COLS * (n + 1)
    OBVIOUS
  <2>1. PICK m \in 1 .. N : m = n + 1 /\ m - 1 = n /\ n \in 0 .. N
    <3>1. n + 1 \in 1 .. N /\ n + 1 - 1 = n /\ n \in 0 .. N
      OBVIOUS
    <3> QED BY <3>1
  <2>2. PICK k1, p1, c : k1 = f[n] /\ p1 = h[n] /\ c = s[m]
    OBVIOUS
  <2>3. f[m] = putc(k1, c) /\ h[m] = TypeOn(p1, c)
    BY <1>3, <1>4, <2>1, <2>2, Zenon
  <2>4. /\ k1 \in Console /\ p1 \in Page /\ c \in Char /\ c # "tab"
        /\ OnPaper(k1, p1) /\ p1.at <= p.at + NUM_COLS * n
    BY <1>1, <1>6, <2>1, <2>2
  <2>5. NUM_COLS * (n + 1) = NUM_COLS * n + NUM_COLS /\ NUM_COLS * n \in Nat
        /\ NUM_COLS * (n + 1) <= NUM_COLS * N /\ NUM_COLS * N \in Nat
        /\ NUM_COLS * PAPER_ROWS \in Nat
    BY Rows
  <2>6. p1.at \in Int /\ p1.at + NUM_COLS < NUM_COLS * PAPER_ROWS
    BY <1>1, <1>2, <2>4, <2>5 DEF Page
  <2>7. PICK k2, p2 : k2 = putc(k1, c) /\ p2 = TypeOn(p1, c)
    OBVIOUS
  <2>8. OnPaper(k2, p2) /\ p2.at <= p1.at + NUM_COLS /\ p2.at \in Nat
    <3>1. OnPaper(k2, p2) /\ p2.at <= p1.at + NUM_COLS
      BY <2>4, <2>6, <2>7, OneChar
    <3> QED BY <3>1 DEF OnPaper, Paper
  <2>9. p2.at <= p.at + NUM_COLS * (n + 1)
    <3>1. PICK x \in Nat, y \in Nat : x = NUM_COLS * n /\ y = NUM_COLS * (n + 1)
                                      /\ y = x + NUM_COLS
      BY <2>5
    <3> QED BY <1>2, <2>4, <2>6, <2>8, <3>1, SMTT(30)
  <2> QED BY <2>1, <2>3, <2>7, <2>8, <2>9
<1> HIDE DEF In
<1>7. N \in In
  BY <1>5, <1>6, Induction
<1> QED BY <1>3, <1>4, <1>7 DEF In

\* Backspaces take the typewriter back, but not over the top of the window, and leave
\* what is before it.
LEMMA Backspaces ==
  ASSUME NEW k \in Console, NEW p, OnPaper(k, p), NEW s \in Seq({"bs"})
  PROVE  LET q == TypeAll(p, s)
         IN  /\ OnPaper(puts(k, s), q) /\ q.top = p.top
             /\ q.at = IF p.at - Len(s) >= NUM_COLS * p.top THEN p.at - Len(s)
                       ELSE NUM_COLS * p.top
             /\ \A i \in Sheet : i < q.at => q.text[i] = p.text[i]
<1> USE SizeFacts
<1>1. PICK N \in Nat : N = Len(s) /\ s \in Seq(Char) /\ \A n \in 1 .. N : s[n] = "bs"
  BY DEF Char
<1>2. /\ p \in Page /\ p.at \in Nat /\ p.top \in Nat /\ NUM_COLS * p.top \in Nat
      /\ p.at >= NUM_COLS * p.top
  <2>1. p \in Page /\ p.at \in Nat /\ p.top \in Nat
    BY DEF OnPaper, Paper, Page
  <2>2. PICK at, top, o \in Nat : at = p.at /\ top = p.top /\ o = Offset(k)
    BY <2>1, OffsetFacts DEF Console, Row
  <2>3. at = NUM_COLS * top + o
    BY <2>2 DEF OnPaper
  <2>4. NUM_COLS * top \in Nat
    BY Rows
  <2> QED BY <2>1, <2>2, <2>3, <2>4
<1>3. PICK f \in [0 .. N -> Console] :
        f[0] = k /\ f[N] = puts(k, s) /\ \A n \in 1 .. N : f[n] = putc(f[n - 1], s[n])
  BY <1>1, PutsDef, SMTT(30)
<1>4. PICK h \in [0 .. N -> Page] :
        h[0] = p /\ h[N] = TypeAll(p, s) /\ \A n \in 1 .. N : h[n] = TypeOn(h[n - 1], s[n])
  <2>1. PICK h \in [0 .. Len(s) -> Page] :
          /\ h[0] = p /\ h[Len(s)] = TypeAll(p, s)
          /\ \A n \in 1 .. Len(s) : h[n] = TypeOn(h[n - 1], s[n])
    BY <1>1, <1>2, TypeAllDef, Zenon
  <2> QED BY <1>1, <2>1, Zenon
<1>5. PICK from, first \in Nat : from = p.at /\ first = NUM_COLS * p.top /\ from >= first
  BY <1>2
<1> DEFINE Back(n) == IF from - n >= first THEN from - n ELSE first
           In == {n \in Nat : n <= N =>
                   /\ OnPaper(f[n], h[n]) /\ h[n].top = p.top /\ h[n].at = Back(n)
                   /\ \A i \in Sheet : i < h[n].at => h[n].text[i] = p.text[i]}
<1>6. 0 \in In
  <2>1. Back(0) = from
    BY <1>5
  <2> HIDE DEF Back
  <2> QED BY <1>3, <1>4, <1>5, <2>1
<1>7. ASSUME NEW n \in Nat, n \in In PROVE n + 1 \in In
  <2> SUFFICES ASSUME n + 1 <= N
               PROVE  /\ OnPaper(f[n + 1], h[n + 1]) /\ h[n + 1].top = p.top
                      /\ h[n + 1].at = Back(n + 1)
                      /\ \A i \in Sheet : i < h[n + 1].at => h[n + 1].text[i] = p.text[i]
    OBVIOUS
  <2>1. PICK m \in 1 .. N : m = n + 1 /\ m - 1 = n /\ n \in 0 .. N
    <3>1. n + 1 \in 1 .. N /\ n + 1 - 1 = n /\ n \in 0 .. N
      OBVIOUS
    <3> QED BY <3>1
  <2>2. PICK k1, p1 : k1 = f[n] /\ p1 = h[n]
    OBVIOUS
  <2>3. f[m] = putc(k1, "bs") /\ h[m] = TypeOn(p1, "bs")
    BY <1>1, <1>3, <1>4, <2>1, <2>2, Zenon
  <2>4. /\ k1 \in Console /\ OnPaper(k1, p1) /\ p1.top = p.top /\ p1.at = Back(n)
        /\ \A i \in Sheet : i < p1.at => p1.text[i] = p.text[i]
    <3>1. n <= N
      BY <2>1
    <3>2. k1 \in Console
      BY <1>3, <2>1, <2>2
    <3> HIDE DEF Back
    <3> QED BY <1>7, <2>2, <3>1, <3>2
  <2>5. PICK k2, p2 : k2 = putc(k1, "bs") /\ p2 = TypeOn(p1, "bs")
    OBVIOUS
  <2>6. OnPaper(k2, p2) /\ p2 = Erased(p1)
    BY <2>4, <2>5, OneChar DEF Char
  <2>7. PICK p3 : p3 = Erased(p1)
    OBVIOUS
  <2>8. /\ p3.top = p1.top
        /\ IF p1.at = NUM_COLS * p1.top THEN p3 = p1
           ELSE /\ p3.at = p1.at - 1
                /\ \A i \in Sheet : i < p1.at - 1 => p3.text[i] = p1.text[i]
    BY <2>4, <2>7, Erases, ZenonT(40)
  <2>9. p1.at \in Nat /\ first = NUM_COLS * p1.top
    BY <1>5, <2>4 DEF OnPaper, Paper
  <2>10. p3.at = Back(n + 1)
    <3>1. PICK a \in Nat : a = p1.at /\ a = IF from - n >= first THEN from - n ELSE first
      BY <2>4, <2>9
    <3>2. IF a = first THEN p3.at = a ELSE p3.at = a - 1
      <4> HIDE DEF Back
      <4>1. a = first <=> p1.at = NUM_COLS * p1.top
        BY <2>9, <3>1
      <4> QED BY <2>8, <3>1, <4>1
    <3>3. from \in Nat /\ first \in Nat /\ from >= first
      BY <1>5
    <3>4. Back(n + 1) = IF a = first THEN a ELSE a - 1
      BY <3>1, <3>3
    <3> QED BY <3>2, <3>4
  <2>11. \A i \in Sheet : i < p3.at => p3.text[i] = p.text[i]
    <3>1. \A i \in Sheet : i \in Int
      BY DEF Sheet
    <3>2. CASE p1.at = NUM_COLS * p1.top
      BY <2>4, <2>8, <3>2
    <3>3. CASE p1.at # NUM_COLS * p1.top
      BY <2>4, <2>8, <2>9, <3>1, <3>3
    <3> QED BY <3>2, <3>3
  <2> HIDE DEF Back
  <2> QED BY <2>1, <2>3, <2>4, <2>5, <2>6, <2>7, <2>8, <2>10, <2>11
<1> HIDE DEF In
<1>8. N \in In
  BY <1>6, <1>7, Induction
<1>9. /\ OnPaper(f[N], h[N]) /\ h[N].top = p.top /\ h[N].at = Back(N)
      /\ \A i \in Sheet : i < h[N].at => h[N].text[i] = p.text[i]
  BY <1>8 DEF In
<1> HIDE DEF Back
<1>10. Back(N) = IF p.at - Len(s) >= NUM_COLS * p.top THEN p.at - Len(s) ELSE NUM_COLS * p.top
  BY <1>1, <1>5 DEF Back
<1> QED BY <1>3, <1>4, <1>9, <1>10

-----------------------------------------------------------------------------
(* The types hold with every event, tabs over the end of the last row too.  *)

LEMMA KeyAt ==
  ASSUME NEW s \in Seq(Key), s # <<>>
  PROVE  /\ SubSeq(s, 1, Len(s) - 1) \in Seq(Key) /\ s[Len(s)] \in Key
         /\ Len(SubSeq(s, 1, Len(s) - 1)) < Len(s)
         /\ s = Append(SubSeq(s, 1, Len(s) - 1), s[Len(s)])
<1>1. Len(s) \in Nat \ {0}
  BY EmptySeq
<1>2. PICK m \in Nat \ {0} : m = Len(s) /\ s[m] \in Key /\ \A i \in 1 .. m - 1 : s[i] \in Key
  BY <1>1
<1>3. PICK t \in Seq(Key) :
        t = SubSeq(s, 1, m - 1) /\ Len(t) = m - 1 /\ \A i \in 1 .. m - 1 : t[i] = s[i]
  <2>1. PICK t : t = SubSeq(s, 1, m - 1)
    OBVIOUS
  <2>2. m - 1 \in Int /\ 1 \in Int
    OBVIOUS
  <2>3. t \in Seq(Key) /\ Len(t) = (IF 1 <= m - 1 THEN m - 1 - 1 + 1 ELSE 0)
        /\ \A i \in 1 .. m - 1 - 1 + 1 : t[i] = s[1 + i - 1]
    BY <1>2, <2>1, <2>2, SubSeqProperties
  <2>4. Len(t) = m - 1 /\ \A i \in 1 .. m - 1 : t[i] = s[i]
    BY <2>3
  <2> QED BY <2>1, <2>3, <2>4
<1>4. PICK u \in Seq(Key) : u = Append(t, s[m])
  BY <1>2, <1>3, AppendProperties
<1>5. Len(u) = m /\ \A i \in 1 .. m : u[i] = s[i]
  <2>1. Len(u) = m /\ u[m] = s[m] /\ \A i \in 1 .. m - 1 : u[i] = t[i]
    BY <1>2, <1>3, <1>4, AppendProperties
  <2> QED BY <1>3, <2>1
<1>6. u = s
  BY <1>2, <1>5, SeqEqual
<1> QED BY <1>1, <1>2, <1>3, <1>4, <1>6

LEMMA Erasing ==
  ASSUME NEW c \in Key
  PROVE  Erase(c) \in Seq({"bs"}) /\ Erase(c) \in Seq(Char) /\ Len(Erase(c)) = Len(Look(c))
<1>1. \A n \in Nat : LET s == [i \in 1 .. n |-> "bs"]
                   IN  s \in Seq({"bs"}) /\ s \in Seq(Char) /\ Len(s) = n
  BY DEF Char
<1>2. PICK n \in Nat : n = IF c = "tab" THEN TAB_SIZE ELSE 1
  BY SizeFacts
<1>3. Erase(c) = [i \in 1 .. n |-> "bs"]
  BY <1>2 DEF Erase
<1>4. <<>> \in Seq(Cell)
  OBVIOUS
<1>5. Len(Look(c)) = n
  BY <1>2, <1>4, LookTyped
<1> QED BY <1>1, <1>3, <1>5

LEMMA PutsTyped ==
  ASSUME NEW k \in Console, NEW s \in Seq(Char)
  PROVE  puts(k, s) \in Console
<1>1. PICK f \in [0 .. Len(s) -> Console] : f[Len(s)] = puts(k, s)
  BY PutsDef, Zenon
<1>2. Len(s) \in 0 .. Len(s)
  OBVIOUS
<1> QED BY <1>1, <1>2, Zenon

LEMMA ClearedTyped == Cleared \in Console
<1>1. 0 \in Row /\ 0 \in Col
  BY SizeFacts DEF Row, Col
<1>2. [i \in Place |-> Space] \in [Place -> Cell]
  BY DEF Cell
<1> QED BY <1>1, <1>2 DEF Cleared, Console

LEMMA Messages ==
  /\ \A c \in Char : <<c>> \in Seq(Char) /\ Len(<<c>>) = 1
  /\ <<"nl", "a", "nl">> \in Seq(Char) /\ Len(<<"nl", "a", "nl">>) = 3
  /\ <<"nl", "a", "nl">> \in Seq(Char \ {"tab"})
BY DEF Char

LEMMA InitTypes == Init => TypeOK
<1>1. <<>> \in Seq({"a", "tab"}) /\ Len(<<>>) = 0
  OBVIOUS
<1>2. 0 <= KEYBOARD_BUFFER_SIZE
  BY ScreenAssumption DEF ScreenAssumption
<1>3. ASSUME Init PROVE TypeOK
  <2>1. console \in Console /\ reading \in BOOLEAN /\ buf = <<>>
    BY <1>3, ClearedTyped DEF Init
  <2> QED BY <1>1, <1>2, <2>1, Zenon DEF TypeOK
<1> QED BY <1>3

LEMMA NextTypes == TypeOK /\ [Next]_vars => TypeOK'
<1> SUFFICES ASSUME TypeOK, [Next]_vars PROVE TypeOK'
  OBVIOUS
<1>1. console \in Console /\ buf \in Seq(Key) /\ Len(buf) <= KEYBOARD_BUFFER_SIZE
      /\ reading \in BOOLEAN /\ KEYBOARD_BUFFER_SIZE \in Nat
  BY ScreenAssumption DEF TypeOK, Key, ScreenAssumption
<1>2. \A s \in Seq(Char) : Prints(s) => console' \in Console
  BY <1>1, PutsTyped DEF Prints
<1>3. <<>> \in Seq(Key) /\ Len(<<>>) = 0
  OBVIOUS
<1> SUFFICES /\ console' \in Console /\ reading' \in BOOLEAN
             /\ buf' \in Seq(Key) /\ Len(buf') <= KEYBOARD_BUFFER_SIZE
  BY DEF TypeOK, Key
<1>4. CASE UNCHANGED vars
  BY <1>1, <1>4 DEF vars
<1>5. ASSUME NEW c \in Char, Output(c) PROVE console' \in Console
  BY <1>2, <1>5, Messages DEF Output
<1>6. CASE ReadBegins
  BY <1>1, <1>6 DEF ReadBegins
<1>7. ASSUME NEW c \in Key, KeyChar(c)
      PROVE  console' \in Console /\ buf' \in Seq(Key) /\ Len(buf') <= KEYBOARD_BUFFER_SIZE
  <2>1. c \in Char
    BY DEF Key, Char
  <2>2. Append(buf, c) \in Seq(Key) /\ Len(Append(buf, c)) = Len(buf) + 1
    BY <1>1, AppendProperties
  <2>3. buf' = Append(buf, c) /\ Len(buf) < KEYBOARD_BUFFER_SIZE /\ Prints(<<c>>)
    BY <1>7 DEF KeyChar
  <2>4. console' \in Console
    BY <1>2, <2>1, <2>3, Messages, Zenon
  <2>5. PICK n \in Nat : n = Len(buf)
    BY <1>1
  <2>6. n + 1 <= KEYBOARD_BUFFER_SIZE
    BY <1>1, <2>3, <2>5
  <2>7. Len(buf') <= KEYBOARD_BUFFER_SIZE
    BY <2>2, <2>3, <2>5, <2>6, Zenon
  <2> QED BY <2>2, <2>3, <2>4, <2>7, Zenon
<1>8. CASE KeyBackspace
  <2>1. buf # <<>> /\ buf' = SubSeq(buf, 1, Len(buf) - 1) /\ reading' = reading
        /\ Prints(Erase(buf[Len(buf)]))
    BY <1>8 DEF KeyBackspace
  <2>2. buf' \in Seq(Key) /\ Len(buf') < Len(buf) /\ buf[Len(buf)] \in Key
    BY <1>1, <2>1, KeyAt
  <2>3. console' \in Console
    BY <1>2, <2>1, <2>2, Erasing
  <2>4. Len(buf') <= KEYBOARD_BUFFER_SIZE
    BY <1>1, <2>2
  <2> QED BY <1>1, <2>1, <2>2, <2>3, <2>4
<1>9. CASE KeyEnter
  <2>1. Prints(<<"nl">>) /\ buf' = <<>> /\ reading' \in BOOLEAN
    BY <1>9 DEF KeyEnter
  <2>2. "nl" \in Char /\ 0 <= KEYBOARD_BUFFER_SIZE
    BY <1>1 DEF Char
  <2>3. console' \in Console
    BY <1>2, <2>1, <2>2, Messages, Zenon
  <2> QED BY <1>3, <2>1, <2>2, <2>3, Zenon
<1>10. CASE KeyClear
  BY <1>1, <1>3, <1>10, ClearedTyped DEF KeyClear
<1>11. CASE KeyMessage
  BY <1>1, <1>2, <1>11, Messages DEF KeyMessage
<1>12. ASSUME NEW c \in Char, Output(c) PROVE buf' = buf /\ reading' = reading
  BY <1>12 DEF Output
<1>13. ASSUME NEW c \in Key, KeyChar(c) PROVE reading' = reading
  BY <1>13 DEF KeyChar
<1> QED BY <1>1, <1>4, <1>5, <1>6, <1>7, <1>8, <1>9, <1>10, <1>11, <1>12, <1>13
        DEF Next, Keyboard, Key, Char

\* Type correctness, whatever happens: the cursor never leaves the screen (putc, lib.c)
\* and the line never its buffer (keyboard.c).
THEOREM ScreenTypes == Spec => []TypeOK
BY InitTypes, NextTypes, PTL DEF Spec

-----------------------------------------------------------------------------
(* The screen is a window on the paper.                                     *)

LEMMA NewOnPaper == OnPaper(Cleared, NewPaper)
<1> USE SizeFacts
<1>1. [i \in Sheet |-> Space] \in [Sheet -> Cell]
  BY DEF Cell
<1>2. NUM_COLS * 0 = 0 /\ Offset(Cleared) = 0
  BY Rows DEF Offset, Cleared
<1>3. \A i \in Place : NUM_COLS * 0 + i \in Sheet
  BY OnSheet
<1> QED BY <1>1, <1>2, <1>3 DEF OnPaper, Paper, Cleared, NewPaper

LEMMA InitPaper == Init => OnPaper(console, paper)
BY NewOnPaper DEF Init

\* A character that fits.
LEMMA PrintsOne ==
  ASSUME TypeOK, OnPaper(console, paper), "bottom_tab" \notin Events,
         NEW c \in Char, TabFits(c), Room(NUM_COLS), Prints(<<c>>)
  PROVE  /\ OnPaper(console', paper') /\ paper'.top >= paper.top
         /\ c = "a" => /\ paper'.at = Type(paper, "a", 1).at
                       /\ paper'.text = Type(paper, "a", 1).text
         /\ c = "tab" => /\ paper'.at = Type(paper, Space, TAB_SIZE).at
                         /\ paper'.text = Type(paper, Space, TAB_SIZE).text
<1>1. console \in Console /\ paper \in Page
  BY DEF TypeOK, OnPaper, Paper, Page
<1>2. console' = putc(console, c) /\ paper' = TypeOn(paper, c)
  BY <1>1, OneTyped DEF Prints
<1>3. c = "tab" => console.y + 1 \in Row \/ console.x + TAB_SIZE <= NUM_COLS
  BY DEF TabFits
<1>4. paper.at + NUM_COLS < NUM_COLS * PAPER_ROWS
  BY DEF Room
<1> QED BY <1>1, <1>2, <1>3, <1>4, OneChar

LEMMA PrintsBack ==
  ASSUME TypeOK, OnPaper(console, paper), KeyBackspace
  PROVE  LET n == Len(Look(buf[Len(buf)]))
         IN  /\ OnPaper(console', paper') /\ paper'.top = paper.top
             /\ paper'.at = IF paper.at - n >= NUM_COLS * paper.top THEN paper.at - n
                            ELSE NUM_COLS * paper.top
             /\ \A i \in Sheet : i < paper'.at => paper'.text[i] = paper.text[i]
<1>1. console \in Console /\ buf \in Seq(Key) /\ buf # <<>>
  BY DEF TypeOK, Key, KeyBackspace
<1>2. PICK c \in Key : c = buf[Len(buf)]
  BY <1>1, KeyAt
<1>3. Prints(Erase(c))
  BY <1>2 DEF KeyBackspace
<1>4. PICK s \in Seq({"bs"}) : s = Erase(c) /\ Len(s) = Len(Look(c))
  BY Erasing
<1>5. console' = puts(console, s) /\ paper' = TypeAll(paper, s)
  BY <1>3, <1>4 DEF Prints
<1>6. LET q == TypeAll(paper, s)
      IN  /\ OnPaper(puts(console, s), q) /\ q.top = paper.top
          /\ q.at = IF paper.at - Len(s) >= NUM_COLS * paper.top THEN paper.at - Len(s)
                    ELSE NUM_COLS * paper.top
          /\ \A i \in Sheet : i < q.at => q.text[i] = paper.text[i]
  BY <1>1, Backspaces
<1> QED BY <1>2, <1>4, <1>5, <1>6

LEMMA NextPaper ==
  ASSUME TypeOK, OnPaper(console, paper), "bottom_tab" \notin Events, [Next]_vars
  PROVE  OnPaper(console', paper')
<1>1. console \in Console /\ paper \in Page /\ paper.at \in Nat
  BY DEF TypeOK, OnPaper, Paper, Page
<1>2. CASE UNCHANGED vars
  BY <1>2 DEF vars
<1>3. ASSUME NEW c \in Char, Output(c) PROVE OnPaper(console', paper')
  BY <1>3, PrintsOne DEF Output
<1>4. CASE ReadBegins
  BY <1>4 DEF ReadBegins
<1>5. ASSUME NEW c \in Key, KeyChar(c) PROVE OnPaper(console', paper')
  BY <1>5, PrintsOne DEF KeyChar, Key, Char
<1>6. CASE KeyBackspace
  BY <1>6, PrintsBack
<1>7. CASE KeyEnter
  BY <1>7, PrintsOne DEF KeyEnter, Char, TabFits
<1>8. CASE KeyClear
  BY <1>8, NewOnPaper DEF KeyClear
<1>9. CASE KeyMessage
  <2>1. PICK s \in Seq(Char \ {"tab"}) : s = <<"nl", "a", "nl">> /\ Len(s) = 3
    BY Messages
  <2>2. console' = puts(console, s) /\ paper' = TypeAll(paper, s)
        /\ paper.at + NUM_COLS * Len(s) < NUM_COLS * PAPER_ROWS
    <3>1. console' = puts(console, s) /\ paper' = TypeAll(paper, s)
          /\ paper.at + 3 * NUM_COLS < NUM_COLS * PAPER_ROWS
      BY <1>9, <2>1 DEF KeyMessage, Prints, Room
    <3>2. NUM_COLS * Len(s) = 3 * NUM_COLS
      BY <2>1, SizeFacts
    <3> QED BY <3>1, <3>2
  <2> QED BY <1>1, <2>2, Message
<1> QED BY <1>2, <1>3, <1>4, <1>5, <1>6, <1>7, <1>8, <1>9 DEF Next, Keyboard, Key, Char

LEMMA PaperShown ==
  ASSUME TypeOK, OnPaper(console, paper)
  PROVE  WindowOnPaper
<1>0. Offset(console) \in Nat
  <2>1. PICK k \in Console : k = console
    BY DEF TypeOK
  <2>2. Offset(k) \in Nat
    BY OffsetFacts, SizeFacts DEF Console, Row
  <2> QED BY <2>1, <2>2
<1>1. paper.at \in Nat /\ paper.top \in Nat /\ NUM_COLS * paper.top \in Nat
  BY Rows DEF OnPaper, Paper
<1>2. paper.at = NUM_COLS * paper.top + Offset(console)
  BY DEF OnPaper
<1>3. Offset(console) = paper.at - NUM_COLS * paper.top
  BY <1>0, <1>1, <1>2
<1> QED BY <1>3 DEF OnPaper, WindowOnPaper

\* The screen shows what was printed, wherever it wrapped, scrolled or was erased, as
\* long as no tab goes over the end of the last row (putc and scroll, lib.c).
THEOREM ScreenIsWindow ==
  ASSUME "bottom_tab" \notin Events
  PROVE  Spec => []WindowOnPaper
<1> DEFINE IInv == TypeOK /\ OnPaper(console, paper)
<1>1. Init => IInv
  BY InitTypes, InitPaper
<1>2. IInv /\ [Next]_vars => IInv'
  <2> SUFFICES ASSUME IInv, [Next]_vars PROVE IInv'
    OBVIOUS
  <2>1. TypeOK'
    BY NextTypes
  <2>2. OnPaper(console', paper')
    BY NextPaper
  <2> QED BY <2>1, <2>2
<1>3. IInv => WindowOnPaper
  BY PaperShown
<1> HIDE DEF IInv
<1> QED BY <1>1, <1>2, <1>3, PTL DEF Spec

-----------------------------------------------------------------------------
(* The line at the cursor.                                                  *)

\* The typewriter has just typed s, up to the part of it above the window.
Spells(p, s) ==
  \A i \in 1 .. Len(s) :
    p.at - Len(s) + i - 1 >= NUM_COLS * p.top => p.text[p.at - Len(s) + i - 1] = s[i]

LEMMA SpellsNothing ==
  ASSUME NEW p
  PROVE  Spells(p, Shown(<<>>))
<1>1. Shown(<<>>) = <<>>
  <2>1. <<>> \in Seq(Key) /\ "a" \in Key
    BY DEF Key
  <2> QED BY <2>1, ShownAppend, Zenon
<1>2. Spells(p, <<>>)
  BY DEF Spells
<1> QED BY <1>1, <1>2, Zenon

\* A longer line.
LEMMA SpellsMore ==
  ASSUME NEW p \in Paper, NEW q \in Paper, NEW t \in Seq(Cell), Spells(p, t),
         NEW u \in Seq(Cell), NEW d \in Cell, \A i \in 1 .. Len(u) : u[i] = d,
         q.at = p.at + Len(u), q.at < NUM_COLS * PAPER_ROWS, q.top >= p.top,
         q.text = Type(p, d, Len(u)).text
  PROVE  Spells(q, t \o u)
<1>1. PICK m, n \in Nat : m = Len(t) /\ n = Len(u)
  OBVIOUS
<1>2. PICK s : s = t \o u
  OBVIOUS
<1>3. Len(s) = m + n /\ (\A i \in 1 .. m : s[i] = t[i]) /\ \A i \in 1 .. n : s[m + i] = d
  <2>1. Len(s) = m + n /\ (\A i \in 1 .. m : s[i] = t[i])
        /\ \A i \in m + 1 .. m + n : s[i] = u[i - m]
    BY <1>1, <1>2, ConcatProperties
  <2>2. ASSUME NEW i \in 1 .. n PROVE s[m + i] = d
    <3>1. m + i \in m + 1 .. m + n /\ m + i - m = i
      OBVIOUS
    <3> QED BY <1>1, <2>1, <3>1
  <2> QED BY <2>1, <2>2
<1>4. PICK at, top, low \in Nat : at = p.at /\ top = NUM_COLS * p.top /\ low = NUM_COLS * q.top
                               /\ top <= low
  BY Rows DEF Paper
<1>5. q.at = at + n /\ at + n < NUM_COLS * PAPER_ROWS
      /\ q.text = [i \in Sheet |-> IF i \in at .. at + n - 1 THEN d ELSE p.text[i]]
  BY <1>1, <1>4 DEF Type
<1>6. ASSUME NEW i \in 1 .. m + n, at + n - (m + n) + i - 1 >= low
      PROVE  q.text[at + n - (m + n) + i - 1] = s[i]
  <2>1. PICK j \in Nat : j = at + n - (m + n) + i - 1 /\ j = at - m + i - 1
    <3>1. at + n - (m + n) + i - 1 \in Nat
      BY <1>6
    <3> QED BY <3>1
  <2>2. j \in Sheet
    <3>1. NUM_COLS * PAPER_ROWS \in Nat
      BY SizeFacts, Rows
    <3> QED BY <1>5, <2>1, <3>1 DEF Sheet
  <2>3. CASE i <= m
    <3>1. i \in 1 .. m /\ j < at /\ j >= low
      BY <1>6, <2>1, <2>3
    <3>2. j \notin at .. at + n - 1 /\ j >= top
      BY <1>4, <3>1
    <3>3. p.text[j] = t[i]
      BY <1>1, <1>4, <2>1, <3>1, <3>2 DEF Spells
    <3> QED BY <1>3, <1>5, <2>1, <2>2, <3>1, <3>2, <3>3
  <2>4. CASE ~(i <= m)
    <3>1. PICK l \in 1 .. n : i = m + l
      <4>1. i - m \in 1 .. n /\ i = m + (i - m)
        BY <2>4
      <4> QED BY <4>1
    <3>2. j \in at .. at + n - 1
      BY <2>1, <3>1
    <3> QED BY <1>3, <1>5, <2>1, <2>2, <3>1, <3>2
  <2> QED BY <2>3, <2>4
<1>7. Spells(q, s)
  <2> SUFFICES ASSUME NEW i \in 1 .. Len(s), q.at - Len(s) + i - 1 >= NUM_COLS * q.top
               PROVE  q.text[q.at - Len(s) + i - 1] = s[i]
    BY DEF Spells
  <2>1. q.at - Len(s) + i - 1 = at + n - (m + n) + i - 1 /\ NUM_COLS * q.top = low
        /\ i \in 1 .. m + n
    BY <1>3, <1>4, <1>5
  <2> HIDE DEF Spells
  <2> QED BY <1>6, <2>1
<1> QED BY <1>2, <1>7

\* A shorter one.
LEMMA SpellsLess ==
  ASSUME NEW p \in Paper, NEW q \in Paper, NEW t \in Seq(Cell), NEW u \in Seq(Cell),
         Spells(p, t \o u), p.at < NUM_COLS * PAPER_ROWS, q.top = p.top,
         q.at = IF p.at - Len(u) >= NUM_COLS * p.top THEN p.at - Len(u) ELSE NUM_COLS * p.top,
         \A i \in Sheet : i < q.at => q.text[i] = p.text[i]
  PROVE  Spells(q, t)
<1>1. PICK m, n \in Nat : m = Len(t) /\ n = Len(u)
  OBVIOUS
<1>2. PICK s : s = t \o u
  OBVIOUS
<1>3. Len(s) = m + n /\ \A i \in 1 .. m : s[i] = t[i]
  BY <1>1, <1>2, ConcatProperties
<1>4. PICK at, top \in Nat : at = p.at /\ top = NUM_COLS * p.top /\ top = NUM_COLS * q.top
  BY Rows DEF Paper
<1>5. PICK to \in Nat : to = q.at /\ to = IF at - n >= top THEN at - n ELSE top
  BY <1>1, <1>4 DEF Paper
<1>6. ASSUME NEW i \in 1 .. m, to - m + i - 1 >= top
      PROVE  q.text[to - m + i - 1] = t[i]
  <2>1. to = at - n
    BY <1>5, <1>6
  <2>2. PICK j \in Nat : j = to - m + i - 1 /\ j = at - (m + n) + i - 1 /\ j < to /\ j >= top
    <3>1. to - m + i - 1 \in Nat
      BY <1>6
    <3> QED BY <1>6, <2>1, <3>1
  <2>3. j \in Sheet
    <3>1. PICK size \in Nat : size = NUM_COLS * PAPER_ROWS /\ at < size
      BY <1>4, SizeFacts, Rows
    <3>2. j < size
      BY <1>1, <2>1, <2>2, <3>1
    <3> QED BY <3>1, <3>2 DEF Sheet
  <2>4. p.text[j] = s[i]
    <3>1. Spells(p, s) /\ i \in 1 .. m + n
      BY <1>2
    <3> QED BY <1>3, <1>4, <2>2, <3>1 DEF Spells
  <2> QED BY <1>3, <1>5, <2>2, <2>3, <2>4
<1> QED BY <1>1, <1>4, <1>5, <1>6 DEF Spells

LEMMA NextSpells ==
  ASSUME TypeOK, OnPaper(console, paper), ~reading => buf = <<>>, Spells(paper, Shown(buf)),
         Events = {}, [Next]_vars
  PROVE  (~reading' => buf' = <<>>) /\ Spells(paper', Shown(buf'))
<1>1. /\ buf \in Seq(Key) /\ reading \in BOOLEAN /\ paper \in Paper /\ paper' \in Paper
      /\ paper.at \in Nat /\ paper.at < NUM_COLS * PAPER_ROWS
  <2>1. buf \in Seq(Key) /\ reading \in BOOLEAN /\ paper \in Paper /\ console \in Console
    BY DEF TypeOK, Key, OnPaper
  <2>2. paper' \in Paper
    BY NextPaper DEF OnPaper
  <2> QED BY <2>1, <2>2, AtOnSheet
<1>2. ASSUME buf' = <<>> PROVE (~reading' => buf' = <<>>) /\ Spells(paper', Shown(buf'))
  BY <1>2, SpellsNothing
<1>3. CASE UNCHANGED vars
  BY <1>3 DEF vars
<1>4. ASSUME NEW c \in Char, Output(c) PROVE buf' = <<>>
  BY <1>4 DEF Output
<1>5. CASE ReadBegins
  BY <1>5 DEF ReadBegins
<1>6. ASSUME NEW c \in Key, KeyChar(c)
      PROVE  (~reading' => buf' = <<>>) /\ Spells(paper', Shown(buf'))
  <2>1. PICK t, u \in Seq(Cell), d \in Cell :
          /\ t = Shown(buf) /\ u = Look(c) /\ d = IF c = "tab" THEN Space ELSE c
          /\ Len(u) = IF c = "tab" THEN TAB_SIZE ELSE 1
          /\ \A i \in 1 .. Len(u) : u[i] = d
    <3>1. Shown(buf) \in Seq(Cell)
      BY <1>1, ShownAppend
    <3>2. (IF c = "tab" THEN Space ELSE c) \in Cell
      BY DEF Key, Cell
    <3>3. PICK t, u, d : t = Shown(buf) /\ u = Look(c) /\ d = IF c = "tab" THEN Space ELSE c
      OBVIOUS
    <3>4. /\ u \in Seq(Cell) /\ Len(u) = (IF c = "tab" THEN TAB_SIZE ELSE 1)
          /\ \A i \in 1 .. Len(u) : u[i] = IF c = "tab" THEN Space ELSE c
      BY <3>1, <3>3, LookTyped, Zenon
    <3> QED BY <3>1, <3>2, <3>3, <3>4, Zenon
  <2>2. buf' = Append(buf, c) /\ reading' /\ Room(NUM_COLS) /\ TabFits(c) /\ Prints(<<c>>)
    BY <1>6 DEF KeyChar
  <2>3. Shown(buf') = t \o u
    BY <1>1, <2>1, <2>2, ShownAppend, Zenon
  <2>4. /\ paper'.top >= paper.top
        /\ c = "a" => /\ paper'.at = Type(paper, "a", 1).at
                      /\ paper'.text = Type(paper, "a", 1).text
        /\ c = "tab" => /\ paper'.at = Type(paper, Space, TAB_SIZE).at
                        /\ paper'.text = Type(paper, Space, TAB_SIZE).text
    BY <2>2, PrintsOne DEF Key, Char
  <2>5. PICK n \in Nat : n = Len(u) /\ n <= NUM_COLS
    BY <2>1, SizeFacts
  <2>6. paper'.at = paper.at + n /\ paper'.text = Type(paper, d, n).text
    <3>1. paper'.at = Type(paper, d, n).at /\ paper'.text = Type(paper, d, n).text
      BY <2>1, <2>4, <2>5 DEF Key
    <3>2. Type(paper, d, n).at = paper.at + n
      BY DEF Type
    <3> QED BY <3>1, <3>2
  <2>7. paper'.at < NUM_COLS * PAPER_ROWS
    BY <1>1, <2>2, <2>5, <2>6, SizeFacts DEF Room
  <2>8. PICK p, q \in Paper : p = paper /\ q = paper'
    BY <1>1
  <2>9. Spells(q, t \o u)
    BY <2>1, <2>4, <2>5, <2>6, <2>7, <2>8, SpellsMore
  <2> QED BY <2>2, <2>3, <2>8, <2>9, Zenon
<1>7. CASE KeyBackspace
  <2>1. buf # <<>> /\ buf' = SubSeq(buf, 1, Len(buf) - 1) /\ reading' = reading /\ reading
    BY <1>7 DEF KeyBackspace
  <2>2. PICK c \in Key, b \in Seq(Key) : c = buf[Len(buf)] /\ b = buf' /\ buf = Append(b, c)
    BY <1>1, <2>1, KeyAt
  <2>3. PICK t, u \in Seq(Cell) : t = Shown(b) /\ u = Look(c) /\ Shown(buf) = t \o u
    <3>1. Shown(b) \in Seq(Cell) /\ Shown(Append(b, c)) = Shown(b) \o Look(c)
      BY ShownAppend
    <3>2. Look(c) \in Seq(Cell)
      BY <3>1, LookTyped
    <3> QED BY <2>2, <3>1, <3>2, Zenon
  <2>4. PICK p, q \in Paper : p = paper /\ q = paper'
    BY <1>1
  <2>5. /\ q.top = p.top
        /\ q.at = IF p.at - Len(u) >= NUM_COLS * p.top THEN p.at - Len(u) ELSE NUM_COLS * p.top
        /\ \A i \in Sheet : i < q.at => q.text[i] = p.text[i]
    BY <1>7, <2>2, <2>3, <2>4, PrintsBack
  <2>6. Spells(p, t \o u) /\ p.at < NUM_COLS * PAPER_ROWS
    BY <1>1, <2>3, <2>4, Zenon
  <2>7. Spells(q, t)
    BY <2>5, <2>6, SpellsLess
  <2> QED BY <2>1, <2>2, <2>3, <2>4, <2>7, Zenon
<1>8. CASE KeyEnter
  BY <1>2, <1>8 DEF KeyEnter
<1>9. CASE KeyClear
  BY <1>2, <1>9 DEF KeyClear
<1>10. CASE KeyMessage
  BY <1>2, <1>10 DEF KeyMessage
<1> QED BY <1>2, <1>3, <1>4, <1>5, <1>6, <1>7, <1>8, <1>9, <1>10 DEF Next, Keyboard, Key, Char

LEMMA PaperLine ==
  ASSUME TypeOK, OnPaper(console, paper), Spells(paper, Shown(buf))
  PROVE  LineAtCursor
<1>1. PICK k \in Console, s \in Seq(Cell) : k = console /\ s = Shown(buf)
  <2>1. Shown(buf) \in Seq(Cell)
    BY ShownAppend DEF TypeOK, Key
  <2> QED BY <2>1 DEF TypeOK
<1>2. PICK m \in Nat : m = Len(s)
  OBVIOUS
<1>3. PICK o \in Place : o = Offset(k) /\ o \in Nat
  BY OffsetFacts, SizeFacts DEF Console, Row, Place
<1>4. PICK first \in Nat : first = NUM_COLS * paper.top /\ paper.at = first + o
  BY <1>1, <1>3, Rows DEF OnPaper, Paper
<1>5. ASSUME NEW i \in 1 .. m, o - m + i - 1 >= 0 PROVE k.cells[o - m + i - 1] = s[i]
  <2>1. PICK j \in Place : j = o - m + i - 1
    <3>1. o - m + i - 1 <= o /\ o - m + i - 1 \in Int
      BY <1>3
    <3>2. NUM_COLS * NUM_ROWS \in Nat
      BY SizeFacts, Rows
    <3>3. o - m + i - 1 \in Place
      BY <1>3, <1>5, <3>1, <3>2 DEF Place
    <3> QED BY <3>3
  <2>2. paper.at - m + i - 1 = first + j /\ paper.at - m + i - 1 >= first /\ j \in Nat
    BY <1>4, <1>5, <2>1
  <2>3. paper.text[first + j] = s[i]
    BY <1>1, <1>2, <1>4, <2>2 DEF Spells
  <2> QED BY <1>1, <1>4, <2>1, <2>3 DEF OnPaper
<1> QED BY <1>1, <1>2, <1>3, <1>5 DEF LineAtCursor

\* Backspace finds the typed line before the cursor, across row ends and scrolls, and
\* nothing else (keyboard_handle, keyboard.c), as long as no message comes in between.
THEOREM ScreenLine ==
  ASSUME Events = {}
  PROVE  Spec => []LineAtCursor
<1> DEFINE IInv == /\ TypeOK /\ OnPaper(console, paper)
                   /\ (~reading => buf = <<>>) /\ Spells(paper, Shown(buf))
<1>1. Init => IInv
  <2>1. Init => (~reading => buf = <<>>) /\ Spells(paper, Shown(buf))
    BY SpellsNothing DEF Init
  <2> QED BY <2>1, InitTypes, InitPaper
<1>2. IInv /\ [Next]_vars => IInv'
  <2> SUFFICES ASSUME IInv, [Next]_vars PROVE IInv'
    OBVIOUS
  <2>1. TypeOK'
    BY NextTypes
  <2>2. OnPaper(console', paper')
    BY NextPaper
  <2>3. (~reading' => buf' = <<>>) /\ Spells(paper', Shown(buf'))
    BY NextSpells
  <2> QED BY <2>1, <2>2, <2>3
<1>3. IInv => LineAtCursor
  BY PaperLine
<1> HIDE DEF IInv
<1> QED BY <1>1, <1>2, <1>3, PTL DEF Spec
=============================================================================
