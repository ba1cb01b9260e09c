--------------------------- MODULE DisplayProofs ---------------------------
(***************************************************************************)
(* For any number of terminals and whatever putc does to a console:        *)
(* drawings go to where their terminal is kept; and if no key is echoed    *)
(* while a handler gives the screen back, so does output, and sharing one  *)
(* screen implements separate consoles.                                    *)
(***************************************************************************)
EXTENDS Display, TLAPS

\* Keys wait for the last shell; until then the first terminal is on the screen and
\* the scheduler is on.
Boot ==
  /\ terminal_active \in initialized
  /\ Running \in initialized
  /\ scheduler_enable \/ initialized = Terminal

\* A handler that waits, or gives back, is the running terminal's, and has the lock.
Held ==
  /\ \A t \in Terminal : t # Running => stage[t] = "none"
  /\ progress <=> stage[Running] # "none"
  /\ stage[Running] = "picture" => handler[Running] = "pman"

DInv ==
  /\ TypeOK /\ PageRouted /\ Boot
  /\ Calm => Held /\ Routed

-----------------------------------------------------------------------------
LEMMA TerminalFrames ==
  /\ 0 \in Terminal
  /\ VRAM \in Frame /\ Terminal \subseteq Frame /\ VRAM \notin Terminal
  BY DisplayAssumption DEF Terminal, Frame, VRAM

LEMMA NextTerminalIsOne ==
  ASSUME TypeOK PROVE NextTerminal \in Terminal
<1>1. TERMINAL_COUNT \in Nat /\ TERMINAL_COUNT > 0 /\ Running \in Nat
  BY DisplayAssumption DEF TypeOK, Terminal
<1>2. NextTerminal \in 0 .. TERMINAL_COUNT - 1
  BY <1>1 DEF NextTerminal
<1> QED BY <1>2 DEF Terminal

\* Printing gives a console.
LEMMA PrintedConsole ==
  ASSUME NEW k \in Console, NEW c \in Text
  PROVE  /\ PutC(k, c) \in Console
         /\ PutC(k, c).cells \in Cells /\ PutC(k, c).cursor \in Cursor
         /\ PutC(k, c) = [cells |-> PutC(k, c).cells, cursor |-> PutC(k, c).cursor]
  BY DisplayAssumption DEF Console

LEMMA ClearedIsConsole == Cleared \in Console
  BY DisplayAssumption DEF Cleared, Console

-----------------------------------------------------------------------------
(***************************************************************************)
(* switchContext on top of d keeps the types and routes the output.        *)
(***************************************************************************)
Displays == [frame : [Frame -> Cells], screen : Cursor, saved : [Terminal -> Cursor]]

LEMMA NowType == ASSUME TypeOK PROVE Now \in Displays
  BY DEF TypeOK, Now, Displays

LEMMA SwitchType ==
  ASSUME TypeOK, NEW d \in Displays, NEW t \in Terminal, switchContext(d, t)
  PROVE  /\ frame' \in [Frame -> Cells]
         /\ screen' \in Cursor
         /\ saved' \in [Terminal -> Cursor]
         /\ video_mem' \in Frame /\ vidmap_page' \in Frame
         /\ Running' = t
         /\ initialized' = initialized \cup {t}
<1>1. FrameFor(t) \in Frame
  BY TerminalFrames DEF FrameFor
<1>2. SaveCoordinates(d) \in [Terminal -> Cursor]
  BY DEF SaveCoordinates, Displays, TypeOK
<1>3. CASE t \in initialized
  BY <1>1, <1>2, <1>3 DEF switchContext, Becomes, Displays
<1>4. CASE t \notin initialized
  BY <1>1, <1>2, <1>4, DisplayAssumption DEF switchContext, Becomes, Displays
<1> QED BY <1>3, <1>4

LEMMA SwitchRoutes ==
  ASSUME Boot, NEW d, NEW t \in Terminal, switchContext(d, t),
         t = terminal_active' => t \in initialized
  PROVE  PageRouted' /\ video_mem' = Own'
<1>1. FrameFor(t) = IF t = terminal_active' THEN VRAM ELSE t
  BY DEF FrameFor, Boot
<1> QED BY <1>1 DEF switchContext, PageRouted, Own

\* printf and its variant for the screen keep the types.
LEMMA PrintfType ==
  ASSUME TypeOK, NEW c \in Text
  PROVE  printf(c) \in Displays
<1> DEFINE k == PutC([cells |-> frame[video_mem], cursor |-> screen], c)
<1>1. k.cells \in Cells /\ k.cursor \in Cursor
  BY PrintedConsole DEF TypeOK, Console
<1> HIDE DEF k
<1>2. [Now EXCEPT !.frame[video_mem] = k.cells, !.screen = k.cursor] \in Displays
  BY <1>1 DEF TypeOK, Now, Displays
<1> QED BY <1>2 DEF printf, k

LEMMA PutActiveType ==
  ASSUME TypeOK, NEW c \in Text
  PROVE  keyboard_put_active(c) \in Displays
<1> DEFINE k == PutC([cells |-> frame[VRAM], cursor |-> saved[terminal_active]], c)
<1>1. k.cells \in Cells /\ k.cursor \in Cursor
  BY PrintedConsole, TerminalFrames DEF TypeOK, Console
<1> HIDE DEF k
<1>2. [Now EXCEPT !.frame[VRAM] = k.cells, !.saved[terminal_active] = k.cursor] \in Displays
  BY <1>1, TerminalFrames DEF TypeOK, Now, Displays
<1>3. PrintInBackground(c) \in Displays
  BY <1>2 DEF PrintInBackground, k
<1> QED BY <1>3, PrintfType DEF keyboard_put_active

LEMMA BecomesType ==
  ASSUME NEW d \in Displays, Becomes(d)
  PROVE  frame' \in [Frame -> Cells] /\ screen' \in Cursor /\ saved' \in [Terminal -> Cursor]
  BY DEF Becomes, Displays

LEMMA SwitchVidMemType ==
  ASSUME TypeOK, NEW t \in Terminal
  PROVE  [Now EXCEPT !.frame = switchVidMem(t)] \in Displays
<1>1. switchVidMem(t) \in [Frame -> Cells]
  BY TerminalFrames DEF switchVidMem, TypeOK
<1> QED BY <1>1, NowType DEF Displays

-----------------------------------------------------------------------------
(***************************************************************************)
(* The invariant is inductive.                                             *)
(***************************************************************************)
LEMMA InitDInv == ASSUME Init PROVE DInv
<1> USE TerminalFrames, DisplayAssumption
<1>1. TypeOK BY DEF Init, TypeOK, Stage, NoCopy
<1>2. Routed /\ PageRouted BY DEF Init, Routed, PageRouted, Own
<1>3. Boot /\ Held BY DEF Init, Boot, Held
<1> QED BY <1>1, <1>2, <1>3 DEF DInv

\* A step that changes neither who runs, nor what is shown, nor where output goes.
LEMMA SameRoutes ==
  ASSUME DInv, TypeOK',
         UNCHANGED <<video_mem, vidmap_page, terminal_active, Running, initialized,
                     handler, stage, backup>>,
         Calm => UNCHANGED progress,
         scheduler_enable' \/ initialized = Terminal \/ UNCHANGED scheduler_enable
  PROVE  DInv'
  BY DEF DInv, PageRouted, Own, Boot, Held, Routed, Calm

\* A step of a handler that waits or gives back.
LEMMA StageRoutes ==
  ASSUME DInv, NEW from, NEW to, GoesOn(from, to), from # "none", TypeOK',
         to = "picture" => handler'[Running] = "pman",
         Calm => progress' = (to # "none") /\ Routed'
  PROVE  DInv'
<1>1. PICK r \in Terminal : r = Running
  BY DEF DInv, TypeOK
<1>2. /\ Running' = r /\ stage' = [stage EXCEPT ![r] = to] /\ stage'[r] = to
      /\ UNCHANGED <<vidmap_page, terminal_active, initialized, scheduler_enable>>
  BY <1>1 DEF GoesOn, DInv, TypeOK
<1>3. PageRouted' /\ Boot'
  BY <1>1, <1>2 DEF DInv, PageRouted, Own, Boot
<1>4. ASSUME Calm PROVE Held'
  <2>1. \A t \in Terminal : t # r => stage'[t] = "none"
    BY <1>1, <1>2, <1>4 DEF DInv, Held, TypeOK
  <2> QED BY <1>1, <1>2, <1>4, <2>1 DEF Held
<1> QED BY <1>3, <1>4 DEF DInv, Calm

\* A switch to t, from a terminal that no handler holds.
LEMMA SwitchDInv ==
  ASSUME DInv, NEW d \in Displays, NEW t \in Terminal, switchContext(d, t),
         terminal_active' \in Terminal, progress' \in BOOLEAN,
         UNCHANGED <<scheduler_enable, restore>>,
         t = terminal_active' => t \in initialized,
         terminal_active' \in initialized,
         Calm => Free /\ ~progress'
  PROVE  DInv'
<1>1. TypeOK'
  BY SwitchType DEF DInv, TypeOK, restore
<1>2. /\ Running' = t /\ initialized' = initialized \cup {t}
      /\ PageRouted' /\ video_mem' = Own'
      /\ stage' = stage /\ handler' = handler /\ backup' = backup
  BY SwitchType, SwitchRoutes DEF DInv, restore
<1>3. Boot'
  BY <1>2 DEF DInv, Boot, TypeOK
<1>4. ASSUME Calm PROVE Held' /\ Routed'
  <2>1. \A u \in Terminal : stage[u] = "none"
    BY <1>4 DEF DInv, Held, Free
  <2> QED BY <1>2, <1>4, <2>1 DEF Held, Routed
<1> QED BY <1>1, <1>2, <1>3, <1>4 DEF DInv, Calm

\* A handler takes the screen: what it keeps is where output goes.
LEMMA WaitDInv ==
  ASSUME DInv, NEW who \in {"pman", "report"}, WaitBegins(who), TypeOK'
  PROVE  DInv'
<1>1. PICK r \in Terminal : r = Running
  BY DEF DInv, TypeOK
<1>2. /\ Running' = r /\ stage'[r] = "enter" /\ progress' = TRUE
      /\ \A t \in Terminal : t # r => stage'[t] = stage[t]
      /\ backup'[r].video_mem = video_mem
      /\ stage[r] = "none"
      /\ UNCHANGED <<vidmap_page, terminal_active, initialized, scheduler_enable>>
  BY <1>1 DEF WaitBegins, Free, DInv, TypeOK
<1>3. PageRouted' /\ Boot'
  BY <1>1, <1>2 DEF DInv, PageRouted, Own, Boot
<1>4. ASSUME Calm PROVE Held' /\ Routed'
  BY <1>1, <1>2, <1>4 DEF DInv, Held, Routed, Own
<1> QED BY <1>3, <1>4 DEF DInv, Calm

LEMMA NextDInv == ASSUME DInv, [Next]_vars PROVE DInv'
<1> USE TerminalFrames
<1>0. TypeOK
  BY DEF DInv
<1>1. ASSUME NEW c \in Text, TerminalWrite(c) PROVE DInv'
  <2>1. TypeOK'
    BY <1>0, <1>1, PrintfType, BecomesType DEF TerminalWrite, restore, TypeOK
  <2> QED BY <1>1, <2>1, SameRoutes DEF TerminalWrite, restore
<1>2. ASSUME NEW c \in Text, EchoKey(c) PROVE DInv'
  <2>1. keyboard_put_active(c) \in Displays /\ terminal_active \in Terminal
    BY <1>0, PutActiveType DEF TypeOK
  <2>2. Calm => Free /\ ~progress /\ ~progress'
    BY <1>2 DEF EchoKey, DInv, Held, Free, Calm
  <2>3. CASE Running = terminal_active
    <3>1. TypeOK'
      BY <1>0, <1>2, <2>1, <2>3, BecomesType DEF EchoKey, restore, TypeOK
    <3>2. UNCHANGED <<video_mem, vidmap_page, terminal_active, Running, initialized,
                      handler, stage, backup, scheduler_enable>>
      BY <1>2, <2>3 DEF EchoKey, restore
    <3>3. Calm => UNCHANGED progress
      BY <1>0, <1>2, <2>2 DEF EchoKey, TypeOK
    <3> QED BY <3>1, <3>2, <3>3, SameRoutes
  <2>4. CASE Running # terminal_active
    <3>1. switchContext(keyboard_put_active(c), terminal_active)
      BY <1>2, <2>4 DEF EchoKey
    <3>2. /\ terminal_active' = terminal_active /\ terminal_active \in initialized
          /\ progress' \in BOOLEAN /\ UNCHANGED <<scheduler_enable, restore>>
      BY <1>2 DEF EchoKey, DInv, Boot
    <3> QED BY <2>1, <2>2, <3>1, <3>2, SwitchDInv
  <2> QED BY <2>3, <2>4
<1>3. ASSUME NEW c \in Text, PmanOpens(c) PROVE DInv'
  <2>1. PutC(Cleared, c).cells \in Cells /\ PutC(Cleared, c).cursor \in Cursor
    BY PrintedConsole, ClearedIsConsole
  <2>2. TypeOK'
    BY <1>0, <1>3, <2>1 DEF PmanOpens, WaitBegins, TypeOK, Stage
  <2> QED BY <1>3, <2>2, WaitDInv DEF PmanOpens
<1>4. ASSUME NEW c \in Text, Report(c) PROVE DInv'
  <2> DEFINE at == IF Running = terminal_active THEN screen ELSE saved[terminal_active]
             k == PutC([cells |-> frame[VRAM], cursor |-> at], c)
  <2>1. [cells |-> frame[VRAM], cursor |-> at] \in Console
    BY <1>0 DEF TypeOK, Console
  <2>2. k.cells \in Cells /\ k.cursor \in Cursor
    BY <2>1, PrintedConsole
  <2>3. frame' = [frame EXCEPT ![VRAM] = k.cells] /\ screen' = k.cursor
    BY <1>4 DEF Report
  <2> HIDE DEF k
  <2>4. TypeOK'
    BY <1>0, <1>4, <2>2, <2>3 DEF Report, WaitBegins, TypeOK, Stage
  <2> QED BY <1>4, <2>4, WaitDInv DEF Report
<1>5. ASSUME NEW c \in Text, NEW toggles \in BOOLEAN, Message(c, toggles) PROVE DInv'
  <2>1. keyboard_put_active(c) \in Displays
    BY <1>0, PutActiveType
  <2>2. TypeOK'
    BY <1>0, <1>5, <2>1, BecomesType DEF Message, restore, TypeOK
  <2> QED BY <1>5, <2>2, SameRoutes DEF Message, KeysAllowed, restore
<1>6. CASE Tick
  <2>1. NextTerminal \in Terminal /\ Now \in Displays
    BY <1>0, NextTerminalIsOne, NowType
  <2>2. /\ switchContext(Now, NextTerminal) /\ terminal_active' = terminal_active
        /\ ~progress /\ progress' = progress /\ UNCHANGED <<scheduler_enable, restore>>
    BY <1>6 DEF Tick
  <2>3. terminal_active \in Terminal /\ terminal_active \in initialized /\ progress \in BOOLEAN
    BY <1>0 DEF TypeOK, DInv, Boot
  <2>4. Calm => Free /\ ~progress'
    BY <2>2 DEF DInv, Held, Free
  <2> QED BY <2>1, <2>2, <2>3, <2>4, SwitchDInv
<1>7. CASE KeyClear
  <2>1. TypeOK'
    BY <1>0, <1>7, DisplayAssumption DEF KeyClear, restore, TypeOK
  <2> QED BY <1>7, <2>1, SameRoutes DEF KeyClear, restore
<1>8. CASE KeyEnter
  <2>1. TypeOK'
    BY <1>0, <1>8 DEF KeyEnter, GoesOn, TypeOK, Stage
  <2> DEFINE to == IF handler[Running] = "pman" THEN "picture" ELSE "coords"
  <2>2. GoesOn("enter", to) /\ UNCHANGED <<handler, progress, video_mem, backup>>
    BY <1>8 DEF KeyEnter
  <2>3. ASSUME Calm PROVE progress' = (to # "none") /\ Routed'
    BY <1>0, <2>2, <2>3 DEF GoesOn, DInv, Held, Routed, Own, TypeOK
  <2> QED BY <2>1, <2>2, <2>3, StageRoutes
<1>9. CASE RestoresPicture
  <2>1. TypeOK'
    BY <1>0, <1>9 DEF RestoresPicture, GoesOn, TypeOK, Stage
  <2>2. ASSUME Calm PROVE progress' = ("coords" # "none") /\ Routed'
    BY <1>0, <1>9, <2>2 DEF RestoresPicture, GoesOn, DInv, Held, Routed, Own, TypeOK
  <2> QED BY <1>9, <2>1, <2>2, StageRoutes DEF RestoresPicture
<1>10. CASE RestoresCoords
  <2>1. TypeOK'
    BY <1>0, <1>10 DEF RestoresCoords, GoesOn, TypeOK, Stage
  <2>2. ASSUME Calm PROVE progress' = ("video" # "none") /\ Routed'
    BY <1>0, <1>10, <2>2 DEF RestoresCoords, GoesOn, DInv, Held, Routed, Own, TypeOK
  <2> QED BY <1>10, <2>1, <2>2, StageRoutes DEF RestoresCoords
<1>11. CASE RestoresVideo
  <2>1. TypeOK'
    BY <1>0, <1>11, DisplayAssumption DEF RestoresVideo, GoesOn, TypeOK, Stage, NoCopy
  <2>2. ASSUME Calm PROVE progress' = ("unlock" # "none") /\ Routed'
    BY <1>0, <1>11, <2>2 DEF RestoresVideo, GoesOn, DInv, Held, Routed, Own, TypeOK
  <2> QED BY <1>11, <2>1, <2>2, StageRoutes DEF RestoresVideo
<1>12. CASE Unlocks
  <2>1. TypeOK'
    BY <1>0, <1>12 DEF Unlocks, GoesOn, TypeOK, Stage
  <2>2. ASSUME Calm PROVE progress' = ("none" # "none") /\ Routed'
    BY <1>0, <1>12, <2>2 DEF Unlocks, GoesOn, DInv, Held, Routed, Own, TypeOK
  <2> QED BY <1>12, <2>1, <2>2, StageRoutes DEF Unlocks
<1>13. ASSUME NEW t \in Terminal, AltKey(t) PROVE DInv'
  <2> DEFINE d == [Now EXCEPT !.frame = switchVidMem(t)]
  <2>1. d \in Displays
    BY <1>0, SwitchVidMemType
  <2>2. /\ switchContext(d, t) /\ terminal_active' = t /\ t \in initialized
        /\ ~progress /\ progress' = progress /\ UNCHANGED <<scheduler_enable, restore>>
    BY <1>13 DEF AltKey, KeysAllowed
  <2> HIDE DEF d
  <2>3. (Calm => Free /\ ~progress') /\ progress \in BOOLEAN
    BY <1>0, <2>2 DEF DInv, Held, Free, TypeOK
  <2> QED BY <2>1, <2>2, <2>3, SwitchDInv
<1>14. ASSUME NEW cells \in Drawings, Draw(cells) PROVE DInv'
  <2>1. cells \in Cells
    BY DisplayAssumption
  <2>2. TypeOK'
    BY <1>0, <1>14, <2>1 DEF Draw, restore, TypeOK
  <2> QED BY <1>14, <2>2, SameRoutes DEF Draw, restore
<1>15. CASE UNCHANGED vars
  <2>1. TypeOK'
    BY <1>0, <1>15 DEF vars, restore, TypeOK
  <2> QED BY <1>15, <2>1, SameRoutes DEF vars, restore
<1> QED BY <1>1, <1>2, <1>3, <1>4, <1>5, <1>6, <1>7, <1>8, <1>9, <1>10, <1>11, <1>12,
           <1>13, <1>14, <1>15 DEF Next

\* The invariant that the rest follows from.
THEOREM DisplayInvariant == Spec => []DInv
  BY InitDInv, NextDInv, PTL DEF Spec

\* Every variable keeps its type, for any PutC that gives consoles.
THEOREM TypeCorrect == Spec => []TypeOK
<1>1. DInv => TypeOK BY DEF DInv
<1> QED BY <1>1, DisplayInvariant, PTL

\* What a program draws goes to the VRAM iff its terminal is on the screen, and to its
\* own backup page otherwise (switchContext, switchVidMem), also when a handler was
\* switched out before it had given the screen back.
THEOREM DrawingsRouted == Spec => []PageRouted
<1>1. DInv => PageRouted BY DEF DInv
<1> QED BY <1>1, DisplayInvariant, PTL

\* So does what the running process prints, if no key is echoed while a
\* handler gives the screen back.
THEOREM OutputRouted == ASSUME Calm PROVE Spec => []Routed
<1>1. DInv => Routed BY DEF DInv
<1> QED BY <1>1, DisplayInvariant, PTL

-----------------------------------------------------------------------------
(***************************************************************************)
(* Every step is a step of Consoles.                                       *)
(***************************************************************************)
\* ConsoleOf is a console, and one of its parts at a time.
LEMMA ConsoleParts ==
  ASSUME DInv, NEW t \in Terminal
  PROVE  CellsOf(t) \in Cells /\ CursorOf(t) \in Cursor
  BY TerminalFrames DEF DInv, TypeOK, CellsOf, PictureTaken, CursorOf, CoordsTaken

\* The steps of Consoles, by cells and cursors.
LEMMA PutByParts ==
  ASSUME NEW t \in Terminal, NEW c \in Text, NEW k, k = PutC(ConsoleOf(t), c),
         k = [cells |-> k.cells, cursor |-> k.cursor],
         UNCHANGED terminal_active, t \in {Running, terminal_active},
         CellsOf(t)' = k.cells, CursorOf(t)' = k.cursor,
         \A u \in Terminal : u # t => CellsOf(u)' = CellsOf(u) /\ CursorOf(u)' = CursorOf(u)
  PROVE  Abstract!ConsolesNext
<1>1. \A u \in Terminal : ConsoleOf(u)' = IF u = t THEN k ELSE ConsoleOf(u)
  BY DEF ConsoleOf
<1>2. Abstract!Put(t, c)
  BY <1>1 DEF Abstract!Put
<1> QED BY <1>2 DEF Abstract!ConsolesNext

LEMMA ClearByParts ==
  ASSUME NEW t \in Terminal, UNCHANGED terminal_active, t \in {Running', terminal_active},
         CellsOf(t)' = Blank, CursorOf(t)' = Home,
         \A u \in Terminal : u # t => CellsOf(u)' = CellsOf(u) /\ CursorOf(u)' = CursorOf(u)
  PROVE  Abstract!ConsolesNext
<1>1. \A u \in Terminal : ConsoleOf(u)' = IF u = t THEN Cleared ELSE ConsoleOf(u)
  BY DEF ConsoleOf, Cleared
<1>2. Abstract!Clear(t)
  BY <1>1 DEF Abstract!Clear
<1> QED BY <1>2 DEF Abstract!ConsolesNext

LEMMA PaintByParts ==
  ASSUME NEW cells \in Drawings, UNCHANGED <<terminal_active, Running>>, Running \in Terminal,
         CellsOf(Running)' = cells,
         \A u \in Terminal : u # Running => CellsOf(u)' = CellsOf(u),
         \A u \in Terminal : CursorOf(u)' = CursorOf(u)
  PROVE  Abstract!ConsolesNext
<1>1. \A u \in Terminal : ConsoleOf(u)' =
        IF u = Running THEN [ConsoleOf(u) EXCEPT !.cells = cells] ELSE ConsoleOf(u)
  BY DEF ConsoleOf
<1>2. Abstract!Paint(cells)
  BY <1>1 DEF Abstract!Paint
<1> QED BY <1>2 DEF Abstract!ConsolesNext

LEMMA SameByParts ==
  ASSUME \A u \in Terminal : CellsOf(u)' = CellsOf(u) /\ CursorOf(u)' = CursorOf(u),
         terminal_active' \in Terminal
  PROVE  Abstract!ConsolesNext
<1>1. \A u \in Terminal : ConsoleOf(u)' = ConsoleOf(u)
  BY DEF ConsoleOf
<1>2. Abstract!Show(terminal_active')
  BY <1>1 DEF Abstract!Show
<1> QED BY <1>2 DEF Abstract!ConsolesNext

\* What printing makes of the running console, and of the one on the screen.
LEMMA RunningConsole ==
  ASSUME DInv, Calm, Free
  PROVE  [cells |-> frame[video_mem], cursor |-> screen] = ConsoleOf(Running)
  BY DEF DInv, Routed, Own, Free, ConsoleOf, CellsOf, PictureTaken, CursorOf, CoordsTaken

LEMMA BackgroundConsole ==
  ASSUME DInv, Free, Running # terminal_active
  PROVE  [cells |-> frame[VRAM], cursor |-> saved[terminal_active]] = ConsoleOf(terminal_active)
  BY DEF Free, ConsoleOf, CellsOf, PictureTaken, CursorOf, CoordsTaken

LEMMA ConsoleType == ASSUME DInv, NEW t \in Terminal PROVE ConsoleOf(t) \in Console
  BY ConsoleParts DEF ConsoleOf, Console

LEMMA PrintfIsPut ==
  ASSUME DInv, Calm, Free, Free', NEW c \in Text, Becomes(printf(c)),
         UNCHANGED <<video_mem, terminal_active, Running>>
  PROVE  Abstract!ConsolesNext
<1> DEFINE k == PutC([cells |-> frame[video_mem], cursor |-> screen], c)
<1>1. k = PutC(ConsoleOf(Running), c)
  BY RunningConsole
<1>2. ConsoleOf(Running) \in Console /\ Running \in Terminal
  BY ConsoleType DEF DInv, TypeOK
<1>3. k = [cells |-> k.cells, cursor |-> k.cursor]
  BY <1>1, <1>2, PrintedConsole
<1>4. /\ frame' = [frame EXCEPT ![video_mem] = k.cells]
      /\ screen' = k.cursor /\ saved' = saved
  BY DEF printf, Becomes, Now
<1> HIDE DEF k
<1>5. video_mem = IF Running = terminal_active THEN VRAM ELSE Running
  BY DEF DInv, Routed, Own, Free
<1>6. CellsOf(Running)' = k.cells /\ CursorOf(Running)' = k.cursor
  BY <1>4, <1>5, <1>2, TerminalFrames
  DEF CellsOf, PictureTaken, CursorOf, CoordsTaken, Free, DInv, TypeOK
<1>7. \A u \in Terminal : u # Running => CellsOf(u)' = CellsOf(u) /\ CursorOf(u)' = CursorOf(u)
  BY <1>4, <1>5, <1>2, TerminalFrames
  DEF CellsOf, PictureTaken, CursorOf, CoordsTaken, Free, DInv, TypeOK
<1> QED BY <1>1, <1>2, <1>3, <1>6, <1>7, PutByParts

LEMMA PutActiveIsPut ==
  ASSUME DInv, Calm, Free, Free', NEW c \in Text, Becomes(keyboard_put_active(c)),
         UNCHANGED <<video_mem, terminal_active, Running>>
  PROVE  Abstract!ConsolesNext
<1>1. CASE Running = terminal_active
  BY <1>1, PrintfIsPut DEF keyboard_put_active
<1>2. CASE Running # terminal_active
  <2> DEFINE k == PutC([cells |-> frame[VRAM], cursor |-> saved[terminal_active]], c)
  <2>1. k = PutC(ConsoleOf(terminal_active), c)
    BY <1>2, BackgroundConsole
  <2>2. ConsoleOf(terminal_active) \in Console /\ terminal_active \in Terminal
    BY ConsoleType DEF DInv, TypeOK
  <2>3. k = [cells |-> k.cells, cursor |-> k.cursor]
    BY <2>1, <2>2, PrintedConsole
  <2>4. /\ frame' = [frame EXCEPT ![VRAM] = k.cells]
        /\ screen' = screen /\ saved' = [saved EXCEPT ![terminal_active] = k.cursor]
    BY <1>2 DEF keyboard_put_active, PrintInBackground, Becomes, Now
  <2> HIDE DEF k
  <2>5. CellsOf(terminal_active)' = k.cells /\ CursorOf(terminal_active)' = k.cursor
    BY <2>4, <1>2, <2>2, TerminalFrames
    DEF CellsOf, PictureTaken, CursorOf, CoordsTaken, Free, DInv, TypeOK
  <2>6. \A u \in Terminal : u # terminal_active =>
          CellsOf(u)' = CellsOf(u) /\ CursorOf(u)' = CursorOf(u)
    BY <2>4, <1>2, <2>2, TerminalFrames
    DEF CellsOf, PictureTaken, CursorOf, CoordsTaken, Free, DInv, TypeOK
  <2> QED BY <2>1, <2>2, <2>3, <2>5, <2>6, PutByParts
<1> QED BY <1>1, <1>2

\* A switch to a terminal that has its shell shows on no console.
LEMMA SwitchCursors ==
  ASSUME DInv, Calm, Free, Free', NEW d \in Displays, NEW t \in Terminal, switchContext(d, t),
         t \in initialized
  PROVE  /\ frame' = d.frame
         /\ \A u \in Terminal :
              CursorOf(u)' = IF u = Running THEN d.screen ELSE d.saved[u]
<1>1. /\ frame' = d.frame /\ Running' = t
      /\ saved' = [d.saved EXCEPT ![Running] = d.screen] /\ screen' = saved'[t]
  BY DEF switchContext, Becomes, SaveCoordinates
<1>2. Running \in Terminal /\ d.saved \in [Terminal -> Cursor]
  BY DEF DInv, TypeOK, Displays
<1>3. \A u \in Terminal : CursorOf(u)' = saved'[u]
  BY <1>1 DEF CursorOf, CoordsTaken, Free
<1> QED BY <1>1, <1>2, <1>3

LEMMA EchoIsPut == ASSUME DInv, Calm, NEW c \in Text, EchoKey(c) PROVE Abstract!ConsolesNext
<1>1. Free /\ Free' /\ UNCHANGED terminal_active
  <2>1. Free /\ UNCHANGED <<stage, terminal_active>>
    BY DEF EchoKey, restore, Calm
  <2>2. Running' \in {Running, terminal_active} /\ terminal_active \in Terminal
    BY DEF EchoKey, switchContext, DInv, TypeOK
  <2> QED BY <2>1, <2>2 DEF DInv, Held, Free
<1>2. CASE Running = terminal_active
  BY <1>1, <1>2, PutActiveIsPut DEF EchoKey
<1>3. CASE Running # terminal_active
  <2> DEFINE k == PutC([cells |-> frame[VRAM], cursor |-> saved[terminal_active]], c)
             d == keyboard_put_active(c)
  <2>1. k = PutC(ConsoleOf(terminal_active), c)
    BY <1>1, <1>3, BackgroundConsole
  <2>2. ConsoleOf(terminal_active) \in Console /\ terminal_active \in Terminal /\ TypeOK
    BY ConsoleType DEF DInv, TypeOK
  <2>3. k = [cells |-> k.cells, cursor |-> k.cursor]
    BY <2>1, <2>2, PrintedConsole
  <2>4. d \in Displays
    BY <2>2, PutActiveType
  <2>5. /\ d.frame = [frame EXCEPT ![VRAM] = k.cells] /\ d.screen = screen
        /\ d.saved = [saved EXCEPT ![terminal_active] = k.cursor]
    BY <1>3 DEF keyboard_put_active, PrintInBackground, Now
  <2>6. switchContext(d, terminal_active) /\ terminal_active \in initialized
    BY <1>3 DEF EchoKey, DInv, Boot
  <2> HIDE DEF k, d
  <2>7. /\ frame' = d.frame
        /\ \A u \in Terminal : CursorOf(u)' = IF u = Running THEN d.screen ELSE d.saved[u]
    BY <2>2, <2>4, <2>6, <1>1, SwitchCursors
  <2>8. CellsOf(terminal_active)' = k.cells /\ CursorOf(terminal_active)' = k.cursor
    BY <2>7, <2>5, <2>2, <1>1, <1>3, TerminalFrames DEF CellsOf, PictureTaken, Free, TypeOK
  <2>9. \A u \in Terminal : u # terminal_active =>
          CellsOf(u)' = CellsOf(u) /\ CursorOf(u)' = CursorOf(u)
    BY <2>7, <2>5, <2>2, <1>1, <1>3, TerminalFrames
    DEF CellsOf, PictureTaken, CursorOf, CoordsTaken, Free, TypeOK
  <2> QED BY <2>1, <2>2, <2>3, <2>8, <2>9, <1>1, PutByParts
<1> QED BY <1>2, <1>3

LEMMA TickIsInvisible == ASSUME DInv, Calm, Tick PROVE Abstract!ConsolesNext
<1>0. PICK t \in Terminal : t = NextTerminal
  BY NextTerminalIsOne DEF DInv
<1>1. /\ Free /\ Free' /\ UNCHANGED terminal_active /\ terminal_active \in Terminal
      /\ switchContext(Now, t)
  <2>1. /\ ~progress /\ UNCHANGED <<stage, terminal_active>>
        /\ switchContext(Now, t) /\ Running' = t
    BY <1>0 DEF Tick, restore, switchContext
  <2> QED BY <2>1 DEF DInv, Held, Free, TypeOK
<1>2. Now \in Displays /\ Now.frame = frame /\ Now.screen = screen /\ Now.saved = saved
  BY NowType DEF DInv, Now
<1>3. CASE t \in initialized
  <2>1. /\ frame' = frame
        /\ \A u \in Terminal : CursorOf(u)' = IF u = Running THEN screen ELSE saved[u]
    BY <1>1, <1>2, <1>3, SwitchCursors
  <2>2. \A u \in Terminal : CellsOf(u)' = CellsOf(u) /\ CursorOf(u)' = CursorOf(u)
    BY <2>1, <1>1 DEF CellsOf, PictureTaken, CursorOf, CoordsTaken, Free
  <2> QED BY <2>2, <1>1, SameByParts
<1>4. CASE t \notin initialized
  <2>1. FrameFor(t) = t /\ t # terminal_active /\ t # Running
    BY <1>1, <1>2, <1>4 DEF FrameFor, DInv, Boot
  <2>2. /\ frame' = [frame EXCEPT ![t] = Blank] /\ screen' = Home
        /\ saved' = [saved EXCEPT ![Running] = screen] /\ Running' = t
    BY <1>1, <1>2, <1>4, <2>1 DEF switchContext, Becomes, SaveCoordinates
  <2>3. \A u \in Terminal : CellsOf(u)' = IF u = t THEN Blank ELSE CellsOf(u)
    BY <2>1, <2>2, <1>1, <1>2, TerminalFrames DEF CellsOf, PictureTaken, Free, DInv, TypeOK
  <2>4. \A u \in Terminal : CursorOf(u) = IF u = Running THEN screen ELSE saved[u]
    BY <1>1 DEF CursorOf, CoordsTaken, Free
  <2>5. \A u \in Terminal : CursorOf(u)' = IF u = t THEN Home ELSE saved'[u]
    BY <1>1, <2>2 DEF CursorOf, CoordsTaken, Free
  <2>6. \A u \in Terminal : CursorOf(u)' = IF u = t THEN Home ELSE CursorOf(u)
    BY <2>2, <2>4, <2>5 DEF DInv, TypeOK
  <2>7. CellsOf(t)' = Blank /\ CursorOf(t)' = Home
    BY <2>3, <2>6
  <2> QED BY <2>2, <2>3, <2>6, <2>7, <1>1, <1>2, ClearByParts
<1> QED BY <1>3, <1>4

LEMMA AltKeyIsShow ==
  ASSUME DInv, Calm, NEW t \in Terminal, AltKey(t) PROVE Abstract!ConsolesNext
<1> DEFINE d == [Now EXCEPT !.frame = switchVidMem(t)]
<1>1. /\ Free /\ Free' /\ terminal_active' = t /\ terminal_active \in Terminal
      /\ switchContext(d, t) /\ t \in initialized
  <2>1. /\ ~progress /\ UNCHANGED stage /\ terminal_active' = t
        /\ switchContext(d, t) /\ Running' = t /\ t \in initialized
    BY DEF AltKey, KeysAllowed, restore, switchContext
  <2> QED BY <2>1 DEF DInv, Held, Free, TypeOK
<1>2. d \in Displays /\ d.frame = switchVidMem(t) /\ d.screen = screen /\ d.saved = saved
  BY SwitchVidMemType DEF DInv, Now
<1> HIDE DEF d
<1>3. /\ frame' = switchVidMem(t)
      /\ \A u \in Terminal : CursorOf(u)' = IF u = Running THEN screen ELSE saved[u]
  BY <1>1, <1>2, SwitchCursors
<1>4. \A u \in Terminal : CursorOf(u)' = CursorOf(u)
  BY <1>3, <1>1 DEF CursorOf, CoordsTaken, Free
<1>5. \A u \in Terminal : CellsOf(u)' = IF u = t THEN frame'[VRAM] ELSE frame'[u]
  BY <1>1 DEF CellsOf, PictureTaken, Free
<1>6. \A u \in Terminal : CellsOf(u) = IF u = terminal_active THEN frame[VRAM] ELSE frame[u]
  BY <1>1 DEF CellsOf, PictureTaken, Free
<1>7. frame' = [[frame EXCEPT ![terminal_active] = frame[VRAM]]
                   EXCEPT ![VRAM] = IF t = terminal_active THEN frame[VRAM] ELSE frame[t]]
  BY <1>1, <1>3, TerminalFrames DEF switchVidMem, DInv, TypeOK
<1>8. \A u \in Terminal : CellsOf(u)' = CellsOf(u)
  BY <1>1, <1>5, <1>6, <1>7, TerminalFrames DEF DInv, TypeOK
<1> QED BY <1>1, <1>4, <1>8, SameByParts

LEMMA KeyClearIsClear == ASSUME DInv, Calm, KeyClear PROVE Abstract!ConsolesNext
<1>1. Free /\ Free' /\ UNCHANGED <<terminal_active, Running>> /\ terminal_active \in Terminal
  BY DEF KeyClear, KeysAllowed, restore, Free, DInv, Held, TypeOK
<1>2. frame' = [frame EXCEPT ![VRAM] = Blank]
  BY DEF KeyClear
<1>3. CellsOf(terminal_active)' = Blank /\ CursorOf(terminal_active)' = Home
  BY <1>1, <1>2, TerminalFrames
  DEF KeyClear, CellsOf, PictureTaken, CursorOf, CoordsTaken, Free, DInv, TypeOK
<1>4. \A u \in Terminal : u # terminal_active =>
        CellsOf(u)' = CellsOf(u) /\ CursorOf(u)' = CursorOf(u)
  BY <1>1, <1>2, TerminalFrames
  DEF KeyClear, CellsOf, PictureTaken, CursorOf, CoordsTaken, Free, DInv, TypeOK
<1> QED BY <1>1, <1>3, <1>4, ClearByParts

\* What a handler does but print: no console changes.
LEMMA PmanIsInvisible ==
  ASSUME DInv, Calm, NEW c \in Text, PmanOpens(c) PROVE Abstract!ConsolesNext
<1>1. /\ UNCHANGED <<terminal_active, Running, saved>> /\ Free
      /\ handler'[Running] = "pman" /\ stage'[Running] = "enter"
      /\ extra' = frame[VRAM] /\ backup'[Running].screen = screen
      /\ \A u \in Terminal : frame'[u] = frame[u]
  BY TerminalFrames DEF PmanOpens, WaitBegins, DInv, TypeOK
<1>2. \A u \in Terminal : CellsOf(u)' = CellsOf(u) /\ CursorOf(u)' = CursorOf(u)
  BY <1>1 DEF CellsOf, PictureTaken, CursorOf, CoordsTaken, Free
<1> QED BY <1>1, <1>2, SameByParts DEF DInv, TypeOK

LEMMA EnterIsInvisible == ASSUME DInv, KeyEnter PROVE Abstract!ConsolesNext
<1>1. /\ UNCHANGED <<terminal_active, Running, saved, frame, screen, handler, backup, extra>>
      /\ stage[Running] = "enter" /\ terminal_active \in Terminal
      /\ stage'[Running] = IF handler[Running] = "pman" THEN "picture" ELSE "coords"
  BY DEF KeyEnter, GoesOn, DInv, TypeOK
<1>2. \A u \in Terminal : CellsOf(u)' = CellsOf(u) /\ CursorOf(u)' = CursorOf(u)
  BY <1>1 DEF CellsOf, PictureTaken, CursorOf, CoordsTaken
<1> QED BY <1>1, <1>2, SameByParts

LEMMA PictureIsInvisible == ASSUME DInv, Calm, RestoresPicture PROVE Abstract!ConsolesNext
<1>1. /\ UNCHANGED <<terminal_active, Running, saved, screen, handler, backup>>
      /\ stage[Running] = "picture" /\ stage'[Running] = "coords"
      /\ handler[Running] = "pman" /\ terminal_active \in Terminal
      /\ frame'[VRAM] = extra /\ \A u \in Terminal : frame'[u] = frame[u]
  BY TerminalFrames DEF RestoresPicture, GoesOn, DInv, Held, TypeOK
<1>2. \A u \in Terminal : CellsOf(u)' = CellsOf(u) /\ CursorOf(u)' = CursorOf(u)
  BY <1>1 DEF CellsOf, PictureTaken, CursorOf, CoordsTaken
<1> QED BY <1>1, <1>2, SameByParts

LEMMA CoordsAreInvisible == ASSUME DInv, RestoresCoords PROVE Abstract!ConsolesNext
<1>1. /\ UNCHANGED <<terminal_active, Running, frame, handler, backup, extra>>
      /\ stage[Running] = "coords" /\ stage'[Running] = "video"
      /\ terminal_active \in Terminal /\ Running \in Terminal
  BY DEF RestoresCoords, GoesOn, DInv, TypeOK
<1>2. \A u \in Terminal : CellsOf(u)' = CellsOf(u)
  BY <1>1 DEF CellsOf, PictureTaken
<1>3. \A u \in Terminal :
        CursorOf(u) = IF u = terminal_active /\ handler[Running] = "report" THEN screen
                      ELSE IF u = Running THEN backup[Running].screen ELSE saved[u]
  BY <1>1 DEF CursorOf, CoordsTaken
<1>4. \A u \in Terminal : CursorOf(u)' = IF u = Running THEN screen' ELSE saved'[u]
  BY <1>1 DEF CursorOf, CoordsTaken
<1>5. \A u \in Terminal : CursorOf(u)' = CursorOf(u)
  <2>1. CASE handler[Running] # "report"
    BY <2>1, <1>3, <1>4 DEF RestoresCoords
  <2>2. CASE handler[Running] = "report" /\ Running = terminal_active
    BY <2>2, <1>3, <1>4 DEF RestoresCoords
  <2>3. CASE handler[Running] = "report" /\ Running # terminal_active
    <3>1. saved' = [saved EXCEPT ![terminal_active] = screen] /\ screen' = backup[Running].screen
      BY <2>3 DEF RestoresCoords
    <3> QED BY <2>3, <3>1, <1>1, <1>3, <1>4 DEF DInv, TypeOK
  <2> QED BY <2>1, <2>2, <2>3
<1> QED BY <1>1, <1>2, <1>5, SameByParts

LEMMA EndIsInvisible == ASSUME DInv, RestoresVideo \/ Unlocks PROVE Abstract!ConsolesNext
<1>1. /\ UNCHANGED <<terminal_active, Running, saved, frame, screen>>
      /\ stage[Running] \in {"video", "unlock"} /\ stage'[Running] \in {"unlock", "none"}
      /\ terminal_active \in Terminal
  BY DEF RestoresVideo, Unlocks, GoesOn, DInv, TypeOK
<1>2. \A u \in Terminal : CellsOf(u)' = CellsOf(u) /\ CursorOf(u)' = CursorOf(u)
  BY <1>1 DEF CellsOf, PictureTaken, CursorOf, CoordsTaken
<1> QED BY <1>1, <1>2, SameByParts

LEMMA ReportIsPut ==
  ASSUME DInv, Calm, NEW c \in Text, Report(c) PROVE Abstract!ConsolesNext
<1> DEFINE at == IF Running = terminal_active THEN screen ELSE saved[terminal_active]
           k == PutC([cells |-> frame[VRAM], cursor |-> at], c)
<1>1. /\ UNCHANGED <<terminal_active, Running, saved>> /\ Free
      /\ handler'[Running] = "report" /\ stage'[Running] = "enter"
      /\ backup'[Running].screen = screen /\ terminal_active \in Terminal
      /\ frame' = [frame EXCEPT ![VRAM] = k.cells] /\ screen' = k.cursor
  BY DEF Report, WaitBegins, DInv, TypeOK
<1>2. ConsoleOf(terminal_active) = [cells |-> frame[VRAM], cursor |-> at]
  BY <1>1 DEF ConsoleOf, CellsOf, PictureTaken, CursorOf, CoordsTaken, Free
<1>3. k = PutC(ConsoleOf(terminal_active), c)
  BY <1>2
<1>4. k = [cells |-> k.cells, cursor |-> k.cursor]
  BY <1>1, <1>3, ConsoleType, PrintedConsole
<1> HIDE DEF k
<1>5. CellsOf(terminal_active)' = k.cells
  BY <1>1, TerminalFrames DEF CellsOf, PictureTaken, DInv, TypeOK
<1>6. CursorOf(terminal_active)' = k.cursor
  BY <1>1 DEF CursorOf, CoordsTaken
<1>7. \A u \in Terminal : u # terminal_active =>
        CellsOf(u)' = CellsOf(u) /\ CursorOf(u)' = CursorOf(u)
  BY <1>1, TerminalFrames
  DEF CellsOf, PictureTaken, CursorOf, CoordsTaken, Free, DInv, TypeOK
<1> QED BY <1>1, <1>3, <1>4, <1>5, <1>6, <1>7, PutByParts

LEMMA DrawIsPaint ==
  ASSUME DInv, NEW cells \in Drawings, Draw(cells) PROVE Abstract!ConsolesNext
<1>1. /\ Free /\ Free' /\ UNCHANGED <<terminal_active, Running, screen, saved>>
      /\ Running \in Terminal /\ terminal_active \in Terminal
      /\ frame' = [frame EXCEPT ![vidmap_page] = cells]
  BY DEF Draw, restore, Free, DInv, TypeOK
<1>2. vidmap_page = IF Running = terminal_active THEN VRAM ELSE Running
  BY DEF DInv, PageRouted, Own
<1>3. CellsOf(Running)' = cells
  BY <1>1, <1>2, TerminalFrames DEF CellsOf, PictureTaken, Free, DInv, TypeOK
<1>4. \A u \in Terminal : u # Running => CellsOf(u)' = CellsOf(u)
  BY <1>1, <1>2, TerminalFrames DEF CellsOf, PictureTaken, Free, DInv, TypeOK
<1>5. \A u \in Terminal : CursorOf(u)' = CursorOf(u)
  BY <1>1 DEF CursorOf, CoordsTaken, Free
<1> QED BY <1>1, <1>3, <1>4, <1>5, PaintByParts

LEMMA NextIsConsoles == ASSUME DInv, Calm, Next PROVE Abstract!ConsolesNext
<1>1. ASSUME NEW c \in Text, TerminalWrite(c) PROVE Abstract!ConsolesNext
  BY <1>1, PrintfIsPut DEF TerminalWrite, restore, Free
<1>2. ASSUME NEW c \in Text, NEW toggles \in BOOLEAN, Message(c, toggles)
      PROVE  Abstract!ConsolesNext
  BY <1>2, PutActiveIsPut DEF Message, KeysAllowed, restore, DInv, Held, Free
<1> QED BY <1>1, <1>2, EchoIsPut, TickIsInvisible, AltKeyIsShow, KeyClearIsClear,
           PmanIsInvisible, EnterIsInvisible, PictureIsInvisible, CoordsAreInvisible,
           EndIsInvisible, ReportIsPut, DrawIsPaint DEF Next

\* Whatever is printed by whoever runs, whatever keys are pressed: each terminal is
\* a console of its own (printf, keyboard_put_active, switchContext, switchVidMem,
\* keyboard_clear_and_wait, unified_exception_handler), if no key is echoed
\* while a handler gives the screen back.
THEOREM SharingIsInvisible == ASSUME Calm PROVE Spec => ImplementsConsoles
<1>1. ASSUME UNCHANGED vars PROVE UNCHANGED Abstract!consoles
  <2>1. \A t \in Terminal : ConsoleOf(t)' = ConsoleOf(t)
    BY <1>1 DEF vars, restore, ConsoleOf, CellsOf, PictureTaken, CursorOf, CoordsTaken
  <2> QED BY <1>1, <2>1 DEF vars, Abstract!consoles
<1>2. DInv /\ [Next]_vars => [Abstract!ConsolesNext]_(Abstract!consoles)
  BY <1>1, NextIsConsoles
<1> QED BY <1>2, DisplayInvariant, PTL DEF Spec, ImplementsConsoles, Abstract!ConsolesSpec
=============================================================================
