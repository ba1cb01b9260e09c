------------------------------ MODULE Display -------------------------------
(***************************************************************************)
(* How three terminals share one screen: a VRAM, a backup page per         *)
(* terminal, one pair of coordinates for the running process and a saved   *)
(* pair per terminal, and one page through which programs draw themselves  *)
(* (scheduler.c, keyboard.c, exceptions.c, paging.c).  What putc does to a *)
(* console is a parameter, so nothing here depends on it.                  *)
(*                                                                         *)
(* The actions are those of Kernel, seen from the screen.  Keys are taken  *)
(* once every terminal has its shell; what happens earlier, and kills in   *)
(* the middle of an exception's restore, are left to Kernel.               *)
(***************************************************************************)
EXTENDS Integers

CONSTANTS
  TERMINAL_COUNT,
  Cells,            \* what a video frame can hold
  Cursor,           \* screen coordinates
  Text,             \* what is printed
  Drawings,         \* what programs leave in a frame they draw in
  Blank, Home,      \* the frame and the coordinates that clear leaves
  PutC(_, _),       \* the console after a text is printed
  KeysInRestore     \* keys are echoed while a handler gives the screen back

Console == [cells : Cells, cursor : Cursor]
Cleared == [cells |-> Blank, cursor |-> Home]

ASSUME DisplayAssumption ==
  /\ TERMINAL_COUNT \in Nat \ {0}
  /\ KeysInRestore \in BOOLEAN
  /\ Blank \in Cells /\ Home \in Cursor /\ Drawings \subseteq Cells
  /\ \A k \in Console, c \in Text : PutC(k, c) \in Console

Terminal == 0 .. TERMINAL_COUNT - 1
VRAM == -1
Frame == Terminal \cup {VRAM}

VARIABLES
  frame,             \* the contents of the VRAM and of the backup pages
  screen,            \* screen_x, screen_y
  saved,             \* terminals[t].screen_x, screen_y
  video_mem,         \* the frame that putc writes to
  vidmap_page,       \* pageTableHigh[0].physicalAddress, the frame of the vidmap page
  terminal_active,
  Running,           \* pcb->terminal_id
  initialized,       \* the terminals that have their shell
  scheduler_enable,
  progress,          \* no tick switches, no combination of keys is taken
  handler,           \* what has the screen for terminal t: "none", "pman", "report"
  stage,             \* and how far it is
  backup,            \* its local copies of video_mem and of the coordinates
  extra              \* VIDEO_BACKUP_ADDR_EXTRA

restore == <<handler, stage, backup, extra>>
vars == <<frame, screen, saved, video_mem, vidmap_page, terminal_active, Running,
          initialized, scheduler_enable, progress, restore>>

\* What the handlers below turn into something else: frames and coordinates.
Now == [frame |-> frame, screen |-> screen, saved |-> saved]
Becomes(d) == frame' = d.frame /\ screen' = d.screen /\ saved' = d.saved

(***************************************************************************)
(* A handler waits for ENTER ("enter"), and then gives back what it took:  *)
(* the process manager the picture ("picture"); both the coordinates       *)
(* ("coords"), video_mem ("video") and progress ("unlock").  All of it     *)
(* runs with IF = 1.                                                       *)
(***************************************************************************)
Stage == {"none", "enter", "picture", "coords", "video", "unlock"}
NoCopy == [video_mem |-> VRAM, screen |-> Home]

\* The running program goes on: no handler is on top of it.
Free == stage[Running] = "none"

\* Combinations of keys have an effect, once all shells run.
KeysAllowed == ~progress /\ initialized = Terminal

-----------------------------------------------------------------------------
\* printf of c to video_mem.
printf(c) ==
  LET k == PutC([cells |-> frame[video_mem], cursor |-> screen], c)
  IN  [Now EXCEPT !.frame[video_mem] = k.cells, !.screen = k.cursor]

\* printf of c to the VRAM, at the saved coordinates of the active terminal.
PrintInBackground(c) ==
  LET k == PutC([cells |-> frame[VRAM], cursor |-> saved[terminal_active]], c)
  IN  [Now EXCEPT !.frame[VRAM] = k.cells, !.saved[terminal_active] = k.cursor]

\* keyboard_put_active: printf on the screen, whoever runs.
keyboard_put_active(c) ==
  IF Running = terminal_active THEN printf(c) ELSE PrintInBackground(c)

\* The frame for terminal t, as in Kernel.  Mutant: the VRAM for any terminal that
\* has its shell.
FrameForAny(t) == IF t \in initialized THEN VRAM ELSE t
FrameFor(t) ==
  IF \/ t \in initialized /\ terminal_active' = t
     \/ t \notin initialized /\ ~scheduler_enable
  THEN VRAM ELSE t

\* The coordinates of the running terminal are saved.  Mutant: they are not.
KeepCoordinates(d) == d.saved
SaveCoordinates(d) == [d.saved EXCEPT ![Running] = d.screen]

\* switchContext(t) on top of d; a terminal without a shell is cleared first.
switchContext(d, t) ==
  LET f == FrameFor(t)
      T == SaveCoordinates(d)
  IN  /\ Becomes(IF t \in initialized
                 THEN [frame |-> d.frame, screen |-> T[t], saved |-> T]
                 ELSE [frame |-> [d.frame EXCEPT ![f] = Blank], screen |-> Home, saved |-> T])
      /\ video_mem' = f
      /\ vidmap_page' = f
      /\ Running' = t
      /\ initialized' = initialized \cup {t}

-----------------------------------------------------------------------------
\* Output of the running process, and of the kernel on its behalf.
TerminalWrite(c) ==
  /\ Free
  /\ Becomes(printf(c))
  /\ UNCHANGED <<video_mem, vidmap_page, terminal_active, Running, initialized,
                 scheduler_enable, progress, restore>>

\* A program that asked for the vidmap page draws in it.  Whether the page is there
\* is Kernel's subject.
Draw(cells) ==
  /\ Free
  /\ frame' = [frame EXCEPT ![vidmap_page] = cells]
  /\ UNCHANGED <<screen, saved, video_mem, vidmap_page, terminal_active, Running,
                 initialized, scheduler_enable, progress, restore>>

\* pit_handle: the terminal whose turn is next.
NextTerminal == (Running + 1) % TERMINAL_COUNT

Tick ==
  /\ ~progress
  /\ scheduler_enable \/ Running # terminal_active
  /\ UNCHANGED <<terminal_active, scheduler_enable, progress, restore>>
  /\ switchContext(Now, NextTerminal)

\* CTRL+C, CTRL+V and CTRL+S answer with a message on the active terminal.
Message(c, toggles) ==
  /\ KeysAllowed
  /\ Becomes(keyboard_put_active(c))
  /\ scheduler_enable' = (scheduler_enable # toggles)
  /\ UNCHANGED <<video_mem, vidmap_page, terminal_active, Running, initialized, progress,
                 restore>>

\* A key that is echoed: the active terminal is switched in at once.  It is taken
\* whoever holds progress, and leaves it cleared.
EchoKey(c) ==
  /\ initialized = Terminal
  /\ stage[Running] # "enter"
  /\ Free \/ KeysInRestore
  /\ progress' = FALSE
  /\ UNCHANGED <<terminal_active, scheduler_enable, restore>>
  /\ IF Running = terminal_active
     THEN /\ Becomes(keyboard_put_active(c))
          /\ UNCHANGED <<video_mem, vidmap_page, Running, initialized>>
     ELSE switchContext(keyboard_put_active(c), terminal_active)

\* CTRL+L clears the VRAM and puts the cursor of the active terminal in its corner.
KeyClear ==
  /\ KeysAllowed
  /\ frame' = [frame EXCEPT ![VRAM] = Blank]
  /\ IF Running = terminal_active
     THEN screen' = Home /\ UNCHANGED saved
     ELSE saved' = [saved EXCEPT ![terminal_active] = Home] /\ UNCHANGED screen
  /\ UNCHANGED <<video_mem, vidmap_page, terminal_active, Running, initialized,
                 scheduler_enable, progress, restore>>

\* switchVidMem: the VRAM goes to the backup page of the active terminal, and the
\* page of terminal t to the VRAM.
switchVidMem(t) ==
  LET F == [frame EXCEPT ![terminal_active] = frame[VRAM]] IN [F EXCEPT ![VRAM] = F[t]]

\* ALT+F1, F2, F3.
AltKey(t) ==
  /\ KeysAllowed
  /\ terminal_active' = t
  /\ switchContext([Now EXCEPT !.frame = switchVidMem(t)], t)
  /\ UNCHANGED <<scheduler_enable, progress, restore>>

\* A handler takes the screen, keeps copies of what it changes, and waits.
WaitBegins(who) ==
  /\ KeysAllowed /\ Free
  /\ progress' = TRUE
  /\ handler' = [handler EXCEPT ![Running] = who]
  /\ stage' = [stage EXCEPT ![Running] = "enter"]
  /\ backup' = [backup EXCEPT ![Running] = [video_mem |-> video_mem, screen |-> screen]]
  /\ video_mem' = VRAM
  /\ UNCHANGED <<saved, vidmap_page, terminal_active, Running, initialized, scheduler_enable>>

\* CTRL+P and CTRL+H: a page of text on a cleared screen, saved before.
PmanOpens(c) ==
  /\ WaitBegins("pman")
  /\ extra' = frame[VRAM]
  /\ LET k == PutC(Cleared, c)
     IN  frame' = [frame EXCEPT ![VRAM] = k.cells] /\ screen' = k.cursor

\* unified_exception_handler reports on the active terminal, whoever faults.
Report(c) ==
  /\ WaitBegins("report")
  /\ LET at == IF Running = terminal_active THEN screen ELSE saved[terminal_active]
         k == PutC([cells |-> frame[VRAM], cursor |-> at], c)
     IN  frame' = [frame EXCEPT ![VRAM] = k.cells] /\ screen' = k.cursor
  /\ UNCHANGED extra

\* The handler of the running terminal is at this stage and goes on to that one.
GoesOn(from, to) ==
  /\ stage[Running] = from
  /\ stage' = [stage EXCEPT ![Running] = to]
  /\ UNCHANGED <<vidmap_page, terminal_active, Running, initialized, scheduler_enable, extra>>

\* ENTER only lowers keyboard_wait_flag.
KeyEnter ==
  /\ GoesOn("enter", IF handler[Running] = "pman" THEN "picture" ELSE "coords")
  /\ UNCHANGED <<frame, screen, saved, video_mem, progress, handler, backup>>

\* The picture comes back.
RestoresPicture ==
  /\ GoesOn("picture", "coords")
  /\ frame' = [frame EXCEPT ![VRAM] = extra]
  /\ UNCHANGED <<screen, saved, video_mem, progress, handler, backup>>

\* The coordinates come back; the exception handler keeps those it printed at, for
\* the terminal on the screen.
RestoresCoords ==
  /\ GoesOn("coords", "video")
  /\ IF handler[Running] = "report"
     THEN IF Running = terminal_active
          THEN UNCHANGED <<screen, saved>>
          ELSE /\ saved' = [saved EXCEPT ![terminal_active] = screen]
               /\ screen' = backup[Running].screen
     ELSE screen' = backup[Running].screen /\ UNCHANGED saved
  /\ UNCHANGED <<frame, video_mem, progress, handler, backup>>

\* The local copies are of no use after this.
RestoresVideo ==
  /\ GoesOn("video", "unlock")
  /\ video_mem' = backup[Running].video_mem
  /\ backup' = [backup EXCEPT ![Running] = NoCopy]
  /\ UNCHANGED <<frame, screen, saved, progress, handler>>

Unlocks ==
  /\ GoesOn("unlock", "none")
  /\ progress' = FALSE
  /\ handler' = [handler EXCEPT ![Running] = "none"]
  /\ UNCHANGED <<frame, screen, saved, video_mem, backup>>

-----------------------------------------------------------------------------
\* The first shell runs; kernel.c has printed to the VRAM, the backup pages hold
\* anything.
Init ==
  /\ frame \in [Frame -> Cells]
  /\ screen \in Cursor
  /\ saved = [t \in Terminal |-> Home]
  /\ video_mem = VRAM
  /\ vidmap_page = VRAM
  /\ terminal_active = 0
  /\ Running = 0
  /\ initialized = {0}
  /\ scheduler_enable = TRUE
  /\ progress = FALSE
  /\ handler = [t \in Terminal |-> "none"]
  /\ stage = [t \in Terminal |-> "none"]
  /\ backup = [t \in Terminal |-> NoCopy]
  /\ extra = Blank

Next ==
  \/ \E c \in Text : \/ TerminalWrite(c) \/ EchoKey(c) \/ PmanOpens(c) \/ Report(c)
                     \/ \E toggles \in BOOLEAN : Message(c, toggles)
  \/ Tick \/ KeyClear
  \/ KeyEnter \/ RestoresPicture \/ RestoresCoords \/ RestoresVideo \/ Unlocks
  \/ \E t \in Terminal : AltKey(t)
  \/ \E cells \in Drawings : Draw(cells)

Spec == Init /\ [][Next]_vars

-----------------------------------------------------------------------------
TypeOK ==
  /\ frame \in [Frame -> Cells]
  /\ screen \in Cursor
  /\ saved \in [Terminal -> Cursor]
  /\ video_mem \in Frame /\ vidmap_page \in Frame
  /\ terminal_active \in Terminal /\ Running \in Terminal
  /\ initialized \subseteq Terminal
  /\ scheduler_enable \in BOOLEAN
  /\ progress \in BOOLEAN
  /\ handler \in [Terminal -> {"none", "pman", "report"}]
  /\ stage \in [Terminal -> Stage]
  /\ backup \in [Terminal -> [video_mem : Frame, screen : Cursor]]
  /\ extra \in Cells

\* No key is echoed between an ENTER and the end of the restore.
Calm == ~KeysInRestore

\* Where the text and the drawings of the running terminal belong.
Own == IF Running = terminal_active THEN VRAM ELSE Running

\* What a program draws goes to its own terminal: to the VRAM iff that is on the
\* screen, whatever keys come in the middle of a restore.
PageRouted == vidmap_page = Own

\* So does output; while a handler has the screen, the copy that it keeps will see
\* to it.  This is for Calm.
Routed == (IF stage[Running] \in {"none", "unlock"} THEN video_mem
           ELSE backup[Running].video_mem) = Own

(***************************************************************************)
(* The console of terminal t: where its text and its cursor are kept.      *)
(***************************************************************************)
\* screen_x and screen_y belong to the handler.
CoordsTaken == stage[Running] \in {"enter", "picture", "coords"}
PictureTaken == handler[Running] = "pman" /\ stage[Running] \in {"enter", "picture"}

CellsOf(t) ==
  IF t # terminal_active THEN frame[t]
  ELSE IF PictureTaken THEN extra ELSE frame[VRAM]

CursorOf(t) ==
  IF t = terminal_active /\ handler[Running] = "report" /\ CoordsTaken THEN screen
  ELSE IF t # Running THEN saved[t]
  ELSE IF CoordsTaken THEN backup[Running].screen ELSE screen

ConsoleOf(t) == [cells |-> CellsOf(t), cursor |-> CursorOf(t)]

Abstract == INSTANCE Consoles WITH console <- [t \in Terminal |-> ConsoleOf(t)],
                                   shown <- terminal_active, running <- Running

\* Sharing one screen is invisible: what every step does to the frames and the
\* coordinates is to print or draw on one console, clear one, or bring one to the screen.
\* This is for Calm, too.
ImplementsConsoles == Abstract!ConsolesSpec
=============================================================================
