------------------------------- MODULE Kernel -------------------------------
(***************************************************************************)
(* The process and terminal core of the 391OS-36 kernel: the pool of PCBs, *)
(* sys_execute and sys_halt, the three terminals, the PIT round robin      *)
(* (pit.c, scheduler.c), the keyboard shortcuts that switch, kill and      *)
(* reconfigure (keyboard.c), the exception path (exceptions.c) and the     *)
(* default signal dispatch every return to user space goes through         *)
(* (signals.c, linkage.S).                                                 *)
(*                                                                         *)
(* One CPU.  Every IDT gate is an interrupt gate, so kernel code runs with *)
(* IF = 0 and each handler is one step, except where the code executes     *)
(* sti: in sys_read, from keyboard_wait to the end of the handler that     *)
(* waits, and just before a system call returns.  There, and in user code  *)
(* whose EFLAGS have IF set, the CPU takes interrupts, between any two     *)
(* steps.                                                                  *)
(***************************************************************************)
EXTENDS Integers

CONSTANTS
  TERMINAL_COUNT,   \* scheduler.h:11, 3 in the code
  MAX_PID_COUNT,    \* syscalls.h, 6 in the code
  Inputs,           \* environment events that occur, a subset of AllInputs
  EarlyKeys,        \* may keys be pressed before every terminal has its shell?
  KeysInHalt,       \* may an echoed key arrive while sys_halt runs with IF = 1,
  KeysInRestore,    \* between the ENTER that ends a wait and the end of its restore,
  KillsInRestore    \* and a tick between an exception's signal and its restore?

AllInputs == {"char", "ctrl_c", "ctrl_s", "ctrl_p", "alt_f", "fault", "vidmap"}

ASSUME KernelAssumption ==
  /\ TERMINAL_COUNT \in Nat \ {0}
  /\ MAX_PID_COUNT \in Nat
  /\ TERMINAL_COUNT <= MAX_PID_COUNT
  /\ Inputs \subseteq AllInputs
  /\ EarlyKeys \in BOOLEAN
  /\ KeysInHalt \in BOOLEAN /\ KeysInRestore \in BOOLEAN /\ KillsInRestore \in BOOLEAN

Terminal == 0 .. TERMINAL_COUNT - 1
Pid == 0 .. MAX_PID_COUNT - 1
NULL == -1

\* A video frame: the backup page of a terminal, or the VRAM itself.
VRAM == -1
Frame == Terminal \cup {VRAM}

\* The fields of a PCB and of a terminal that the modelled code reads.
pcb_t == [process_id : Pid, terminal_id : Terminal, previous_id : Pid,
          sig_pending : BOOLEAN]
terminal_t == [initialized : BOOLEAN, pcb : Pid \cup {NULL}, tss_esp : Pid,
               echo : BOOLEAN, vidmap : BOOLEAN]

VARIABLES
  pcb,                \* the running PCB; a slot is named by its PID
  pcb_pool,           \* which slots of the pool are occupied
  slot,               \* the PCBs in memory, occupied or not: pcb_t
  terminals,          \* the terminal table: terminal_t
  buf_ready,          \* terminal.c: a line has arrived since the last open
  terminal_active,    \* the terminal on the screen
  scheduler_enable,
  progress,
  keyboard_wait_flag,
  video_mem,          \* the frame the kernel prints to
  waiter,             \* how far the handler is that waits on a process's stack, see Stage
  vram_ptr_backup,    \* its local variable: video_mem as it found it
  vidmap_page,        \* pageTableHigh[0].physicalAddress
  vidmap_present,     \* pageDir[33].P
  program_page,       \* the PID whose 4MB page pageDir[32] maps
  tss_esp0,           \* the PID whose kernel stack tss.esp0 points to
  at,                 \* where each process is, see Location
  user_if,            \* IF in each process's user EFLAGS
  got_line,           \* the base shell of a terminal holds a line it has read
  irq_off             \* the CPU is in kernel code that runs with IF = 0

display == <<terminal_active, video_mem, vidmap_page, vidmap_present>>
running == <<pcb, program_page, tss_esp0>>
user == <<user_if, got_line>>
wait == <<keyboard_wait_flag, waiter, vram_ptr_backup>>
input == <<buf_ready, scheduler_enable, wait>>
vars == <<pcb_pool, slot, terminals, progress, display, input, running, user, at, irq_off>>

(***************************************************************************)
(* Where a process is.  "user": in user code.  "exit": on its way out of a *)
(* system call, after the sti of linkage.S.  "read", "rtc": spinning in    *)
(* terminal_read or rtc_read.  "exec": in sys_execute, until its child     *)
(* halts.  "fault": in the exception handler.  "halting": in sys_halt, its *)
(* pool entry already cleared.  "none": not started, or gone.              *)
(***************************************************************************)
Location == {"user", "exit", "read", "rtc", "exec", "fault", "halting", "none"}

(***************************************************************************)
(* The process manager, the help and the exception handler wait for ENTER  *)
(* and run on with IF = 1, from sti to the iret.  How far such a handler   *)
(* is on the kernel stack of a process: "enter", it waits; "unmask",       *)
(* "signal", the exception handler is about to lower the mask, and to      *)
(* signal; "restore", about to put video_mem back; "unlock", to clear      *)
(* progress; "ctrl", the process manager is about to look at CTRL;         *)
(* "dispatch", the linkage is about to call sig_dispatch.                  *)
(***************************************************************************)
Stage == {"none", "enter", "unmask", "signal", "restore", "unlock", "ctrl", "dispatch"}

\* The handler has the screen, or the lock, and has not given it back.
Borrows(p) == waiter[p] \in {"enter", "unmask", "signal", "restore"}
Holds(p) == Borrows(p) \/ waiter[p] = "unlock" \/ at[p] = "halting"

Running == slot[pcb].terminal_id

\* The masked line: the exception handler sets sig_mask for the time of its
\* wait, and sig_dispatch sets it around the default handler.
sig_mask(p) ==
  \/ at[p] = "fault" /\ waiter[p] \in {"enter", "unmask"}
  \/ at[p] = "halting"

\* The CPU takes an interrupt: the spins, and the handlers past their sti, run with
\* IF = 1.
Interruptible ==
  /\ ~irq_off
  /\ at[pcb] = "user" => user_if[pcb] \/ waiter[pcb] # "none"

\* The running context moves on by itself: no handler is on top of it.
Proceeds(where) == ~irq_off /\ waiter[pcb] = "none" /\ at[pcb] = where

\* A handler past its sti is at this stage, and goes on to that one.
GoesOn(from, to) ==
  /\ ~irq_off /\ waiter[pcb] = from
  /\ waiter' = [waiter EXCEPT ![pcb] = to]

\* The running process executes user code, so it may make a system call.
InUser == Proceeds("user")

\* The shell that switchTerminalInit started: its own parent.
IsBaseShell(p) == slot[p].previous_id = p

\* A base shell issues a command only after terminal_read gave it a line; any
\* other program makes whatever calls it likes.
MayCommand == IsBaseShell(pcb) => got_line[Running]

\* Keys are pressed before all shells run only under EarlyKeys.
KeysAllowed == EarlyKeys \/ \A t \in Terminal : terminals[t].initialized

-----------------------------------------------------------------------------
(* Paging, TSS and video helpers.                                          *)

\* find_next_pid: the first slot that is not in use.
FreePids == {p \in Pid : ~pcb_pool[p]}
find_next_pid == CHOOSE p \in FreePids : \A q \in FreePids : p <= q

\* The frame the kernel prints to once terminal t runs while a is on screen
\* (the condition of switchContext).  Mutant: the screen as it was before the key.
FrameForOldScreen(t, T, a) == IF T[t].initialized /\ t = terminal_active THEN VRAM ELSE t
FrameFor(t, T, a) ==
  LET same == T[t].initialized /\ a = slot[T[t].pcb].terminal_id
  IN  IF same \/ (~scheduler_enable /\ ~T[t].initialized) THEN VRAM ELSE t

-----------------------------------------------------------------------------
(* sys_execute, past its checks: `from' is the PCB that pcb points to, s and *)
(* T the PCBs and terminals as the caller left them, a the locations.        *)
Launch(from, s, T, a, flag) ==
  LET p == find_next_pid
      t == s[from].terminal_id
      parent == IF from = p THEN p ELSE s[from].process_id
  IN  /\ slot' = [s EXCEPT ![p] = [process_id |-> p, terminal_id |-> t,
                                   previous_id |-> parent, sig_pending |-> FALSE]]
      /\ terminals' = [T EXCEPT ![t].pcb = p]
      /\ pcb_pool' = [pcb_pool EXCEPT ![p] = TRUE]
      /\ pcb' = p
      /\ program_page' = p
      /\ tss_esp0' = p
      /\ at' = [a EXCEPT ![p] = "user"]
      /\ user_if' = [user_if EXCEPT ![p] = flag]
      /\ got_line' = [got_line EXCEPT ![t] = FALSE]
      /\ irq_off' = FALSE
      /\ progress' = FALSE

\* switchTerminalInit: slot t becomes the PCB that the shell inherits from.  If
\* no PID is left, sys_execute gives up and the interrupted context goes on.
switchTerminalInit(t, T) ==
  LET s == [slot EXCEPT ![t].terminal_id = t, ![t].previous_id = t]
      U == [T EXCEPT ![t].initialized = TRUE, ![t].pcb = t]
  IN  IF FreePids # {}
      THEN Launch(t, s, U, at, FALSE)
      ELSE /\ slot' = s
           /\ terminals' = U
           /\ pcb' = t
           /\ progress' = FALSE
           /\ irq_off' = TRUE
           /\ UNCHANGED <<pcb_pool, program_page, tss_esp0, at, user>>

\* The tail of switchContext for a terminal that runs already: its saved stack
\* leads back to the linkage of the interrupt that switched it out.
ResumeTerminal(t, T, lock) ==
  /\ terminals' = T
  /\ pcb' = T[t].pcb
  /\ program_page' = slot[T[t].pcb].process_id
  /\ tss_esp0' = T[t].tss_esp
  /\ progress' = lock
  /\ irq_off' = ~sig_mask(T[t].pcb)
  /\ UNCHANGED <<slot, pcb_pool, at, user>>

\* The context of the running terminal, saved before it is switched out.  Mutants:
\* saved in the entry of the terminal on the screen; the kernel stack not saved.
SavedToScreen ==
  [terminals EXCEPT ![terminal_active].pcb = pcb, ![terminal_active].tss_esp = tss_esp0]
SavedWithoutStack == [terminals EXCEPT ![Running].pcb = pcb]
SavedTerminals == [terminals EXCEPT ![Running].pcb = pcb, ![Running].tss_esp = tss_esp0]

\* The vidmap page is mapped or unmapped for terminal t.  Mutants: never unmapped;
\* unmapped where it must be, but not mapped again.
VidmapNeverUnmapped(t) == vidmap_present \/ terminals[t].vidmap
VidmapNotRestored(t) == vidmap_present /\ terminals[t].vidmap
VidmapFor(t) == terminals[t].vidmap

\* switchContext(t) with terminal a on the screen and the flag progress = lock.
switchContext(t, a, lock) ==
  LET T == SavedTerminals
  IN  /\ vidmap_present' = VidmapFor(t)
      /\ video_mem' = FrameFor(t, T, a)
      /\ vidmap_page' = FrameFor(t, T, a)
      /\ IF T[t].initialized THEN ResumeTerminal(t, T, lock) ELSE switchTerminalInit(t, T)

-----------------------------------------------------------------------------
(* System calls.                                                           *)

\* sys_execute starts a program: the caller stays in the call.
SysExecute ==
  /\ InUser /\ MayCommand
  /\ FreePids # {}
  /\ Launch(pcb, slot, terminals, [at EXCEPT ![pcb] = "exec"], FALSE)
  /\ UNCHANGED <<display, input>>

\* A call that returns at once and leaves this state alone: any sys_execute
\* that fails its checks, the file calls, sys_write, sys_getargs.
SysReturn ==
  /\ InUser
  /\ at' = [at EXCEPT ![pcb] = "exit"]
  /\ irq_off' = TRUE
  /\ UNCHANGED <<pcb_pool, slot, terminals, progress, display, input,
                 running, user>>

\* The echo flag of the terminal that reads.  Mutant: of the one on the screen.
EchoOfScreen(on) == [terminals EXCEPT ![terminal_active].echo = on]
Echo(on) == [terminals EXCEPT ![Running].echo = on]

\* sys_read of FD_STDIN: sti, echo on, terminal_open, then the spin.
SysReadStdin ==
  /\ InUser
  /\ terminals' = Echo(TRUE)
  /\ buf_ready' = [buf_ready EXCEPT ![Running] = FALSE]
  /\ got_line' = [got_line EXCEPT ![Running] = FALSE]
  /\ at' = [at EXCEPT ![pcb] = "read"]
  /\ UNCHANGED <<pcb_pool, slot, progress, display, scheduler_enable, wait, running,
                 user_if, irq_off>>

\* What the spin waits for.  Mutant: a line of the terminal on the screen.
LineReadyOnScreen == buf_ready[terminal_active]
LineReady == buf_ready[Running]

\* The spin ends when a line is ready; echo goes off again.
ReadStdinReturns ==
  /\ Proceeds("read") /\ LineReady
  /\ terminals' = Echo(FALSE)
  /\ got_line' = [got_line EXCEPT ![Running] = IsBaseShell(pcb)]
  /\ at' = [at EXCEPT ![pcb] = "exit"]
  /\ irq_off' = TRUE
  /\ UNCHANGED <<pcb_pool, slot, progress, display, input, running, user_if>>

\* sys_read of an RTC descriptor: sti, then spin until the counter runs out.
SysReadRtc ==
  /\ InUser /\ ~IsBaseShell(pcb)
  /\ at' = [at EXCEPT ![pcb] = "rtc"]
  /\ UNCHANGED <<pcb_pool, slot, terminals, progress, display, input,
                 running, user, irq_off>>

ReadRtcReturns ==
  /\ Proceeds("rtc")
  /\ at' = [at EXCEPT ![pcb] = "exit"]
  /\ irq_off' = TRUE
  /\ UNCHANGED <<pcb_pool, slot, terminals, progress, display, input,
                 running, user>>

\* sys_vidmap marks the terminal and maps the page if it is on the screen.
SysVidmap ==
  /\ "vidmap" \in Inputs
  /\ InUser /\ ~IsBaseShell(pcb)
  /\ terminals' = [terminals EXCEPT ![Running].vidmap = TRUE]
  /\ vidmap_present' = (vidmap_present \/ Running = terminal_active)
  /\ at' = [at EXCEPT ![pcb] = "exit"]
  /\ irq_off' = TRUE
  /\ UNCHANGED <<pcb_pool, slot, progress, input, terminal_active, video_mem, vidmap_page,
                 running, user>>

\* The first half of sys_halt: the lock is taken and the PID is free again.
\* Mutant: the PID stays occupied.
KeptPool == pcb_pool
FreedPool == [pcb_pool EXCEPT ![slot[pcb].process_id] = FALSE]

HaltBegins ==
  /\ progress' = TRUE
  /\ pcb_pool' = FreedPool
  /\ at' = [at EXCEPT ![pcb] = "halting"]

SysHalt ==
  /\ InUser /\ MayCommand
  /\ HaltBegins
  /\ irq_off' = TRUE
  /\ UNCHANGED <<slot, terminals, display, input, running, user>>

\* sys_halt runs on, with IF = 1 or with IF = 0.
HaltProceeds == at[pcb] = "halting"

\* The second half for a PID below TERMINAL_COUNT, "Base shell is dead".  Mutant:
\* one PID too few is restarted.
HaltRestartsOneLess == pcb < TERMINAL_COUNT - 1
HaltRestarts == pcb < TERMINAL_COUNT

RestartShell ==
  /\ HaltProceeds /\ HaltRestarts
  /\ Launch(pcb, slot, terminals, at, ~irq_off)
  /\ UNCHANGED <<display, input>>

\* The process that executed p takes over when p halts.  Mutant: the base shell of
\* its terminal does.
previousIsShell(p) == slot[p].terminal_id
previous(p) == slot[p].previous_id

\* The second half for any other process: back into the parent's sys_execute,
\* which returns through the system call linkage.
ReturnToParent ==
  LET parent == previous(pcb)
  IN  /\ HaltProceeds /\ ~HaltRestarts
      /\ vidmap_present' = FALSE
      /\ program_page' = parent
      /\ terminals' = [terminals EXCEPT
            ![Running].pcb = IF pcb_pool[parent] THEN parent ELSE NULL,
            ![Running].vidmap = FALSE]
      /\ pcb' = parent
      /\ tss_esp0' = parent
      /\ progress' = FALSE
      /\ at' = [at EXCEPT ![parent] = "exit", ![pcb] = "none"]
      /\ user_if' = [user_if EXCEPT ![pcb] = FALSE]
      /\ irq_off' = TRUE
      /\ UNCHANGED <<slot, pcb_pool, terminal_active, video_mem, vidmap_page, input, got_line>>

\* linkage.S after sig_dispatch: restore the user registers, iret.
ExitToUser ==
  /\ Proceeds("exit")
  /\ at' = [at EXCEPT ![pcb] = "user"]
  /\ UNCHANGED <<pcb_pool, slot, terminals, progress, display, input,
                 running, user, irq_off>>

-----------------------------------------------------------------------------
(* Interrupts.  Each ends in handle_interrupt, which calls sig_dispatch for  *)
(* whatever process runs by then: irq_off holds until it has.  A masked      *)
(* process is let through at once.                                           *)

\* An interrupt in which the exception just signalled is acted on: the rest of its
\* handler, the restore included, never runs.
KillsHere == Borrows(pcb) /\ slot[pcb].sig_pending

\* pit_handle goes to the next terminal, round robin.  Mutants: the lock is not
\* looked at; only terminals in the background are switched out.
PitIgnoresLock == scheduler_enable \/ Running # terminal_active
PitLeavesScreen == ~progress /\ Running # terminal_active
PitSwitches == ~progress /\ (scheduler_enable \/ Running # terminal_active)

PitHandle ==
  /\ Interruptible
  /\ KillsHere => KillsInRestore
  /\ UNCHANGED <<input, terminal_active>>
  /\ IF PitSwitches
     THEN \E t \in Terminal :
            /\ t = (Running + 1) % TERMINAL_COUNT
            /\ switchContext(t, terminal_active, progress)
     ELSE /\ irq_off' = ~sig_mask(pcb)
          /\ UNCHANGED <<pcb_pool, slot, terminals, progress, video_mem, vidmap_page,
                         vidmap_present, running, at, user>>

\* A key that keyboard_handle looks at beyond the modifiers.
KeyArrives(kind) ==
  /\ Interruptible
  /\ kind \in Inputs
  /\ KeysAllowed
  /\ ~keyboard_wait_flag

\* A character or ENTER on a terminal that echoes.  keyboard_put_active raises
\* and then clears progress (a backspace on an empty line and a character on a
\* full one print nothing); then the active terminal is switched in at once.
CharKey(prints, enter) ==
  /\ KeyArrives("char")
  /\ terminals[terminal_active].echo
  /\ at[pcb] = "halting" => KeysInHalt
  /\ Holds(pcb) /\ at[pcb] # "halting" => KeysInRestore
  /\ enter => prints
  /\ buf_ready' = [buf_ready EXCEPT ![terminal_active] = @ \/ enter]
  /\ UNCHANGED <<scheduler_enable, wait, terminal_active>>
  /\ IF Running # terminal_active
     THEN switchContext(terminal_active, terminal_active, progress /\ ~prints)
     ELSE /\ progress' = (progress /\ ~prints)
          /\ irq_off' = ~sig_mask(pcb)
          /\ UNCHANGED <<pcb_pool, slot, terminals, video_mem, vidmap_page,
                         vidmap_present, running, at, user>>

\* ALT+F1, F2, F3: switchVidMem(t), then switchContext(t), which sets video_mem
\* and the vidmap page afresh.
AltKey(t) ==
  /\ KeyArrives("alt_f") /\ ~progress
  /\ terminal_active' = t
  /\ switchContext(t, t, FALSE)
  /\ UNCHANGED input

\* sig_set with a signal whose default is to kill; a masked process drops it.
sig_set(p) == [slot EXCEPT ![p].sig_pending = @ \/ ~sig_mask(p)]

\* CTRL+C signals the process in front of the active terminal.  Mutant: its shell.
InterruptShell == terminal_active
InterruptTarget == terminals[terminal_active].pcb

CtrlC ==
  /\ KeyArrives("ctrl_c") /\ ~progress
  /\ slot' = sig_set(InterruptTarget)
  /\ irq_off' = ~sig_mask(pcb)
  /\ UNCHANGED <<pcb_pool, terminals, progress, display, input,
                 running, at, user>>

\* CTRL+S turns the scheduler on and off.
CtrlS ==
  /\ KeyArrives("ctrl_s") /\ ~progress
  /\ scheduler_enable' = ~scheduler_enable
  /\ irq_off' = ~sig_mask(pcb)
  /\ UNCHANGED <<pcb_pool, slot, terminals, progress, display, buf_ready, wait,
                 running, at, user>>

\* A handler that prints to the screen and then waits for ENTER with IF = 1.
WaitBegins ==
  /\ progress' = TRUE
  /\ vram_ptr_backup' = [vram_ptr_backup EXCEPT ![pcb] = video_mem]
  /\ video_mem' = VRAM
  /\ keyboard_wait_flag' = TRUE
  /\ waiter' = [waiter EXCEPT ![pcb] = "enter"]

\* CTRL+P and CTRL+H run keyboard_clear_and_wait on top of whatever runs.  Not
\* modelled: a second one on the same stack, in the few instructions that the first
\* one or an exception handler has left after it has cleared progress.
CtrlP ==
  /\ KeyArrives("ctrl_p") /\ ~progress
  /\ waiter[pcb] = "none" /\ at[pcb] # "halting"
  /\ WaitBegins
  /\ UNCHANGED <<pcb_pool, slot, terminals, buf_ready, scheduler_enable, terminal_active,
                 vidmap_page, vidmap_present, running, user, at, irq_off>>

\* unified_exception_handler for an exception of user code.  (With progress
\* raised it would reboot the machine instead.)
Fault ==
  /\ "fault" \in Inputs
  /\ InUser /\ ~IsBaseShell(pcb) /\ ~progress
  /\ WaitBegins
  /\ at' = [at EXCEPT ![pcb] = "fault"]
  /\ UNCHANGED <<pcb_pool, slot, terminals, buf_ready, scheduler_enable, terminal_active,
                 vidmap_page, vidmap_present, running, user, irq_off>>

\* The ENTER that is waited for only lowers the flag; its interrupt then returns
\* through sig_dispatch into the handler that waits.
KeyEnter ==
  /\ keyboard_wait_flag /\ keyboard_wait_flag' = FALSE
  /\ GoesOn("enter", IF at[pcb] = "fault" THEN "unmask" ELSE "restore")
  /\ irq_off' = ~sig_mask(pcb)
  /\ UNCHANGED <<pcb_pool, slot, terminals, progress, display, buf_ready, scheduler_enable,
                 vram_ptr_backup, running, at, user>>

\* The exception handler lowers sig_mask, and delivers DIV_ZERO or SEGFAULT.
ReportUnmasks ==
  /\ GoesOn("unmask", "signal")
  /\ UNCHANGED <<pcb_pool, slot, terminals, progress, display, buf_ready, scheduler_enable,
                 keyboard_wait_flag, vram_ptr_backup, running, at, user, irq_off>>

ReportSignals ==
  /\ GoesOn("signal", "restore")
  /\ slot' = sig_set(pcb)
  /\ UNCHANGED <<pcb_pool, terminals, progress, display, buf_ready, scheduler_enable,
                 keyboard_wait_flag, vram_ptr_backup, running, at, user, irq_off>>

\* What the handler borrowed is given back: the screen, whose local copy is of no use
\* afterwards, and the lock.  Mutant: not the lock.
RestoresVideo ==
  /\ GoesOn("restore", "unlock")
  /\ video_mem' = vram_ptr_backup[pcb]
  /\ vram_ptr_backup' = [vram_ptr_backup EXCEPT ![pcb] = VRAM]
  /\ UNCHANGED <<pcb_pool, slot, terminals, progress, buf_ready, scheduler_enable,
                 terminal_active, vidmap_page, vidmap_present, keyboard_wait_flag, running,
                 at, user, irq_off>>

StillLocked == progress
Unlocked == FALSE

Unlocks ==
  /\ GoesOn("unlock", IF at[pcb] = "fault" THEN "dispatch" ELSE "ctrl")
  /\ progress' = Unlocked
  /\ UNCHANGED <<pcb_pool, slot, terminals, display, buf_ready, scheduler_enable,
                 keyboard_wait_flag, vram_ptr_backup, running, at, user, irq_off>>

\* With CTRL held after the process manager, SYSKILL goes to the running process.
CtrlChecked(ctrl) ==
  /\ GoesOn("ctrl", "dispatch")
  /\ slot' = IF ctrl THEN sig_set(pcb) ELSE slot
  /\ UNCHANGED <<pcb_pool, terminals, progress, display, buf_ready, scheduler_enable,
                 keyboard_wait_flag, vram_ptr_backup, running, at, user, irq_off>>

-----------------------------------------------------------------------------
(* sig_dispatch, at the end of every interrupt, exception and system call.   *)

\* Mutant: signals are dispatched only to the terminal on the screen.
KillPendingOnScreen == slot[pcb].sig_pending /\ Running = terminal_active
KillPending == slot[pcb].sig_pending

\* The default handler of a killing signal is sys_halt(0), from which no handler that
\* it interrupted comes back.
DispatchKills ==
  /\ KillPending
  /\ ~sig_mask(pcb) /\ (irq_off \/ waiter[pcb] = "dispatch")
  /\ slot' = [slot EXCEPT ![pcb].sig_pending = FALSE]
  /\ HaltBegins
  /\ waiter' = [waiter EXCEPT ![pcb] = "none"]
  /\ vram_ptr_backup' = [vram_ptr_backup EXCEPT ![pcb] = VRAM]
  /\ UNCHANGED <<terminals, display, buf_ready, scheduler_enable, keyboard_wait_flag,
                 running, user, irq_off>>

\* Nothing to deliver: back to the interrupted context.
DispatchReturns ==
  /\ irq_off /\ ~sig_mask(pcb) /\ ~KillPending
  /\ irq_off' = FALSE
  /\ UNCHANGED <<pcb_pool, slot, terminals, progress, display, input,
                 running, at, user>>

\* The same at the end of a handler that waited.
WaiterReturns ==
  /\ GoesOn("dispatch", "none") /\ ~KillPending
  /\ UNCHANGED <<pcb_pool, slot, terminals, progress, display, buf_ready, scheduler_enable,
                 keyboard_wait_flag, vram_ptr_backup, running, at, user, irq_off>>

-----------------------------------------------------------------------------
\* The first shell runs: kernel.c has set the environment up, enabled the
\* scheduler and called switchTerminalInit(0) with IF = 1.
Init ==
  /\ pcb = 0
  /\ pcb_pool = [p \in Pid |-> p = 0]
  /\ slot = [p \in Pid |-> [process_id |-> 0, terminal_id |-> 0,
                            previous_id |-> 0, sig_pending |-> FALSE]]
  /\ terminals = [t \in Terminal |->
        [initialized |-> t = 0, pcb |-> IF t = 0 THEN 0 ELSE NULL,
         tss_esp |-> 0, echo |-> FALSE, vidmap |-> FALSE]]
  /\ buf_ready = [t \in Terminal |-> FALSE]
  /\ terminal_active = 0
  /\ scheduler_enable = TRUE
  /\ progress = FALSE
  /\ keyboard_wait_flag = FALSE
  /\ video_mem = VRAM
  /\ waiter = [p \in Pid |-> "none"]
  /\ vram_ptr_backup = [p \in Pid |-> VRAM]
  /\ vidmap_page = VRAM
  /\ vidmap_present = FALSE
  /\ program_page = 0
  /\ tss_esp0 = 0
  /\ at = [p \in Pid |-> IF p = 0 THEN "user" ELSE "none"]
  /\ user_if = [p \in Pid |-> p = 0]
  /\ got_line = [t \in Terminal |-> FALSE]
  /\ irq_off = FALSE

Program == SysExecute \/ SysReturn \/ SysReadStdin \/ SysReadRtc \/ SysVidmap
           \/ SysHalt \/ Fault
KernelStep == ReadStdinReturns \/ ReadRtcReturns \/ RestartShell \/ ReturnToParent
              \/ ExitToUser \/ DispatchKills \/ DispatchReturns
              \/ ReportUnmasks \/ ReportSignals \/ RestoresVideo \/ Unlocks
              \/ (\E ctrl \in BOOLEAN : CtrlChecked(ctrl)) \/ WaiterReturns
Keyboard ==
  \/ \E prints, enter \in BOOLEAN : CharKey(prints, enter)
  \/ \E t \in Terminal : AltKey(t)
  \/ CtrlC \/ CtrlS \/ CtrlP \/ KeyEnter

Next == Program \/ KernelStep \/ Keyboard \/ PitHandle

Spec == Init /\ [][Next]_vars

(***************************************************************************)
(* The CPU keeps executing: kernel code and user code go on.  The PIC      *)
(* latches IRQ0, so a tick that finds the CPU uninterruptible is taken as  *)
(* soon as IF is set: a tick that would switch is taken if it can be, again*)
(* and again.  A time slice (about 50 ms) is far longer than the turn of a *)
(* spin loop, so a spin whose condition holds while it runs leaves it.     *)
(* Nobody has to press a key.                                              *)
(***************************************************************************)
Fairness ==
  /\ WF_vars(KernelStep) /\ WF_vars(Program)
  /\ SF_vars(PitHandle /\ PitSwitches)
  /\ \A t \in Terminal : SF_vars(Running = t /\ ReadStdinReturns)

FairSpec == Spec /\ Fairness

-----------------------------------------------------------------------------
(* Invariants.                                                              *)

TypeOK ==
  /\ pcb \in Pid
  /\ pcb_pool \in [Pid -> BOOLEAN]
  /\ slot \in [Pid -> pcb_t]
  /\ terminals \in [Terminal -> terminal_t]
  /\ buf_ready \in [Terminal -> BOOLEAN]
  /\ terminal_active \in Terminal
  /\ scheduler_enable \in BOOLEAN
  /\ progress \in BOOLEAN
  /\ keyboard_wait_flag \in BOOLEAN
  /\ waiter \in [Pid -> Stage]
  /\ video_mem \in Frame /\ vram_ptr_backup \in [Pid -> Frame] /\ vidmap_page \in Frame
  /\ vidmap_present \in BOOLEAN
  /\ program_page \in Pid
  /\ tss_esp0 \in Pid
  /\ at \in [Pid -> Location]
  /\ user_if \in [Pid -> BOOLEAN]
  /\ got_line \in [Terminal -> BOOLEAN]
  /\ irq_off \in BOOLEAN

\* A process exists: it holds a PID, or is in sys_halt past giving it up.
Alive(p) == pcb_pool[p] \/ at[p] = "halting"

\* terminals[t].pcb is a live process of terminal t, and the running process is
\* in front of its own terminal: what a switch saves and resumes belongs there.
FrontIsOwn ==
  /\ \A t \in Terminal : terminals[t].initialized =>
       /\ terminals[t].pcb \in Pid
       /\ Alive(terminals[t].pcb)
       /\ slot[terminals[t].pcb].terminal_id = t
  /\ terminals[Running].initialized /\ terminals[Running].pcb = pcb

\* The program page, the kernel stack of the next interrupt and the PCB are of
\* one process (the "Verified" line of the process manager; BUG 19, BUG 35 of
\* bug.log), for the running process and for every switched-out one.
StackAndPageOwn ==
  /\ program_page = pcb
  /\ tss_esp0 = pcb
  /\ \A p \in Pid : Alive(p) => slot[p].process_id = p
  /\ \A t \in Terminal : terminals[t].initialized /\ t # Running =>
       terminals[t].tss_esp = terminals[t].pcb

\* A base shell keeps the PID of its terminal, for every terminal that was
\* started: that is what lets sys_halt tell base shells by their PID.
BaseShellPids ==
  \A t \in Terminal : terminals[t].initialized =>
     /\ Alive(t) /\ slot[t].terminal_id = t /\ IsBaseShell(t)

\* Every other process has a parent, of the same terminal, waiting for it in
\* sys_execute.
ParentWaits ==
  \A p \in Pid : Alive(p) /\ p >= TERMINAL_COUNT =>
     LET q == slot[p].previous_id
     IN  /\ pcb_pool[q] /\ q # p
         /\ at[q] = "exec"
         /\ slot[q].terminal_id = slot[p].terminal_id

\* A process is in front of its terminal, or waits for exactly one child: no PID
\* is leaked, and no process is resumed twice.
OneChild ==
  \A q \in Pid : Alive(q) =>
     LET children == {p \in Pid : Alive(p) /\ p # q /\ slot[p].previous_id = q}
     IN  IF terminals[slot[q].terminal_id].pcb = q
         THEN at[q] # "exec" /\ children = {}
         ELSE at[q] = "exec" /\ \E p \in Pid : children = {p}

\* Output of the running process goes to the VRAM iff its terminal is on the
\* screen, else to that terminal's backup; so does its vidmap page.  A handler that
\* has the screen will put that back.
VideoRouted ==
  LET frame == IF Running = terminal_active THEN VRAM ELSE Running
  IN  /\ vidmap_page = frame
      /\ (IF Borrows(pcb) THEN vram_ptr_backup[pcb] ELSE video_mem) = frame

\* A process sees a vidmap page only if its own terminal asked for one, and on the
\* screen it does see it then.  That is not so for a program in the background:
\* sys_vidmap answers it with success and maps nothing (syscalls.c:662), and the
\* switch that brings its terminal to the screen has to make up for that.
VidmapOwned ==
  /\ vidmap_present => terminals[Running].vidmap
  /\ terminals[Running].vidmap /\ Running = terminal_active => vidmap_present

\* progress is raised exactly while the running process is in sys_halt, or a handler
\* on its stack waits for ENTER or has not finished its restore: multitasking is
\* neither let in too early nor locked out for good.
ProgressOwned == progress <=> Holds(pcb)

\* No switch takes the CPU away from sys_halt, or from such a handler.
CriticalNotPreempted == \A p \in Pid : Holds(p) => p = pcb

\* A process that waits for a line has the echo on, without which the keyboard
\* would drop every key and the line could never arrive.
ReaderEchoes == \A p \in Pid : at[p] = "read" => terminals[slot[p].terminal_id].echo

\* A pending kill is delivered before the process runs user code again.
KillBeforeUser == InUser => ~slot[pcb].sig_pending

\* Only the process in front of a terminal can have a kill pending.
KillsAreForFront ==
  \A p \in Pid : Alive(p) /\ slot[p].sig_pending =>
     terminals[slot[p].terminal_id].pcb = p

-----------------------------------------------------------------------------
(* Liveness, under FairSpec.                                                *)

\* The round robin starves no terminal.
EveryTerminalRuns == \A t \in Terminal : []<>(Running = t)

\* A line that has arrived gets the process that waits for it out of its spin.
LineReachesReader ==
  \A p \in Pid :
     (at[p] = "read" /\ buf_ready[slot[p].terminal_id]) ~> (at[p] # "read")

-----------------------------------------------------------------------------
(* What comments of the code say and TLC refutes, the first one with        *)
(* KeysInHalt, the other with EarlyKeys.                                    *)

\* find_next_pid returns "next available pid": no free PID is the one whose kernel
\* stack holds the context of a switched-out terminal.
FreePidsUnused ==
  \A t \in Terminal \ {Running} :
     terminals[t].initialized => terminals[t].pcb \notin FreePids

\* sys_halt restarts, instead of returning to a parent, what it calls a "base
\* shell": a PID below TERMINAL_COUNT.
OnlyShellsRestart ==
  \A p \in Pid : at[p] = "halting" /\ p < TERMINAL_COUNT => IsBaseShell(p)
=============================================================================
