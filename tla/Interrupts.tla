----------------------------- MODULE Interrupts -----------------------------
(***************************************************************************)
(* The way of an interrupt, from the line of a device through the two 8259 *)
(* chips and the interrupt gate to its handler and its EOI (i8259.c,       *)
(* idt.c, interrupts.c, linkage.S, pit.c, keyboard.c, rtc.c), and what the *)
(* RTC's interrupts are for: the virtual RTC of each terminal, a counter   *)
(* that rtc_read spins on, and the alarm.                                  *)
(*                                                                         *)
(* Handlers run with IF = 0.  What a terminal does is kept only as far as  *)
(* interrupts see it; processes, keys and signals are Kernel's and         *)
(* Signals' subject.  The scheduler stays enabled.                         *)
(***************************************************************************)
EXTENDS Integers, Sequences

CONSTANTS
  TERMINAL_COUNT,       \* scheduler.h:11, 3 in the code
  Frequencies,          \* the frequencies programs set, powers of 2 up to 1024
  RTC_ALARM_THERSHOLD,  \* rtc.h:17, 10240 in the code, in quarters here
  PreemptCompare        \* may rtc_read lose the CPU between load and compare?

ASSUME InterruptsAssumption ==
  /\ TERMINAL_COUNT \in Nat \ {0}
  /\ Frequencies \subseteq {2, 4, 8, 16, 32, 64, 128, 256, 512, 1024}
  /\ RTC_ALARM_THERSHOLD \in Nat \ {0}
  /\ PreemptCompare \in BOOLEAN

Terminal == 0 .. TERMINAL_COUNT - 1

\* The IRQs in use; SLAVE_IRQ is the line that the second chip has on the first.
PIT_IRQ == 0
KEYBOARD_IRQ == 1
SLAVE_IRQ == 2
RTC_IRQ == 8
Device == {PIT_IRQ, KEYBOARD_IRQ, RTC_IRQ}
NoIrq == -1

\* The counters are floats that hold multiples of 1/4, exactly: quarters here.
RTC_FACTOR == 7
Period(freq) == 4 * (1024 \div freq)

\* The x87 unit has eight registers; a counter is loaded with the zero that it is
\* compared with.  Overflow of the stack is not modelled.
FPU_PAIRS == 4

VARIABLES
  pending,        \* IRQs latched by the chips and not yet taken
  in_service,     \* IRQs taken without an EOI, SLAVE_IRQ with those of the slave
  serving,        \* the IRQ whose handler has been entered, or NoIrq
  running,        \* the terminal that has the CPU
  at,             \* where each terminal's front process is
  user_if,        \* IF in the user EFLAGS of that process
  keyboard_wait_flag, \* keyboard_wait spins on top of the running process
  vrtc_counter,   \* per terminal, in quarters
  vrtc_alarm,     \* per terminal, in quarters
  fpu,            \* the x87 stack: counters loaded and not yet compared
  asked,          \* what rtc_read was asked for, in quarters, 0 outside
  waited          \* RTC interrupts handled since, as far as they matter

controller == <<pending, in_service>>
program == <<at, user_if>>
clock == <<vrtc_counter, vrtc_alarm>>
history == <<asked, waited>>
vars == <<controller, serving, running, program, keyboard_wait_flag, clock, fpu, history>>

\* "off": no shell yet.  "user": user code.  "call": in kernel code with IF = 1,
\* that is in sys_read, the spin of terminal_read included, on the way out of a
\* system call, or in the exception handler.
\* "load", "compare": in the spin of rtc_read, about to load the counter or to
\* compare what was loaded.
Location == {"off", "user", "call", "load", "compare"}

-----------------------------------------------------------------------------
(* The interrupt controllers.                                              *)

\* Mask_Master and Mask_Slave, as the set of masked IRQs.
enable_irq(mask, irq) == mask \ {irq}

\* i8259_init masks all, except for the line of the slave.
i8259_init == enable_irq(0 .. 15, SLAVE_IRQ)

\* The masks that kernel.c leaves: it enables PIT, keyboard and RTC, and nothing
\* changes them later.
Mask == enable_irq(enable_irq(enable_irq(i8259_init, PIT_IRQ), KEYBOARD_IRQ), RTC_IRQ)

\* The line of an IRQ on the first chip, which is also its priority there.
MasterLine(irq) == IF irq < 8 THEN irq ELSE SLAVE_IRQ
Unmasked(irq) == irq \notin Mask /\ MasterLine(irq) \notin Mask

\* A request gets through to the CPU: nothing of its priority or above is in
\* service or requested.
Requests(irq) ==
  /\ irq \in pending /\ Unmasked(irq)
  /\ \A i \in in_service : MasterLine(irq) < MasterLine(i)
  /\ \A i \in pending : Unmasked(i) => MasterLine(irq) <= MasterLine(i)

\* The EOI goes to both chips for an IRQ of the slave.  Mutant: to that one only.
EoiOneChip(irq) == in_service \ {irq}
send_eoi(irq) == in_service \ {irq, MasterLine(irq)}

-----------------------------------------------------------------------------
(* The CPU.                                                                *)

\* IF.  Every gate of the IDT is an interrupt gate (size, reserved1 and reserved2
\* are set), so handlers and system calls run with IF = 0; sys_read executes
\* sti, as do keyboard_wait and the linkage on its way out.
Interruptible ==
  /\ serving = NoIrq
  /\ keyboard_wait_flag \/ at[running] # "user" \/ user_if[running]

\* The front process of the running terminal executes instructions.
Proceeds(t, where) ==
  /\ running = t /\ serving = NoIrq /\ ~keyboard_wait_flag
  /\ at[t] = where

\* No read of the RTC is between its load and its compare.
CompareUndisturbed == PreemptCompare \/ at[running] # "compare"

\* The terminals' shells are all started before the first alarm is due, ten seconds
\* after the boot.
AlarmDue == \E t \in Terminal : vrtc_alarm[t] + RTC_FACTOR >= RTC_ALARM_THERSHOLD
ShellsInTime == AlarmDue => \A t \in Terminal : at[t] # "off"

\* A device raises its line.  A line that rises while a handler runs is latched,
\* as is one that rises just after it.
Raise(irq) ==
  /\ serving = NoIrq
  /\ irq = RTC_IRQ => ShellsInTime
  /\ pending' = pending \cup {irq}
  /\ UNCHANGED <<in_service, serving, running, program, keyboard_wait_flag, clock, fpu,
                 history>>

\* The CPU takes the interrupt through its gate.  Without PreemptCompare only the
\* RTC, which never takes the CPU away, falls between load and compare.
TakeInterrupt(irq) ==
  /\ Interruptible /\ Requests(irq)
  /\ irq # RTC_IRQ => CompareUndisturbed
  /\ pending' = pending \ {irq}
  /\ in_service' = in_service \cup {irq, MasterLine(irq)}
  /\ serving' = irq
  /\ UNCHANGED <<running, program, keyboard_wait_flag, clock, fpu, history>>

\* switchContext(t): the process is parked in this handler, and the CPU returns
\* from the one in which t's is.  A terminal without a shell gets one.
switchContext(t) ==
  /\ running' = t
  /\ at' = [at EXCEPT ![t] = IF @ = "off" THEN "user" ELSE @]
  /\ vrtc_alarm' = [vrtc_alarm EXCEPT ![t] = IF at[t] = "off" THEN 0 ELSE @]

\* What is in service once pit_handle has gone to terminal t: it sends its EOI
\* before it switches.  Mutant: it does so when it is back; that EOI is then sent
\* by what it switches to, unless that is a new shell.
EoiAfterSwitch(t) == IF at[t] = "off" THEN in_service ELSE send_eoi(PIT_IRQ)
EoiBeforeSwitch(t) == send_eoi(PIT_IRQ)

\* progress is raised only in keyboard_wait here.
pit_handle ==
  /\ serving = PIT_IRQ
  /\ serving' = NoIrq
  /\ LET next == (running + 1) % TERMINAL_COUNT IN
     IF keyboard_wait_flag
     THEN /\ in_service' = send_eoi(PIT_IRQ)
          /\ UNCHANGED <<running, at, vrtc_alarm>>
     ELSE /\ in_service' = EoiBeforeSwitch(next)
          /\ switchContext(next)
  /\ UNCHANGED <<pending, user_if, keyboard_wait_flag, vrtc_counter, fpu, asked, waited>>

\* The end of every keyboard interrupt, whose EOI comes first.
KeyboardHandled ==
  /\ serving = KEYBOARD_IRQ
  /\ serving' = NoIrq
  /\ in_service' = send_eoi(KEYBOARD_IRQ)
  /\ UNCHANGED <<pending, vrtc_counter, user_if, fpu, asked, waited>>

\* ALT+F keys and characters go to the terminal on the screen at once.
KeySwitches(t) ==
  /\ KeyboardHandled
  /\ ~keyboard_wait_flag
  /\ switchContext(t)
  /\ UNCHANGED keyboard_wait_flag

\* CTRL+P and CTRL+H wait for ENTER inside the handler, with IF = 1.
KeyWaits ==
  /\ KeyboardHandled
  /\ ~keyboard_wait_flag
  /\ keyboard_wait_flag' = TRUE
  /\ UNCHANGED <<running, at, vrtc_alarm>>

\* ENTER, when something waits for it; and any other key.
KeyConfirms ==
  /\ KeyboardHandled
  /\ keyboard_wait_flag
  /\ keyboard_wait_flag' = FALSE
  /\ UNCHANGED <<running, at, vrtc_alarm>>
KeyIgnored ==
  /\ KeyboardHandled
  /\ UNCHANGED <<keyboard_wait_flag, running, at, vrtc_alarm>>

\* A terminal's counter after an RTC interrupt.  Mutant: only the one that runs
\* counts.
CountsRunning(t) ==
  IF t = running /\ vrtc_counter[t] > 0 THEN vrtc_counter[t] - RTC_FACTOR ELSE vrtc_counter[t]
CountsDown(t) == IF vrtc_counter[t] > 0 THEN vrtc_counter[t] - RTC_FACTOR ELSE vrtc_counter[t]

\* A terminal's alarm counter after one: at the threshold its process is sent
\* ALARM, and it starts again.
AlarmRings(t) == vrtc_alarm[t] + RTC_FACTOR >= RTC_ALARM_THERSHOLD
CountsUp(t) == IF AlarmRings(t) THEN 0 ELSE vrtc_alarm[t] + RTC_FACTOR

\* A count of interrupts in the history, kept no longer than a bound needs it.
Capped(n, bound) == IF RTC_FACTOR * n < bound THEN n + 1 ELSE n

rtc_handle ==
  /\ serving = RTC_IRQ
  /\ vrtc_counter' = [t \in Terminal |-> CountsDown(t)]
  /\ vrtc_alarm' = [t \in Terminal |-> CountsUp(t)]
  /\ in_service' = send_eoi(RTC_IRQ)
  /\ serving' = NoIrq
  /\ waited' = [t \in Terminal |-> Capped(waited[t], asked[t])]
  /\ UNCHANGED <<pending, running, program, keyboard_wait_flag, fpu, asked>>

-----------------------------------------------------------------------------
(* Programs.                                                               *)

\* The front process of t goes on to the next place in its code.
Moves(t, from, to) ==
  /\ Proceeds(t, from)
  /\ at' = [at EXCEPT ![t] = to]
  /\ UNCHANGED <<controller, serving, running, user_if, keyboard_wait_flag, vrtc_alarm>>

\* sti in sys_read or in the linkage, and the iret at the end.
CallRuns(t) == Moves(t, "user", "call") /\ UNCHANGED <<vrtc_counter, fpu, history>>
CallReturns(t) == Moves(t, "call", "user") /\ UNCHANGED <<vrtc_counter, fpu, history>>

\* The counter that rtc_read of a program on t sets.  Mutant: all of them.
SetsEach(t, n) == [u \in Terminal |-> n]
SetsOwn(t, n) == [vrtc_counter EXCEPT ![t] = n]

\* rtc_read: the counter is set, then the spin, in two steps each turn: the counter
\* is pushed on the x87 stack, and what is on top of it is popped and compared.
rtc_read(t, freq) ==
  /\ Moves(t, "user", "load")
  /\ vrtc_counter' = SetsOwn(t, Period(freq))
  /\ asked' = [asked EXCEPT ![t] = Period(freq)]
  /\ waited' = [waited EXCEPT ![t] = 0]
  /\ UNCHANGED fpu

LoadCounter(t) ==
  /\ Len(fpu) < FPU_PAIRS
  /\ Moves(t, "load", "compare")
  /\ fpu' = Append(fpu, vrtc_counter[t])
  /\ UNCHANGED <<vrtc_counter, history>>

Spins(value) == value > 0

CompareCounter(t) ==
  LET spins == Spins(fpu[Len(fpu)]) IN
  /\ Moves(t, "compare", IF spins THEN "load" ELSE "call")
  /\ fpu' = SubSeq(fpu, 1, Len(fpu) - 1)
  /\ asked' = [asked EXCEPT ![t] = IF spins THEN @ ELSE 0]
  /\ waited' = [waited EXCEPT ![t] = IF spins THEN @ ELSE 0]
  /\ UNCHANGED vrtc_counter

\* The alarm counter of a program's terminal starts afresh.
AlarmAfresh(t) == [vrtc_alarm EXCEPT ![t] = 0]

\* sys_execute of another program, which inherits IF = 0.
SysExecute(t) ==
  /\ Proceeds(t, "user")
  /\ user_if' = [user_if EXCEPT ![t] = FALSE]
  /\ vrtc_alarm' = AlarmAfresh(t)
  /\ UNCHANGED <<controller, serving, running, at, keyboard_wait_flag, vrtc_counter, fpu,
                 asked, waited>>

\* unified_exception_handler, for an exception of user code, waits for ENTER with
\* IF = 1, and leaves IF set for the signal that follows.
ExceptionWaits(t) ==
  /\ Proceeds(t, "user")
  /\ keyboard_wait_flag' = TRUE
  /\ at' = [at EXCEPT ![t] = "call"]
  /\ UNCHANGED <<controller, serving, running, user_if, clock, fpu, history>>

\* The front process of t ends, by sys_halt or by a signal that an interrupt or
\* the way out of a call dispatches, wherever it is.  What it has on the x87 stack
\* stays there.
Halts(t) ==
  /\ running = t /\ serving = NoIrq /\ ~keyboard_wait_flag
  /\ CompareUndisturbed
  /\ \E if \in BOOLEAN : user_if' = [user_if EXCEPT ![t] = if]
  /\ asked' = [asked EXCEPT ![t] = 0]
  /\ waited' = [waited EXCEPT ![t] = 0]
  /\ UNCHANGED <<controller, serving, running, keyboard_wait_flag, vrtc_counter, fpu>>

\* Its parent's sys_execute returns.
HaltsToParent(t) ==
  /\ Halts(t)
  /\ at' = [at EXCEPT ![t] = "call"]
  /\ UNCHANGED vrtc_alarm

\* The shell is started again.
RestartsShell(t) ==
  /\ Halts(t)
  /\ at' = [at EXCEPT ![t] = "user"]
  /\ vrtc_alarm' = AlarmAfresh(t)

-----------------------------------------------------------------------------
\* The first shell runs, with IF = 1: kernel.c has initialised the controllers and
\* the RTC and called switchTerminalInit(0).
Init ==
  /\ pending = {} /\ in_service = {}
  /\ serving = NoIrq
  /\ running = 0
  /\ at = [t \in Terminal |-> IF t = 0 THEN "user" ELSE "off"]
  /\ user_if = [t \in Terminal |-> t = 0]
  /\ keyboard_wait_flag = FALSE
  /\ vrtc_counter = [t \in Terminal |-> 0]
  /\ vrtc_alarm = [t \in Terminal |-> 0]
  /\ fpu = <<>>
  /\ asked = [t \in Terminal |-> 0]
  /\ waited = [t \in Terminal |-> 0]

Keyboard == (\E t \in Terminal : KeySwitches(t)) \/ KeyWaits \/ KeyConfirms \/ KeyIgnored

\* What a program does that has the CPU.
Calls(t) ==
  \/ CallRuns(t) \/ CallReturns(t) \/ SysExecute(t)
  \/ \E freq \in Frequencies : rtc_read(t, freq)

Next ==
  \/ \E irq \in Device : Raise(irq) \/ TakeInterrupt(irq)
  \/ pit_handle
  \/ Keyboard
  \/ rtc_handle
  \/ \E t \in Terminal :
       \/ Calls(t)
       \/ LoadCounter(t) \/ CompareCounter(t)
       \/ ExceptionWaits(t) \/ HaltsToParent(t) \/ RestartsShell(t)

Spec == Init /\ [][Next]_vars

-----------------------------------------------------------------------------
TypeOK ==
  /\ pending \subseteq Device
  /\ in_service \subseteq Device \cup {SLAVE_IRQ}
  /\ serving \in Device \cup {NoIrq}
  /\ running \in Terminal
  /\ at \in [Terminal -> Location]
  /\ user_if \in [Terminal -> BOOLEAN]
  /\ keyboard_wait_flag \in BOOLEAN
  /\ vrtc_counter \in [Terminal -> Int]
  /\ \A t \in Terminal : vrtc_counter[t] > -RTC_FACTOR
  /\ vrtc_alarm \in [Terminal -> 0 .. RTC_ALARM_THERSHOLD - 1]
  /\ fpu \in Seq(Int) /\ Len(fpu) <= FPU_PAIRS
  /\ asked \in [Terminal -> Nat]
  /\ waited \in [Terminal -> Nat]

\* Whenever the CPU takes interrupts, the controllers let all of them through: no
\* handler has left its own in service when it switched to another process,
\* started a shell, or waits for a key.
NothingInService == Interruptible => in_service = {}

\* A process that returns from rtc_read ("Return when VRTC counter is reset") has
\* waited for its period, whatever other terminals read meanwhile, however long it
\* was switched out, and whichever process used the terminal's counter before.
ReadWaitsItsPeriod ==
  [][\A t \in Terminal : CompareCounter(t) /\ at'[t] = "call" =>
       RTC_FACTOR * waited[t] >= asked[t]]_vars

\* And no longer: the counter of a terminal that reads is used up exactly when its
\* period is over, whoever runs at each of the interrupts and reads besides.
CounterExact ==
  \A t \in Terminal : at[t] \in {"load", "compare"} =>
    (vrtc_counter[t] > 0 <=> RTC_FACTOR * waited[t] < asked[t])
=============================================================================
