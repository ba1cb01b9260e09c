-------------------------- MODULE InterruptsProofs --------------------------
(***************************************************************************)
(* For any number of terminals, any frequencies and any alarm threshold:   *)
(* no interrupt stays in service, and, as long as no read loses the CPU    *)
(* between its load and its compare, rtc_read waits for its period, no     *)
(* shorter and no longer.                                                  *)
(***************************************************************************)
EXTENDS Interrupts, TLAPS

\* What the EOIs leave: at most the IRQ whose handler runs.
Service ==
  in_service = IF serving = NoIrq THEN {} ELSE {serving, MasterLine(serving)}

\* Only the running process has something on the x87 stack, its own counter, which
\* may have gone down since.
Compares ==
  /\ \A t \in Terminal : at[t] = "compare" => t = running
  /\ at[running] = "compare" =>
       /\ serving \in {NoIrq, RTC_IRQ}
       /\ \E value \in Int : fpu = <<value>> /\ (value > 0 \/ vrtc_counter[running] <= 0)
  /\ at[running] # "compare" => fpu = <<>>

\* How the counter of a terminal that reads relates to the time it has waited.
CounterOf(n, ask, done) ==
  /\ n > 0 => n = ask - RTC_FACTOR * done
  /\ n <= 0 => RTC_FACTOR * done >= ask
Counters ==
  \A t \in Terminal : at[t] \in {"load", "compare"} =>
    CounterOf(vrtc_counter[t], asked[t], waited[t])

IInv == TypeOK /\ Service /\ Compares /\ Counters

-----------------------------------------------------------------------------
(* Arithmetic and sets.                                                    *)

LEMMA ZeroIsTerminal == 0 \in Terminal
  BY InterruptsAssumption DEF Terminal

LEMMA NextIsTerminal ==
  ASSUME running \in Terminal PROVE (running + 1) % TERMINAL_COUNT \in Terminal
<1>1. TERMINAL_COUNT \in Nat /\ TERMINAL_COUNT > 0 /\ running \in Nat
  BY InterruptsAssumption DEF Terminal
<1>2. (running + 1) % TERMINAL_COUNT \in 0 .. TERMINAL_COUNT - 1
  BY <1>1
<1> QED BY <1>2 DEF Terminal

\* A period is a number of quarters.
LEMMA PeriodIsNat == ASSUME NEW freq \in Frequencies PROVE Period(freq) \in Nat
<1>1. freq \in Nat \ {0}
  BY InterruptsAssumption
<1>2. 1024 \div freq \in Nat
  BY <1>1
<1> QED BY <1>2 DEF Period

\* An EOI leaves nothing in service of what taking the interrupt put there.
LEMMA EoiClears ==
  ASSUME Service, serving # NoIrq
  PROVE  send_eoi(serving) = {}
  BY DEF Service, send_eoi

\* One interrupt takes one from both sides of the relation.
LEMMA OneInterrupt ==
  ASSUME NEW n \in Int, NEW ask \in Nat, NEW done \in Nat, CounterOf(n, ask, done)
  PROVE  CounterOf(IF n > 0 THEN n - RTC_FACTOR ELSE n, ask, Capped(done, ask))
  BY DEF CounterOf, Capped, RTC_FACTOR

-----------------------------------------------------------------------------
(* The steps.                                                              *)

LEMMA InitInv == Init => IInv
<1> SUFFICES ASSUME Init PROVE IInv
  OBVIOUS
<1>1. TypeOK
  BY InterruptsAssumption, ZeroIsTerminal
  DEF Init, TypeOK, Location, RTC_FACTOR, FPU_PAIRS
<1>2. Service
  BY DEF Init, Service
<1>3. Compares /\ Counters
  BY ZeroIsTerminal DEF Init, Compares, Counters
<1> QED BY <1>1, <1>2, <1>3 DEF IInv

LEMMA RaiseInv ==
  ASSUME IInv, NEW irq \in Device, Raise(irq)
  PROVE  IInv'
<1>1. TypeOK' BY DEF IInv, TypeOK, Raise, program, clock, history
<1>2. Service' BY DEF IInv, Service, Raise
<1>3. Compares' /\ Counters'
  BY DEF IInv, Compares, Counters, Raise, program, clock, history
<1> QED BY <1>1, <1>2, <1>3 DEF IInv

LEMMA TakeInterruptInv ==
  ASSUME IInv, ~PreemptCompare, NEW irq \in Device, TakeInterrupt(irq)
  PROVE  IInv'
<1>0. irq # NoIrq /\ MasterLine(irq) \in Device \cup {SLAVE_IRQ}
  BY DEF Device, NoIrq, MasterLine, PIT_IRQ, KEYBOARD_IRQ, RTC_IRQ, SLAVE_IRQ
<1>1. TypeOK' BY <1>0 DEF IInv, TypeOK, TakeInterrupt, program, clock, history
<1>2. Service' BY <1>0 DEF IInv, Service, TakeInterrupt, Interruptible
<1>3. at[running] = "compare" => serving' \in {NoIrq, RTC_IRQ}
  BY DEF TakeInterrupt, CompareUndisturbed
<1>4. Compares' /\ Counters'
  BY <1>3 DEF IInv, Compares, Counters, TakeInterrupt, program, clock, history
<1> QED BY <1>1, <1>2, <1>4 DEF IInv

\* A handler that goes to another process and has sent its EOI.
LEMMA SwitchInv ==
  ASSUME IInv, NEW t \in Terminal, switchContext(t),
         serving \in {PIT_IRQ, KEYBOARD_IRQ}, serving' = NoIrq, in_service' = {},
         UNCHANGED <<pending, user_if, keyboard_wait_flag, vrtc_counter, fpu, asked, waited>>
  PROVE  IInv'
<1>1. at[running] # "compare"
  BY DEF IInv, Compares, PIT_IRQ, KEYBOARD_IRQ, RTC_IRQ, NoIrq
<1>2. \A u \in Terminal : at'[u] = "compare" <=> at[u] = "compare"
  BY DEF IInv, TypeOK, switchContext
<1>3. \A u \in Terminal : at'[u] = "load" <=> at[u] = "load"
  BY DEF IInv, TypeOK, switchContext
<1>4. TypeOK'
  <2>1. at' \in [Terminal -> Location]
    BY DEF IInv, TypeOK, switchContext, Location
  <2>2. vrtc_alarm' \in [Terminal -> 0 .. RTC_ALARM_THERSHOLD - 1]
    BY InterruptsAssumption DEF IInv, TypeOK, switchContext
  <2> QED BY <2>1, <2>2 DEF IInv, TypeOK, switchContext
<1>5. Service'
  BY DEF Service
<1>6. \A u \in Terminal : at[u] # "compare"
  BY <1>1 DEF IInv, Compares
<1>7. Compares'
  BY <1>1, <1>2, <1>6 DEF IInv, Compares, switchContext
<1>8. Counters'
  BY <1>2, <1>3 DEF IInv, Counters
<1> QED BY <1>4, <1>5, <1>7, <1>8 DEF IInv

\* A handler that returns to the process that it interrupted.
LEMMA ReturnInv ==
  ASSUME IInv, serving # NoIrq, serving' = NoIrq, in_service' = {},
         keyboard_wait_flag' \in BOOLEAN,
         UNCHANGED <<pending, running, at, user_if, vrtc_counter, vrtc_alarm, fpu, asked, waited>>
  PROVE  IInv'
<1>1. TypeOK' BY DEF IInv, TypeOK
<1>2. Service' BY DEF Service
<1>3. Compares' /\ Counters' BY DEF IInv, Compares, Counters
<1> QED BY <1>1, <1>2, <1>3 DEF IInv

LEMMA PitHandleInv == ASSUME IInv, pit_handle PROVE IInv'
<1>1. serving = PIT_IRQ /\ serving # NoIrq /\ serving' = NoIrq
  BY DEF pit_handle, PIT_IRQ, NoIrq
<1>2. send_eoi(PIT_IRQ) = {}
  BY <1>1, EoiClears DEF IInv
<1>3. CASE keyboard_wait_flag
  <2>1. in_service' = {} /\ UNCHANGED <<pending, running, at, user_if, keyboard_wait_flag,
                                        vrtc_counter, vrtc_alarm, fpu, asked, waited>>
    BY <1>2, <1>3 DEF pit_handle
  <2> QED BY <1>1, <2>1, ReturnInv DEF IInv, TypeOK
<1>4. CASE ~keyboard_wait_flag
  <2>1. PICK t \in Terminal : t = (running + 1) % TERMINAL_COUNT
    BY NextIsTerminal DEF IInv, TypeOK
  <2>2. in_service' = {} /\ switchContext(t)
        /\ UNCHANGED <<pending, user_if, keyboard_wait_flag, vrtc_counter, fpu, asked, waited>>
    BY <1>2, <1>4, <2>1 DEF pit_handle, EoiBeforeSwitch
  <2> QED BY <1>1, <2>2, SwitchInv
<1> QED BY <1>3, <1>4

LEMMA KeyboardInv == ASSUME IInv, Keyboard PROVE IInv'
<1>1. serving = KEYBOARD_IRQ /\ serving # NoIrq /\ serving' = NoIrq
      /\ in_service' = send_eoi(KEYBOARD_IRQ)
      /\ UNCHANGED <<pending, vrtc_counter, user_if, fpu, asked, waited>>
  BY DEF Keyboard, KeySwitches, KeyWaits, KeyConfirms, KeyIgnored, KeyboardHandled,
         KEYBOARD_IRQ, NoIrq
<1>2. in_service' = {}
  BY <1>1, EoiClears DEF IInv
<1>3. CASE \E t \in Terminal : KeySwitches(t)
  <2>1. PICK t \in Terminal : KeySwitches(t)
    BY <1>3
  <2>2. switchContext(t) /\ UNCHANGED keyboard_wait_flag
    BY <2>1 DEF KeySwitches
  <2> QED BY <1>1, <1>2, <2>2, SwitchInv
<1>4. CASE KeyWaits \/ KeyConfirms \/ KeyIgnored
  <2>1. keyboard_wait_flag' \in BOOLEAN /\ UNCHANGED <<running, at, vrtc_alarm>>
    BY <1>4 DEF KeyWaits, KeyConfirms, KeyIgnored, IInv, TypeOK
  <2> QED BY <1>1, <1>2, <2>1, ReturnInv
<1> QED BY <1>3, <1>4 DEF Keyboard

LEMMA RtcHandleInv == ASSUME IInv, rtc_handle PROVE IInv'
<1>1. serving = RTC_IRQ /\ serving # NoIrq /\ serving' = NoIrq
  BY DEF rtc_handle, RTC_IRQ, NoIrq
<1>2. in_service' = {}
  BY <1>1, EoiClears DEF IInv, rtc_handle
<1>3. \A t \in Terminal :
        /\ vrtc_counter'[t] = (IF vrtc_counter[t] > 0 THEN vrtc_counter[t] - RTC_FACTOR
                                                      ELSE vrtc_counter[t])
        /\ waited'[t] = Capped(waited[t], asked[t])
  BY DEF rtc_handle, CountsDown
<1>4. TypeOK'
  <2>1. vrtc_counter' \in [Terminal -> Int] /\ \A t \in Terminal : vrtc_counter'[t] > -RTC_FACTOR
    BY DEF IInv, TypeOK, rtc_handle, CountsDown, RTC_FACTOR
  <2>2. vrtc_alarm' \in [Terminal -> 0 .. RTC_ALARM_THERSHOLD - 1]
    BY InterruptsAssumption DEF IInv, TypeOK, rtc_handle, CountsUp, AlarmRings, RTC_FACTOR
  <2>3. waited' \in [Terminal -> Nat]
    BY DEF IInv, TypeOK, rtc_handle, Capped
  <2> QED BY <1>1, <1>2, <2>1, <2>2, <2>3 DEF IInv, TypeOK, rtc_handle, program
<1>5. Service'
  BY <1>1, <1>2 DEF Service
<1>6. Compares'
  <2>1. vrtc_counter[running] <= 0 => vrtc_counter'[running] <= 0
    BY <1>3 DEF IInv, TypeOK
  <2>2. UNCHANGED <<at, running, fpu>>
    BY DEF rtc_handle, program
  <2> QED BY <1>1, <2>1, <2>2 DEF IInv, Compares
<1>7. Counters'
  <2>1. SUFFICES ASSUME NEW t \in Terminal, at[t] \in {"load", "compare"}
                 PROVE  CounterOf(vrtc_counter'[t], asked[t], waited'[t])
    BY DEF Counters, rtc_handle, program
  <2>2. CounterOf(vrtc_counter[t], asked[t], waited[t])
    BY <2>1 DEF IInv, Counters
  <2>3. vrtc_counter[t] \in Int /\ asked[t] \in Nat /\ waited[t] \in Nat
    BY DEF IInv, TypeOK
  <2> QED BY <1>3, <2>2, <2>3, OneInterrupt
<1> QED BY <1>4, <1>5, <1>6, <1>7 DEF IInv

\* A step of the running process between other places than load and compare.
LEMMA CallInv ==
  ASSUME IInv, NEW t \in Terminal, running = t, NEW to \in {"user", "call"},
         at[t] # "compare", at' = [at EXCEPT ![t] = to],
         user_if' \in [Terminal -> BOOLEAN], keyboard_wait_flag' \in BOOLEAN,
         vrtc_alarm' \in [Terminal -> 0 .. RTC_ALARM_THERSHOLD - 1],
         asked' \in [Terminal -> Nat], waited' \in [Terminal -> Nat],
         \A u \in Terminal : u # t => asked'[u] = asked[u] /\ waited'[u] = waited[u],
         UNCHANGED <<controller, serving, running, vrtc_counter, fpu>>
  PROVE  IInv'
<1>1. at' \in [Terminal -> Location] /\ at'[t] = to
      /\ \A u \in Terminal : u # t => at'[u] = at[u]
  BY DEF IInv, TypeOK, Location
<1>2. TypeOK' BY <1>1 DEF IInv, TypeOK, controller
<1>3. Service' BY DEF IInv, Service, controller
<1>4. Compares' BY <1>1 DEF IInv, Compares, controller
<1>5. Counters' BY <1>1 DEF IInv, Counters
<1> QED BY <1>2, <1>3, <1>4, <1>5 DEF IInv

LEMMA RtcReadInv ==
  ASSUME IInv, NEW t \in Terminal, NEW freq \in Frequencies, rtc_read(t, freq)
  PROVE  IInv'
<1>1. running = t /\ at[t] = "user" /\ at' \in [Terminal -> Location] /\ at'[t] = "load"
      /\ \A u \in Terminal : u # t => at'[u] = at[u]
  BY DEF IInv, TypeOK, Location, rtc_read, Moves, Proceeds
<1>2. Period(freq) \in Nat
  BY PeriodIsNat
<1>3. vrtc_counter' \in [Terminal -> Int] /\ vrtc_counter'[t] = Period(freq)
      /\ \A u \in Terminal : u # t => vrtc_counter'[u] = vrtc_counter[u]
  BY <1>2 DEF IInv, TypeOK, rtc_read, SetsOwn
<1>4. asked' \in [Terminal -> Nat] /\ asked'[t] = Period(freq)
      /\ waited' \in [Terminal -> Nat] /\ waited'[t] = 0
      /\ \A u \in Terminal : u # t => asked'[u] = asked[u] /\ waited'[u] = waited[u]
  BY <1>2 DEF IInv, TypeOK, rtc_read
<1>5. TypeOK'
  <2>1. \A u \in Terminal : vrtc_counter'[u] > -RTC_FACTOR
    <3>1. \A u \in Terminal : vrtc_counter[u] > -RTC_FACTOR
      BY DEF IInv, TypeOK
    <3>2. vrtc_counter'[t] > -RTC_FACTOR
      BY <1>2, <1>3 DEF RTC_FACTOR
    <3> QED BY <1>3, <3>1, <3>2
  <2> QED BY <1>1, <1>3, <1>4, <2>1 DEF IInv, TypeOK, rtc_read, Moves, controller
<1>6. Service' BY DEF IInv, Service, rtc_read, Moves, controller
<1>7. Compares' BY <1>1 DEF IInv, Compares, rtc_read, Moves
<1>8. Counters'
  <2>1. CounterOf(Period(freq), Period(freq), 0)
    BY <1>2 DEF CounterOf, RTC_FACTOR
  <2> QED BY <1>1, <1>3, <1>4, <2>1 DEF IInv, Counters
<1> QED BY <1>5, <1>6, <1>7, <1>8 DEF IInv

LEMMA LoadCounterInv ==
  ASSUME IInv, NEW t \in Terminal, LoadCounter(t)
  PROVE  IInv'
<1>1. running = t /\ at[t] = "load" /\ at' \in [Terminal -> Location] /\ at'[t] = "compare"
      /\ serving = NoIrq /\ \A u \in Terminal : u # t => at'[u] = at[u]
  BY DEF IInv, TypeOK, Location, LoadCounter, Moves, Proceeds
<1>2. vrtc_counter[t] \in Int /\ fpu = <<>>
  BY <1>1 DEF IInv, TypeOK, Compares
<1>3. fpu' = <<vrtc_counter[t]>>
  BY <1>2 DEF LoadCounter
<1>4. fpu' \in Seq(Int) /\ Len(fpu') <= FPU_PAIRS
  BY <1>2, <1>3 DEF FPU_PAIRS
<1>5. TypeOK' BY <1>1, <1>4 DEF IInv, TypeOK, LoadCounter, Moves, controller, history
<1>6. Service' BY DEF IInv, Service, LoadCounter, Moves, controller
<1>7. Compares'
  BY <1>1, <1>2, <1>3 DEF IInv, Compares, LoadCounter, Moves
<1>8. Counters' BY <1>1 DEF IInv, Counters, LoadCounter, history
<1> QED BY <1>5, <1>6, <1>7, <1>8 DEF IInv

\* What CompareCounter finds on top of the stack is the process's own, and nothing is
\* below it.
LEMMA ComparesOwn ==
  ASSUME IInv, NEW t \in Terminal, CompareCounter(t)
  PROVE  /\ SubSeq(fpu, 1, Len(fpu) - 1) = <<>>
         /\ fpu[Len(fpu)] \in Int
         /\ fpu[Len(fpu)] <= 0 => vrtc_counter[t] <= 0
<1>1. running = t /\ at[t] = "compare"
  BY DEF CompareCounter, Moves, Proceeds
<1>2. PICK value \in Int : fpu = <<value>> /\ (value > 0 \/ vrtc_counter[t] <= 0)
  BY <1>1 DEF IInv, Compares
<1>3. Len(fpu) = 1 /\ fpu[1] = value
  BY <1>2
<1>4. SubSeq(fpu, 1, 0) = <<>>
  BY <1>2
<1> QED BY <1>2, <1>3, <1>4

LEMMA CompareCounterInv ==
  ASSUME IInv, NEW t \in Terminal, CompareCounter(t)
  PROVE  IInv'
<1>1. running = t /\ at[t] = "compare" /\ at' \in [Terminal -> Location]
      /\ at'[t] \in {"load", "call"} /\ \A u \in Terminal : u # t => at'[u] = at[u]
  BY DEF IInv, TypeOK, Location, CompareCounter, Moves, Proceeds
<1>2. fpu' = <<>>
  BY ComparesOwn DEF CompareCounter
<1>3. at'[t] = "load" => asked'[t] = asked[t] /\ waited'[t] = waited[t]
  BY DEF IInv, TypeOK, CompareCounter, Moves
<1>4. asked' \in [Terminal -> Nat] /\ waited' \in [Terminal -> Nat]
      /\ \A u \in Terminal : u # t => asked'[u] = asked[u] /\ waited'[u] = waited[u]
  BY DEF IInv, TypeOK, CompareCounter
<1>5. TypeOK'
  BY <1>1, <1>2, <1>4 DEF IInv, TypeOK, CompareCounter, Moves, controller, FPU_PAIRS
<1>6. Service' BY DEF IInv, Service, CompareCounter, Moves, controller
<1>7. Compares' BY <1>1, <1>2 DEF IInv, Compares, CompareCounter, Moves
<1>8. Counters' BY <1>1, <1>3, <1>4 DEF IInv, Counters, CompareCounter
<1> QED BY <1>5, <1>6, <1>7, <1>8 DEF IInv

LEMMA ProgramInv ==
  ASSUME IInv, NEW t \in Terminal,
         CallRuns(t) \/ CallReturns(t) \/ SysExecute(t) \/ ExceptionWaits(t)
  PROVE  IInv'
<1>1. running = t /\ at[t] \in {"user", "call"}
  BY DEF CallRuns, CallReturns, SysExecute, ExceptionWaits, Moves, Proceeds
<1>2. PICK to \in {"user", "call"} : at' = [at EXCEPT ![t] = to]
  <2>1. SysExecute(t) => at' = [at EXCEPT ![t] = "user"]
    BY DEF SysExecute, Proceeds, IInv, TypeOK
  <2> QED BY <2>1 DEF CallRuns, CallReturns, ExceptionWaits, Moves
<1>3. user_if' \in [Terminal -> BOOLEAN] /\ keyboard_wait_flag' \in BOOLEAN
  BY DEF CallRuns, CallReturns, SysExecute, ExceptionWaits, Moves, IInv, TypeOK
<1>4. vrtc_alarm' \in [Terminal -> 0 .. RTC_ALARM_THERSHOLD - 1]
  <2>1. 0 \in 0 .. RTC_ALARM_THERSHOLD - 1
    BY InterruptsAssumption
  <2>2. vrtc_alarm \in [Terminal -> 0 .. RTC_ALARM_THERSHOLD - 1]
    BY DEF IInv, TypeOK
  <2>3. vrtc_alarm' = vrtc_alarm \/ vrtc_alarm' = [vrtc_alarm EXCEPT ![t] = 0]
    BY DEF CallRuns, CallReturns, SysExecute, ExceptionWaits, Moves, AlarmAfresh, clock
  <2> QED BY <2>1, <2>2, <2>3
<1>5. UNCHANGED <<asked, waited, controller, serving, running, vrtc_counter, fpu>>
  BY DEF CallRuns, CallReturns, SysExecute, ExceptionWaits, Moves, clock, history
<1>6. asked' \in [Terminal -> Nat] /\ waited' \in [Terminal -> Nat]
  BY <1>5 DEF IInv, TypeOK
<1> QED BY <1>1, <1>2, <1>3, <1>4, <1>5, <1>6, CallInv

LEMMA HaltsInv ==
  ASSUME IInv, ~PreemptCompare, NEW t \in Terminal, HaltsToParent(t) \/ RestartsShell(t)
  PROVE  IInv'
<1>1. running = t /\ at[t] # "compare" /\ Halts(t)
  BY DEF HaltsToParent, RestartsShell, Halts, CompareUndisturbed
<1>2. PICK to \in {"user", "call"} : at' = [at EXCEPT ![t] = to]
  BY DEF HaltsToParent, RestartsShell
<1>3. user_if' \in [Terminal -> BOOLEAN] /\ keyboard_wait_flag' \in BOOLEAN
  BY <1>1 DEF Halts, IInv, TypeOK
<1>4. vrtc_alarm' \in [Terminal -> 0 .. RTC_ALARM_THERSHOLD - 1]
  <2>1. 0 \in 0 .. RTC_ALARM_THERSHOLD - 1
    BY InterruptsAssumption
  <2>2. vrtc_alarm \in [Terminal -> 0 .. RTC_ALARM_THERSHOLD - 1]
    BY DEF IInv, TypeOK
  <2>3. vrtc_alarm' = vrtc_alarm \/ vrtc_alarm' = [vrtc_alarm EXCEPT ![t] = 0]
    BY DEF HaltsToParent, RestartsShell, AlarmAfresh
  <2> QED BY <2>1, <2>2, <2>3
<1>5. asked' \in [Terminal -> Nat] /\ waited' \in [Terminal -> Nat]
      /\ \A u \in Terminal : u # t => asked'[u] = asked[u] /\ waited'[u] = waited[u]
  BY <1>1 DEF Halts, IInv, TypeOK
<1>6. UNCHANGED <<controller, serving, running, vrtc_counter, fpu>>
  BY <1>1 DEF Halts
<1> QED BY <1>1, <1>2, <1>3, <1>4, <1>5, <1>6, CallInv

LEMMA StutterInv == ASSUME IInv, UNCHANGED vars PROVE IInv'
<1>1. TypeOK' BY DEF IInv, TypeOK, vars, controller, program, clock, history
<1>2. Service' BY DEF IInv, Service, vars, controller
<1>3. Compares' /\ Counters'
  BY DEF IInv, Compares, Counters, vars, controller, program, clock, history
<1> QED BY <1>1, <1>2, <1>3 DEF IInv

-----------------------------------------------------------------------------
\* No read loses the CPU between its load and its compare.
Undisturbed == ~PreemptCompare

LEMMA StepInv == ASSUME Undisturbed, IInv, [Next]_vars PROVE IInv'
<1>1. ASSUME NEW irq \in Device, Raise(irq) \/ TakeInterrupt(irq) PROVE IInv'
  BY <1>1, RaiseInv, TakeInterruptInv DEF Undisturbed
<1>2. CASE pit_handle BY <1>2, PitHandleInv
<1>3. CASE Keyboard BY <1>3, KeyboardInv
<1>4. CASE rtc_handle BY <1>4, RtcHandleInv
<1>5. ASSUME NEW t \in Terminal, Calls(t) PROVE IInv'
  BY <1>5, ProgramInv, RtcReadInv DEF Calls
<1>6. ASSUME NEW t \in Terminal, LoadCounter(t) \/ CompareCounter(t) PROVE IInv'
  BY <1>6, LoadCounterInv, CompareCounterInv
<1>7. ASSUME NEW t \in Terminal, ExceptionWaits(t) \/ HaltsToParent(t) \/ RestartsShell(t)
      PROVE  IInv'
  BY <1>7, ProgramInv, HaltsInv DEF Undisturbed
<1>8. CASE UNCHANGED vars BY <1>8, StutterInv
<1> QED BY <1>1, <1>2, <1>3, <1>4, <1>5, <1>6, <1>7, <1>8 DEF Next

LEMMA Invariance == ASSUME Undisturbed PROVE Spec => []IInv
<1>1. IInv /\ [Next]_vars => IInv'
  BY StepInv
<1> QED BY <1>1, InitInv, PTL DEF Spec

\* Type correctness: the counters end just below 0, the alarm counters below the
\* threshold.
THEOREM TypeCorrect == ASSUME Undisturbed PROVE Spec => []TypeOK
<1>1. IInv => TypeOK BY DEF IInv
<1> QED BY <1>1, Invariance, PTL

\* No handler leaves an interrupt in service behind, whatever it switches to: once
\* it is left, the controllers let everything through, disturbed reads or not.
THEOREM InterruptsStayOpen == Spec => []NothingInService
<1>1. Init => Service
  BY DEF Init, Service
<1>2. ASSUME Service, [Next]_vars PROVE Service'
  <2>1. ASSUME NEW irq \in Device, TakeInterrupt(irq) PROVE Service'
    <3>1. irq # NoIrq
      BY DEF Device, NoIrq, PIT_IRQ, KEYBOARD_IRQ, RTC_IRQ
    <3> QED BY <1>2, <2>1, <3>1 DEF Service, TakeInterrupt, Interruptible
  <2>2. CASE pit_handle
    <3>1. serving = PIT_IRQ /\ serving # NoIrq /\ serving' = NoIrq
      BY <2>2 DEF pit_handle, PIT_IRQ, NoIrq
    <3>2. in_service' = send_eoi(PIT_IRQ)
      BY <2>2 DEF pit_handle, EoiBeforeSwitch
    <3> QED BY <1>2, <3>1, <3>2, EoiClears DEF Service
  <2>3. CASE Keyboard
    <3>1. KeyboardHandled
      BY <2>3 DEF Keyboard, KeySwitches, KeyWaits, KeyConfirms, KeyIgnored
    <3>2. serving = KEYBOARD_IRQ /\ serving # NoIrq /\ serving' = NoIrq
          /\ in_service' = send_eoi(KEYBOARD_IRQ)
      BY <3>1 DEF KeyboardHandled, KEYBOARD_IRQ, NoIrq
    <3> QED BY <1>2, <3>2, EoiClears DEF Service
  <2>4. CASE rtc_handle
    <3>1. serving = RTC_IRQ /\ serving # NoIrq /\ serving' = NoIrq
          /\ in_service' = send_eoi(RTC_IRQ)
      BY <2>4 DEF rtc_handle, RTC_IRQ, NoIrq
    <3> QED BY <1>2, <3>1, EoiClears DEF Service
  <2>5. CASE UNCHANGED <<in_service, serving>>
    BY <1>2, <2>5 DEF Service
  <2>6. ASSUME NEW irq \in Device, Raise(irq) PROVE UNCHANGED <<in_service, serving>>
    BY <2>6 DEF Raise
  <2>7. ASSUME NEW t \in Terminal,
               \/ Calls(t) \/ LoadCounter(t) \/ CompareCounter(t)
               \/ ExceptionWaits(t) \/ HaltsToParent(t) \/ RestartsShell(t)
        PROVE  UNCHANGED <<in_service, serving>>
    BY <2>7 DEF Calls, CallRuns, CallReturns, SysExecute, rtc_read, LoadCounter, CompareCounter,
                ExceptionWaits, HaltsToParent, RestartsShell, Halts, Moves, controller
  <2>8. UNCHANGED vars => UNCHANGED <<in_service, serving>>
    BY DEF vars, controller
  <2> QED BY <1>2, <2>1, <2>2, <2>3, <2>4, <2>5, <2>6, <2>7, <2>8 DEF Next
<1>3. Service => NothingInService
  BY DEF Service, NothingInService, Interruptible
<1>4. Service /\ [Next]_vars => Service'
  BY <1>2
<1> QED BY <1>1, <1>3, <1>4, PTL DEF Spec

\* The counter of a terminal that reads is used up exactly when its period is over.
THEOREM CountersExact == ASSUME Undisturbed PROVE Spec => []CounterExact
<1>1. ASSUME IInv PROVE CounterExact
  <2>1. SUFFICES ASSUME NEW t \in Terminal, at[t] \in {"load", "compare"}
                 PROVE  vrtc_counter[t] > 0 <=> RTC_FACTOR * waited[t] < asked[t]
    BY DEF CounterExact
  <2>2. vrtc_counter[t] \in Int /\ asked[t] \in Nat /\ waited[t] \in Nat
    BY <1>1 DEF IInv, TypeOK
  <2>3. CounterOf(vrtc_counter[t], asked[t], waited[t])
    BY <1>1, <2>1 DEF IInv, Counters
  <2> QED BY <2>2, <2>3 DEF CounterOf, RTC_FACTOR
<1> QED BY <1>1, Invariance, PTL

\* rtc_read returns only after its period.
THEOREM ReadsWait == ASSUME Undisturbed PROVE Spec => ReadWaitsItsPeriod
<1>1. ASSUME IInv, [Next]_vars, NEW t \in Terminal, CompareCounter(t), at'[t] = "call"
      PROVE  RTC_FACTOR * waited[t] >= asked[t]
  <2>1. at[t] = "compare" /\ ~Spins(fpu[Len(fpu)])
    BY <1>1 DEF IInv, TypeOK, CompareCounter, Moves, Proceeds
  <2>2. vrtc_counter[t] <= 0
    BY <1>1, <2>1, ComparesOwn DEF Spins
  <2>3. CounterOf(vrtc_counter[t], asked[t], waited[t])
    BY <1>1, <2>1 DEF IInv, Counters
  <2> QED BY <2>2, <2>3 DEF CounterOf
<1>2. IInv /\ [Next]_vars =>
        [\A t \in Terminal : CompareCounter(t) /\ at'[t] = "call" =>
           RTC_FACTOR * waited[t] >= asked[t]]_vars
  BY <1>1
<1> QED BY <1>2, Invariance, PTL DEF Spec, ReadWaitsItsPeriod
=============================================================================
