------------------------------ MODULE Signals -------------------------------
(***************************************************************************)
(* Signals of one process: sig_set, sig_dispatch on every way back to user *)
(* code, custom handlers and sys_sigreturn (signals.c, syscalls.c,         *)
(* linkage.S, exceptions.c).                                               *)
(*                                                                         *)
(* A handler runs in user mode with the kernel stack empty, so what it     *)
(* calls overwrites the frames of whatever it interrupted; sig_stackshot   *)
(* keeps a copy of them.  Here the frames of the kernel stack are the      *)
(* entries from user or kernel code, outermost first, and kstack is the    *)
(* memory: frames past `depth' are left over, until they are overwritten.  *)
(* The copy has 27 words and a size of one byte: what is longer goes on    *)
(* into file_descriptor, and is cut at 256 bytes.                          *)
(*                                                                         *)
(* The time that other processes run is part of the interrupt that         *)
(* switches this one out, whose return is the first thing it does again:   *)
(* signals arrive in that time only.                                       *)
(***************************************************************************)
EXTENDS Integers, Sequences, FiniteSetsExt, SequencesExt

CONSTANTS
  Custom,            \* the signals a program may handle itself
  Results,           \* what system calls return
  HandlerFaults,     \* can a custom handler cause an exception?
  InnerBytes,        \* of C frames between two entries: a constant of the build
  MaxDepth           \* bound: entries that are live at a time

\* signals.h
SEGFAULT == 1
INTERRUPT == 2
ALARM == 3
SYSKILL == 5                    \* a number too high for a custom handler
NULLSIG == 255
Exceptions == {SEGFAULT}        \* DIV_ZERO, 0, goes the same way
FromInterrupts == {INTERRUPT, ALARM}
Signal == Exceptions \cup FromInterrupts \cup {SYSKILL}
Kills == Exceptions \cup {INTERRUPT, SYSKILL}

ASSUME SignalsAssumption ==
  /\ Custom \subseteq Signal \ {SYSKILL}
  /\ Results # {}
  /\ HandlerFaults \in BOOLEAN
  /\ InnerBytes \in Nat
  /\ MaxDepth \in Nat \ {0}

VARIABLES
  sig_pending, sig_mask, sig_handlers,
  sig_stackshot, sig_eax,     \* the saved frames and result
  sig_stacksize,              \* uint8_t: how many bytes of them
  spilled,                    \* file_descriptor is overwritten by them
  kstack, depth,              \* the kernel stack
  user_if,                    \* IF in user code
  handling,                   \* custom handlers that have begun and not returned
  halted,                     \* "no", or why: "call", "signal", "exception";
                              \* "undefined": anything may happen
  halt_status,                \* what the parent gets
  due, result,                \* of the program's call: what it returns, and returned
  sent,                       \* signals since the last dispatch
  faulted                     \* an exception that is neither handled nor fatal yet

pcb == <<sig_pending, sig_mask, sig_handlers>>
saved == <<sig_stackshot, sig_eax, sig_stacksize, spilled>>
stack == <<kstack, depth>>
exit == <<halted, halt_status>>
ghosts == <<due, result, sent, faulted>>
vars == <<pcb, saved, stack, user_if, handling, exit, ghosts>>

-----------------------------------------------------------------------------
(* The kernel stack.  A frame: the way the kernel was entered, how far it   *)
(* has come, IF there, IF where it came from, the result, and the local     *)
(* variable of sig_dispatch.                                                *)

Failed == -1
Outcomes == Results \cup {0, Failed}

Frame == [kind : {"call", "irq", "exception"},
          pc : {"spin", "wait", "signal", "away", "pman", "dispatch", "act", "default",
                "exit"},
          sti : BOOLEAN, back : BOOLEAN, eax : Outcomes,
          pending : Signal \cup {NULLSIG}]

\* n entries: 68 to 88 bytes each with what sig_dispatch has pushed, and the code that
\* was interrupted in between.
ENTRY_BYTES == 80
SHOT_BYTES == 108
StackBytes(n) == n * ENTRY_BYTES + (n - 1) * InnerBytes

Top == kstack[depth]
Live == SubSeq(kstack, 1, depth)

Push(kind, pc, sti, eax) ==
  LET f == [kind |-> kind, pc |-> pc, sti |-> sti, eax |-> eax, pending |-> NULLSIG,
            back |-> IF depth = 0 THEN user_if ELSE Top.sti]
  IN  /\ kstack' = Live \o <<f>> \o SubSeq(kstack, depth + 2, Len(kstack))
      /\ depth' = depth + 1

Becomes(f) == kstack' = [kstack EXCEPT ![depth] = f] /\ UNCHANGED depth

\* What is past the top is dead unless a handler's frames are to be restored.
Pop ==
  /\ depth' = depth - 1
  /\ kstack' = IF handling = 0 THEN Front(Live) ELSE kstack
  /\ user_if' = IF depth = 1 THEN Top.back ELSE user_if

InUser == depth = 0 /\ halted = "no"
InKernel(pc) == depth > 0 /\ halted = "no" /\ Top.pc = pc

\* Where interrupts are taken: sig_dispatch runs with IF = 1 after a wait, and an
\* interrupt between two of its steps does a sig_dispatch of its own.
Interruptible == halted = "no" /\ IF depth = 0 THEN user_if ELSE Top.sti

\* progress: a handler waits for ENTER, or is not yet done with it.
Locks(s) == \E i \in 1 .. Len(s) : s[i].pc \in {"wait", "signal", "pman"}
progress == Locks(Live) \/ (handling > 0 /\ Locks(sig_stackshot))

Undefined ==
  /\ halted' = "undefined"
  /\ UNCHANGED <<pcb, saved, stack, user_if, handling, halt_status, ghosts>>

-----------------------------------------------------------------------------
\* sig_set: a lower number replaces a higher one.  Mutant: the latest signal does.
Latest(s) == s
MoreUrgent(s) == IF sig_pending <= s THEN sig_pending ELSE s
sig_set(s) == sig_pending' = IF sig_mask THEN sig_pending ELSE MoreUrgent(s)

\* A system call that returns r at once, or after a wait with IF = 1 (sys_read).  One
\* that uses file_descriptor needs it as it was.
SysCall(waits, uses, r) ==
  /\ InUser
  /\ uses => ~spilled
  /\ waits => uses
  /\ Push("call", IF waits THEN "spin" ELSE "dispatch", waits, r)
  /\ due' = IF handling = 0 THEN r ELSE due
  /\ UNCHANGED <<pcb, saved, user_if, handling, exit, result, sent, faulted>>

CallSpilled == InUser /\ spilled /\ Undefined

\* A number above 4 is refused.  (One below 0 is not; that is left out.)
sys_set_handler(s, set) ==
  LET r == IF s > 4 THEN Failed ELSE 0
  IN  /\ InUser
      /\ sig_handlers' = IF r = Failed THEN sig_handlers
                         ELSE IF set THEN sig_handlers \cup {s} ELSE sig_handlers \ {s}
      /\ Push("call", "dispatch", FALSE, r)
      /\ due' = IF handling = 0 THEN r ELSE due
      /\ UNCHANGED <<sig_pending, sig_mask, saved, user_if, handling, exit>>
      /\ UNCHANGED <<result, sent, faulted>>

\* A wait, or an interrupt, is over.
WaitEnds ==
  /\ InKernel("spin") \/ InKernel("away")
  /\ Becomes([Top EXCEPT !.pc = "dispatch"])
  /\ UNCHANGED <<pcb, saved, user_if, handling, exit, ghosts>>

\* An interrupt, the signals that arrive in its time, and its end.
Interrupt ==
  /\ Interruptible /\ depth < MaxDepth
  /\ Push("irq", "away", FALSE, 0)
  /\ UNCHANGED <<pcb, saved, user_if, handling, exit, ghosts>>

SignalArrives(s) ==
  /\ InKernel("away")
  /\ sig_set(s)
  /\ sent' = IF sig_mask THEN sent ELSE sent \cup {s}
  /\ UNCHANGED <<sig_mask, sig_handlers, saved, stack, user_if, handling, exit>>
  /\ UNCHANGED <<due, result, faulted>>

\* CTRL+P or CTRL+H: the handler of the key waits for ENTER, and IF stays 1 until
\* the popfl of the linkage.  Then CTRL may be held.
PmanOpens ==
  /\ InKernel("away") /\ ~progress
  /\ Becomes([Top EXCEPT !.pc = "pman", !.sti = TRUE])
  /\ UNCHANGED <<pcb, saved, user_if, handling, exit, ghosts>>

PmanCloses(ctrl) ==
  /\ InKernel("pman")
  /\ IF ctrl THEN sig_set(SYSKILL) ELSE UNCHANGED sig_pending
  /\ sent' = IF ctrl /\ ~sig_mask THEN sent \cup {SYSKILL} ELSE sent
  /\ Becomes([Top EXCEPT !.pc = "dispatch"])
  /\ UNCHANGED <<sig_mask, sig_handlers, saved, user_if, handling, exit>>
  /\ UNCHANGED <<due, result, faulted>>

\* unified_exception_handler masks the signals and waits for ENTER.
Exception ==
  /\ InUser
  /\ ~progress
  /\ handling > 0 => HandlerFaults
  /\ Push("exception", "wait", TRUE, 0)
  /\ sig_mask' = TRUE
  /\ faulted' = TRUE
  /\ UNCHANGED <<sig_pending, sig_handlers, saved, user_if, handling, exit>>
  /\ UNCHANGED <<due, result, sent>>

\* ENTER: the signals are unmasked, and then the exception is signalled, with IF = 1.
\* Mutant: they are not unmasked by then.
UnmaskedTooLate == sig_mask
Unmasked == FALSE

ExceptionUnmasks ==
  /\ InKernel("wait")
  /\ sig_mask' = Unmasked
  /\ Becomes([Top EXCEPT !.pc = "signal"])
  /\ UNCHANGED <<sig_pending, sig_handlers, saved, user_if, handling, exit, ghosts>>

ExceptionSignals ==
  /\ InKernel("signal")
  /\ sig_set(SEGFAULT)
  /\ sent' = IF sig_mask THEN sent ELSE sent \cup {SEGFAULT}
  /\ Becomes([Top EXCEPT !.pc = "dispatch"])
  /\ UNCHANGED <<sig_mask, sig_handlers, saved, user_if, handling, exit>>
  /\ UNCHANGED <<due, result, faulted>>

-----------------------------------------------------------------------------
(* sig_dispatch, on the way back.                                            *)

\* A system call goes back with IF = 1 from here on, and an interrupt or exception
\* with 0, after the popfl.  Mutant: with 1, too.
LeavesOpen(f) == [f EXCEPT !.pc = "exit", !.sti = TRUE]
Leaves(f) == [f EXCEPT !.pc = "exit", !.sti = (f.kind = "call")]

Dispatch ==
  /\ InKernel("dispatch")
  /\ Becomes(IF sig_mask THEN Leaves(Top)
             ELSE [Top EXCEPT !.pc = "act", !.pending = sig_pending])
  /\ UNCHANGED <<pcb, saved, user_if, handling, exit, ghosts>>

\* The line is masked while a handler runs.  Mutant: it is not.
LeftOpen == FALSE
Masked == TRUE

DispatchCustom ==
  /\ InKernel("act") /\ Top.pending \in sig_handlers
  /\ sig_pending' = NULLSIG
  /\ sig_mask' = Masked
  /\ sig_stackshot' = Live
  /\ sig_stacksize' = StackBytes(depth) % 256
  /\ spilled' = (spilled \/ sig_stacksize' > SHOT_BYTES)
  /\ sig_eax' = Top.eax
  /\ handling' = handling + 1
  /\ depth' = 0
  /\ user_if' = Top.sti
  /\ sent' = {}
  /\ faulted' = (faulted /\ Top.pending \notin Exceptions)
  /\ UNCHANGED <<kstack, sig_handlers, exit, due, result>>

\* The default handler runs with the line masked: it kills, or does nothing.
DispatchDefault ==
  /\ InKernel("act") /\ Top.pending \notin sig_handlers
  /\ sig_pending' = NULLSIG
  /\ sig_mask' = Masked
  /\ Becomes([Top EXCEPT !.pc = "default"])
  /\ sent' = {}
  /\ UNCHANGED <<sig_handlers, saved, user_if, handling, exit, due, result, faulted>>

\* sys_halt looks for an exception in sig_pending.
StatusOf(pending) == IF pending \in Exceptions THEN 256 ELSE 0

DefaultKills ==
  /\ InKernel("default") /\ Top.pending \in Kills
  /\ halted' = IF Top.pending \in Exceptions THEN "exception" ELSE "signal"
  /\ halt_status' = StatusOf(sig_pending)
  /\ UNCHANGED <<pcb, saved, stack, user_if, handling, ghosts>>

\* Mutant: the line stays masked.
StaysMasked == sig_mask
Reopened == FALSE

DefaultReturns ==
  /\ InKernel("default") /\ Top.pending \notin Kills
  /\ sig_mask' = Reopened
  /\ Becomes(Leaves(Top))
  /\ UNCHANGED <<sig_pending, sig_handlers, saved, user_if, handling, exit, ghosts>>

\* The linkage restores the registers and returns.
Return ==
  /\ InKernel("exit")
  /\ Pop
  /\ result' = IF Top.kind = "call" /\ handling = 0 THEN Top.eax ELSE result
  /\ UNCHANGED <<pcb, saved, handling, exit, due, sent, faulted>>

\* sys_sigreturn: out of the interrupted sig_dispatch, with its result.  Mutant: the
\* frames are those in memory.
InMemory ==
  [i \in DOMAIN sig_stackshot |-> IF i <= Len(kstack) THEN kstack[i] ELSE sig_stackshot[i]]
Restored == sig_stackshot

\* Nothing checks that there is a handler to return from: outside of one, the program
\* is taken back to where the last one began, and returns from there again.
Replayed ==
  IF sig_stackshot[1].kind # "call" THEN due
  ELSE IF Len(sig_stackshot) = 1 THEN sig_eax ELSE sig_stackshot[1].eax

Whole == sig_stackshot # <<>> /\ sig_stacksize = StackBytes(Len(sig_stackshot))

sys_sigreturn ==
  /\ InUser /\ Whole
  /\ depth' = Len(sig_stackshot)
  /\ kstack' = [Restored EXCEPT ![depth'] = Leaves([@ EXCEPT !.eax = sig_eax])]
  /\ sig_mask' = FALSE
  /\ handling' = 0
  /\ due' = IF handling = 0 THEN Replayed ELSE due
  /\ UNCHANGED <<sig_pending, sig_handlers, saved, user_if, exit>>
  /\ UNCHANGED <<result, sent, faulted>>

\* The copy was cut, or there never was one.
SigreturnCut == InUser /\ ~Whole /\ Undefined

-----------------------------------------------------------------------------
sys_halt ==
  /\ InUser
  /\ halted' = "call" /\ halt_status' = 0
  /\ UNCHANGED <<pcb, saved, stack, user_if, handling, ghosts>>

\* sys_execute of another program in the same PCB.  Mutant: its mask is kept.
MaskKept == sig_mask
MaskCleared == FALSE

sys_execute ==
  /\ halted # "no"
  /\ sig_pending' = NULLSIG /\ sig_mask' = MaskCleared /\ sig_handlers' = {}
  /\ sig_stackshot' = <<>> /\ sig_eax' = 0 /\ sig_stacksize' = 0 /\ spilled' = FALSE
  /\ kstack' = <<>> /\ depth' = 0 /\ user_if' = FALSE
  /\ handling' = 0
  /\ halted' = "no" /\ halt_status' = 0
  /\ due' = 0 /\ result' = 0 /\ sent' = {} /\ faulted' = FALSE

Init ==
  /\ sig_pending = NULLSIG /\ sig_mask = FALSE /\ sig_handlers = {}
  /\ sig_stackshot = <<>> /\ sig_eax = 0 /\ sig_stacksize = 0 /\ spilled = FALSE
  /\ kstack = <<>> /\ depth = 0 /\ user_if = FALSE
  /\ handling = 0
  /\ halted = "no" /\ halt_status = 0
  /\ due = 0 /\ result = 0 /\ sent = {} /\ faulted = FALSE

Program ==
  \/ \E waits, uses \in BOOLEAN, r \in Results : SysCall(waits, uses, r)
  \/ \E s \in Custom \cup {SYSKILL}, set \in BOOLEAN : sys_set_handler(s, set)
  \/ Exception \/ sys_sigreturn \/ sys_halt \/ sys_execute
  \/ CallSpilled \/ SigreturnCut

KernelStep ==
  \/ Dispatch \/ DispatchCustom
  \/ DispatchDefault \/ DefaultKills \/ DefaultReturns
  \/ Return

Next ==
  \/ Program \/ KernelStep \/ WaitEnds \/ ExceptionUnmasks \/ ExceptionSignals
  \/ Interrupt \/ PmanOpens
  \/ \E ctrl \in BOOLEAN : PmanCloses(ctrl)
  \/ \E s \in FromInterrupts : SignalArrives(s)

Spec == Init /\ [][Next]_vars

-----------------------------------------------------------------------------
\* Types, and: whatever handler waited with IF = 1, an interrupt is itself interrupted
\* neither before that nor after its popfl.
TypeOK ==
  /\ sig_pending \in Signal \cup {NULLSIG} /\ sig_mask \in BOOLEAN
  /\ sig_handlers \subseteq Custom
  /\ sig_stacksize \in 0 .. 255 /\ spilled \in BOOLEAN
  /\ depth \in 0 .. Len(kstack) /\ depth <= MaxDepth
  /\ \A i \in 1 .. Len(kstack) : kstack[i] \in Frame
  /\ \A i \in 1 .. Len(sig_stackshot) : sig_stackshot[i] \in Frame
  /\ \A i \in 1 .. depth :
        kstack[i].kind = "irq" /\ kstack[i].pc \in {"away", "exit"} => ~kstack[i].sti
  /\ halted \in {"no", "call", "signal", "exception", "undefined"}
  /\ halt_status \in {0, 256}

\* A program gets the results of its own calls, whatever handlers ran between a
\* call and its return, and whatever these called in turn; up to a copy that was cut,
\* or a call that uses a descriptor after one has overrun.
CallsReturnTheirs == InUser /\ handling = 0 => result = due

\* signals.c:46, sig_dispatch: "If it is handling, exit".  A handler runs alone.
HandlersDoNotNest == handling <= 1

\* The line is masked exactly while a handler, of the program or the default one,
\* runs or an exception waits for ENTER: a process does not become deaf to signals.
MaskMatchesHandling ==
  halted = "no" =>
    (sig_mask <=> handling > 0 \/ \E i \in 1 .. depth : kstack[i].pc \in {"wait", "default"})

\* Of the signals sent since the last dispatch the most urgent one is pending.
MostUrgentPending == sig_pending = Min(sent \cup {NULLSIG})

\* After an exception no instruction of the program itself runs until its handler for
\* it has, or the program has ended.  (A handler may: of an alarm that comes between
\* exceptions.c:172 and 179, with the line unmasked and the exception not signalled.)
ExceptionsStop == InUser /\ handling = 0 => ~faulted

\* signals.c:94, sig_dispatch: "Save kernel stack".  The room of signals.h:68 is enough
\* for it.  This is false as soon as a handler starts from a nested entry (README).
StackshotFits == sig_stacksize <= SHOT_BYTES

\* syscalls.c:283, sys_halt: "return 256 if exception".
ExceptionStatus == halted = "exception" => halt_status = 256
=============================================================================
