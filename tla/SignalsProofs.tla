---------------------------- MODULE SignalsProofs ----------------------------
(***************************************************************************)
(* Proofs about Signals, for all sets of signals with handlers and of      *)
(* results, any size of the frames between entries and any depth of them,  *)
(* as long as handlers cause no exceptions.                                *)
(***************************************************************************)
EXTENDS Signals, SequenceTheorems, TLAPS

\* Handlers cause no exceptions, as in the run signals.
Quiet == HandlerFaults = FALSE

Typed ==
  /\ sig_pending \in Signal \cup {NULLSIG} /\ sig_mask \in BOOLEAN
  /\ sig_handlers \subseteq Custom
  /\ kstack \in Seq(Frame) /\ depth \in 0 .. Len(kstack)
  /\ sig_stackshot \in Seq(Frame) /\ sig_eax \in Outcomes
  /\ sig_stacksize \in 0 .. 255 /\ spilled \in BOOLEAN
  /\ user_if \in BOOLEAN
  /\ handling \in {0, 1}
  /\ halted \in {"no", "call", "signal", "exception", "undefined"}
  /\ halt_status \in {0, 256}
  /\ due \in Outcomes
  /\ sent \subseteq Signal
  /\ faulted \in BOOLEAN

\* A stack: its first frame is an entry from user code, those on it interrupts of it
\* and of each other; an interrupt is interrupted only while it waits or dispatches.
Stack(s, n) ==
  /\ n <= MaxDepth
  /\ \A i \in 1 .. n :
        /\ s[i].kind = "irq" /\ s[i].pc \in {"away", "exit"} => ~s[i].sti
        /\ s[i].pc \in {"wait", "signal"} => i = 1
        /\ i > 1 => s[i].kind = "irq"

\* What keeps the line masked, and what needs it open.
Holds == {"wait", "default"}
Acts == {"act", "wait", "default"}

Nesting ==
  /\ Stack(kstack, depth)
  /\ handling > 0 => \A i \in 1 .. depth : kstack[i].pc \notin Acts \cup {"signal"}
  /\ \A i \in 1 .. depth : \A j \in 1 .. depth :
        i < j /\ kstack[i].pc \in Holds => kstack[j].pc \notin Acts

Saved ==
  /\ handling > 0 => sig_stackshot # <<>>
  /\ sig_stackshot # <<>> =>
       /\ Stack(sig_stackshot, Len(sig_stackshot))
       /\ \A i \in 1 .. Len(sig_stackshot) : sig_stackshot[i].pc \notin Holds
       /\ sig_stackshot[Len(sig_stackshot)].pc = "act"

Mask == MaskMatchesHandling

Urgent == sig_pending \in sent \cup {NULLSIG} /\ \A s \in sent : sig_pending <= s

\* Between an exception and its handler: it waits for ENTER or is not yet signalled, or
\* it is pending, or the process is about to act on it.  Before it is signalled the
\* handler of another signal may run.
ActsOnIt(f) == f.pc \in {"act", "default"} => f.pending = SEGFAULT
Signalled ==
  /\ kstack[1].pc \in {"dispatch", "act"}
  /\ \A i \in 1 .. depth : ActsOnIt(kstack[i])
  /\ sig_pending = SEGFAULT \/ \E i \in 1 .. depth : kstack[i].pc = "default"

Exceptional ==
  faulted /\ halted = "no" =>
    IF handling > 0 THEN sig_stackshot[1].pc = "signal"
    ELSE /\ depth > 0
         /\ \/ kstack[1].pc \in {"wait", "signal"}
            \/ kstack[1].pc = "default" /\ kstack[1].pending = SEGFAULT
            \/ Signalled

\* The call that is under way has its result in its frame, in the copy of it, or
\* has returned.
Outcome(s, n) == IF n > 0 /\ s[1].kind = "call" THEN s[1].eax = due ELSE result = due
Results_ ==
  IF handling = 0 THEN Outcome(kstack, depth)
  ELSE /\ Outcome(sig_stackshot, Len(sig_stackshot))
       /\ Len(sig_stackshot) = 1 /\ sig_stackshot[1].kind = "call" => sig_eax = due

IInv == Typed /\ Nesting /\ Saved /\ Mask /\ Urgent /\ Exceptional /\ Results_
-----------------------------------------------------------------------------
(* The kernel stack as a sequence.                                           *)

LEMMA Prefix ==
  ASSUME NEW S, NEW s \in Seq(S), NEW n \in 0 .. Len(s)
  PROVE  /\ SubSeq(s, 1, n) \in Seq(S) /\ Len(SubSeq(s, 1, n)) = n
         /\ \A i \in 1 .. n : SubSeq(s, 1, n)[i] = s[i]
<1>1. \A i \in 1 .. n : s[i] \in S
  BY ElementOfSeq
<1> QED BY <1>1, SubSeqProperties

LEMMA Joined ==
  ASSUME NEW S, NEW s \in Seq(S), NEW t \in Seq(S)
  PROVE  /\ s \o t \in Seq(S) /\ Len(s \o t) = Len(s) + Len(t)
         /\ \A i \in 1 .. Len(s) : (s \o t)[i] = s[i]
<1>0. Len(s) \in Nat /\ Len(t) \in Nat
  BY LenProperties
<1>1. s \o t \in Seq(S) /\ Len(s \o t) = Len(s) + Len(t)
  BY ConcatProperties
<1>2. ASSUME NEW i \in 1 .. Len(s) PROVE (s \o t)[i] = s[i]
  <2>1. i \in 1 .. Len(s) + Len(t) /\ i <= Len(s)
    BY <1>0
  <2> QED BY <2>1, ConcatProperties
<1> QED BY <1>1, <1>2

\* With one more between the two.
LEMMA JoinedThrice ==
  ASSUME NEW S, NEW a \in Seq(S), NEW f \in S, NEW c \in Seq(S)
  PROVE  /\ a \o <<f>> \o c \in Seq(S) /\ Len(a) + 1 \in 1 .. Len(a \o <<f>> \o c)
         /\ \A i \in 1 .. Len(a) : (a \o <<f>> \o c)[i] = a[i]
         /\ (a \o <<f>> \o c)[Len(a) + 1] = f
<1>1. a \o <<f>> = Append(a, f)
  OBVIOUS
<1>2. /\ Append(a, f) \in Seq(S) /\ Len(Append(a, f)) = Len(a) + 1
      /\ \A i \in 1 .. Len(a) : Append(a, f)[i] = a[i]
      /\ Append(a, f)[Len(a) + 1] = f
  BY AppendProperties
<1>5. PICK d : d = a \o <<f>>
  OBVIOUS
<1>6. Len(a) \in Nat /\ Len(c) \in Nat
  BY LenProperties
<1>7. d \in Seq(S) /\ Len(d) = Len(a) + 1
  BY <1>1, <1>2, <1>5
<1>8. /\ d \o c \in Seq(S) /\ Len(d \o c) = Len(d) + Len(c)
      /\ \A i \in 1 .. Len(d) : (d \o c)[i] = d[i]
  <2>1. d \o c \in Seq(S) /\ Len(d \o c) = Len(d) + Len(c)
    BY <1>7, Joined
  <2>2. \A i \in 1 .. Len(d) : (d \o c)[i] = d[i]
    BY <1>7, Joined
  <2> QED BY <2>1, <2>2
<1>9. d[Len(a) + 1] = f
  BY <1>1, <1>2, <1>5
<1>10. \A i \in 1 .. Len(a) : d[i] = a[i]
  BY <1>1, <1>2, <1>5
<1>11. /\ d \o c \in Seq(S) /\ Len(a) + 1 \in 1 .. Len(d \o c)
       /\ \A i \in 1 .. Len(a) : (d \o c)[i] = a[i]
       /\ (d \o c)[Len(a) + 1] = f
  BY <1>6, <1>7, <1>8, <1>9, <1>10
<1> QED BY <1>11, <1>5

\* A frame on top of the first n, over what was there before.
Over(s, n, f) == SubSeq(s, 1, n) \o <<f>> \o SubSeq(s, n + 2, Len(s))

LEMMA Pushed ==
  ASSUME NEW s \in Seq(Frame), NEW n \in 0 .. Len(s), NEW f \in Frame
  PROVE  /\ Over(s, n, f) \in Seq(Frame) /\ n + 1 \in 1 .. Len(Over(s, n, f))
         /\ Over(s, n, f)[n + 1] = f
         /\ \A i \in 1 .. n : Over(s, n, f)[i] = s[i]
<1>1. PICK a : a = SubSeq(s, 1, n)
  OBVIOUS
<1>2. PICK c : c = SubSeq(s, n + 2, Len(s))
  OBVIOUS
<1>3. a \in Seq(Frame) /\ Len(a) = n /\ \A i \in 1 .. n : a[i] = s[i]
  BY <1>1, Prefix
<1>4. c \in Seq(Frame)
  <2>1. \A i \in n + 2 .. Len(s) : s[i] \in Frame
    BY ElementOfSeq
  <2> QED BY <1>2, <2>1, SubSeqProperties, LenProperties
<1>5. /\ a \o <<f>> \o c \in Seq(Frame) /\ Len(a) + 1 \in 1 .. Len(a \o <<f>> \o c)
      /\ \A i \in 1 .. Len(a) : (a \o <<f>> \o c)[i] = a[i]
      /\ (a \o <<f>> \o c)[Len(a) + 1] = f
  BY <1>3, <1>4, JoinedThrice
<1>6. Over(s, n, f) = a \o <<f>> \o c
  BY <1>1, <1>2 DEF Over
<1> QED BY <1>3, <1>5, <1>6

\* All but the last of the first n.
LEMMA Popped ==
  ASSUME NEW S, NEW s \in Seq(S), NEW n \in 1 .. Len(s)
  PROVE  /\ Front(SubSeq(s, 1, n)) \in Seq(S) /\ Len(Front(SubSeq(s, 1, n))) = n - 1
         /\ \A i \in 1 .. n - 1 : Front(SubSeq(s, 1, n))[i] = s[i]
<1> DEFINE a == SubSeq(s, 1, n)
<1>1. a \in Seq(S) /\ Len(a) = n /\ \A i \in 1 .. n : a[i] = s[i]
  BY Prefix
<1>2. Front(a) = SubSeq(a, 1, n - 1)
  BY <1>1 DEF Front
<1> HIDE DEF a
<1>3. /\ SubSeq(a, 1, n - 1) \in Seq(S) /\ Len(SubSeq(a, 1, n - 1)) = n - 1
      /\ \A i \in 1 .. n - 1 : SubSeq(a, 1, n - 1)[i] = a[i]
  BY <1>1, Prefix
<1> QED BY <1>1, <1>2, <1>3 DEF a
-----------------------------------------------------------------------------
(* What the three ways to change it do.                                      *)

LEMMA PushStep ==
  ASSUME Typed, NEW kind \in {"call", "irq", "exception"},
         NEW pc \in {"spin", "wait", "away", "dispatch"},
         NEW sti \in BOOLEAN, NEW eax \in Outcomes, Push(kind, pc, sti, eax)
  PROVE  /\ kstack' \in Seq(Frame) /\ depth' = depth + 1 /\ depth' \in 1 .. Len(kstack')
         /\ \A i \in 1 .. depth : kstack'[i] = kstack[i]
         /\ kstack'[depth'].kind = kind /\ kstack'[depth'].pc = pc
         /\ kstack'[depth'].sti = sti /\ kstack'[depth'].eax = eax
<1>1. PICK b : b = IF depth = 0 THEN user_if ELSE Top.sti
  OBVIOUS
<1>2. b \in BOOLEAN
  <2>1. depth # 0 => kstack[depth] \in Frame
    BY ElementOfSeq DEF Typed
  <2> QED BY <1>1, <2>1 DEF Typed, Top, Frame
<1>3. PICK f : f = [kind |-> kind, pc |-> pc, sti |-> sti, eax |-> eax,
                    pending |-> NULLSIG, back |-> b]
  OBVIOUS
<1>4. f \in Frame
  BY <1>2, <1>3 DEF Frame
<1>5. kstack' = Over(kstack, depth, f) /\ depth' = depth + 1
  BY <1>1, <1>3 DEF Push, Live, Over
<1>6. /\ kstack' \in Seq(Frame) /\ depth + 1 \in 1 .. Len(kstack') /\ kstack'[depth + 1] = f
      /\ \A i \in 1 .. depth : kstack'[i] = kstack[i]
  <2>1. kstack \in Seq(Frame) /\ depth \in 0 .. Len(kstack)
    BY DEF Typed
  <2>2. /\ Over(kstack, depth, f) \in Seq(Frame)
        /\ depth + 1 \in 1 .. Len(Over(kstack, depth, f))
        /\ Over(kstack, depth, f)[depth + 1] = f
        /\ \A i \in 1 .. depth : Over(kstack, depth, f)[i] = kstack[i]
    <3>1. Over(kstack, depth, f) \in Seq(Frame)
      BY <1>4, <2>1, Pushed
    <3>2. depth + 1 \in 1 .. Len(Over(kstack, depth, f))
      BY <1>4, <2>1, Pushed
    <3>3. Over(kstack, depth, f)[depth + 1] = f
      BY <1>4, <2>1, Pushed
    <3>4. \A i \in 1 .. depth : Over(kstack, depth, f)[i] = kstack[i]
      BY <1>4, <2>1, Pushed
    <3> QED BY <3>1, <3>2, <3>3, <3>4
  <2> QED BY <1>5, <2>2
<1>7. kstack'[depth'] = f /\ depth' = depth + 1
  BY <1>5, <1>6
<1>8. f.kind = kind /\ f.pc = pc /\ f.sti = sti /\ f.eax = eax
  BY <1>3
<1>9. /\ kstack'[depth'].kind = kind /\ kstack'[depth'].pc = pc
      /\ kstack'[depth'].sti = sti /\ kstack'[depth'].eax = eax
  BY <1>7, <1>8
<1> QED BY <1>6, <1>7, <1>9

LEMMA BecomesStep ==
  ASSUME Typed, depth > 0, NEW f \in Frame, Becomes(f)
  PROVE  /\ kstack' \in Seq(Frame) /\ depth' = depth /\ depth' \in 1 .. Len(kstack')
         /\ \A i \in 1 .. depth : i # depth => kstack'[i] = kstack[i]
         /\ kstack'[depth] = f
<1>1. kstack \in Seq(Frame) /\ depth \in 1 .. Len(kstack)
  BY DEF Typed
<1>2. kstack' = [kstack EXCEPT ![depth] = f] /\ depth' = depth
  BY DEF Becomes
<1>3. kstack' \in Seq(Frame) /\ Len(kstack') = Len(kstack)
  BY <1>1, <1>2, ExceptSeq
<1>4. DOMAIN kstack = 1 .. Len(kstack)
  BY <1>1
<1> QED BY <1>1, <1>2, <1>3, <1>4

LEMMA PopStep ==
  ASSUME Typed, depth > 0, Pop
  PROVE  /\ kstack' \in Seq(Frame) /\ depth' = depth - 1 /\ depth' \in 0 .. Len(kstack')
         /\ \A i \in 1 .. depth' : kstack'[i] = kstack[i]
         /\ user_if' \in BOOLEAN
<1>1. kstack \in Seq(Frame) /\ depth \in 1 .. Len(kstack)
  BY DEF Typed
<1>2. kstack[depth] \in Frame
  BY <1>1, ElementOfSeq
<1>3. user_if' \in BOOLEAN /\ depth' = depth - 1
  BY <1>2 DEF Pop, Typed, Top, Frame
<1>4. CASE handling = 0
  BY <1>1, <1>3, <1>4, Popped DEF Pop, Live
<1>5. CASE handling # 0
  BY <1>1, <1>3, <1>5 DEF Pop
<1> QED BY <1>3, <1>4, <1>5

\* The frames in use.
LEMMA InUse ==
  ASSUME Typed
  PROVE  /\ depth \in Nat /\ \A i \in 1 .. depth : kstack[i] \in Frame
         /\ depth > 0 => Top \in Frame
<1>1. kstack \in Seq(Frame) /\ depth \in 0 .. Len(kstack)
  BY DEF Typed
<1> QED BY <1>1, ElementOfSeq DEF Top

-----------------------------------------------------------------------------
(* The steps.                                                            *)

LEMMA SysCallInv ==
  ASSUME IInv, NEW waits \in BOOLEAN, NEW uses \in BOOLEAN,
         NEW r \in Results, SysCall(waits, uses, r)
  PROVE  IInv'
<1>1. /\ depth = 0 /\ halted = "no"
      /\ UNCHANGED <<sig_pending, saved, user_if, handling, exit, sent, result>>
  BY DEF SysCall, InUser, pcb, ghosts
<1>2. /\ kstack' \in Seq(Frame) /\ depth' = depth + 1 /\ depth' \in 1 .. Len(kstack')
      /\ kstack'[depth'].kind = "call" /\ kstack'[depth'].pc = (IF waits THEN "spin" ELSE "dispatch")
      /\ kstack'[depth'].sti = waits /\ kstack'[depth'].eax = r
  BY PushStep DEF SysCall, IInv, Outcomes
<1>3. Typed'
  BY <1>1, <1>2 DEF IInv, Typed, SysCall, saved, exit, pcb, ghosts, Outcomes
<1>4. Nesting'
  BY <1>1, <1>2, SignalsAssumption
    DEF IInv, Nesting, Stack, Acts, Holds, SysCall, ghosts, Typed
<1>5. Saved'
  BY <1>1, <1>2 DEF IInv, Saved, saved
<1>6. Mask'
  BY <1>1, <1>2 DEF IInv, Mask, MaskMatchesHandling, Typed, SysCall, pcb, exit
<1>7. Urgent'
  BY <1>1 DEF IInv, Urgent
<1>8. Exceptional'
  BY <1>1, <1>2 DEF IInv, Exceptional, Typed, SysCall, pcb, ghosts, saved, exit
<1>9. Results_'
  BY <1>1, <1>2 DEF IInv, Results_, Outcome, Typed, SysCall, saved, ghosts
<1> QED BY <1>3, <1>4, <1>5, <1>6, <1>7, <1>8, <1>9 DEF IInv

LEMMA SetHandlerInv ==
  ASSUME IInv, NEW s \in Custom \cup {SYSKILL}, NEW set \in BOOLEAN,
         sys_set_handler(s, set)
  PROVE  IInv'
<1>1. /\ depth = 0 /\ halted = "no"
      /\ UNCHANGED <<sig_pending, saved, user_if, handling, exit, sent, result>>
  BY DEF sys_set_handler, InUser, pcb, ghosts
<1>2. /\ kstack' \in Seq(Frame) /\ depth' = depth + 1 /\ depth' \in 1 .. Len(kstack')
      /\ kstack'[depth'].kind = "call" /\ kstack'[depth'].pc = "dispatch"
      /\ kstack'[depth'].sti = FALSE /\ kstack'[depth'].eax = (IF s > 4 THEN Failed ELSE 0)
  BY PushStep DEF sys_set_handler, IInv, Outcomes
<1>3. Typed'
  <2>1. sig_handlers' \subseteq Custom
    <3>1. s <= 4 => s \in Custom
      BY DEF SYSKILL
    <3>2. sig_handlers' \in {sig_handlers, sig_handlers \cup {s}, sig_handlers \ {s}}
          /\ (s > 4 => sig_handlers' = sig_handlers)
      BY DEF sys_set_handler, Failed
    <3>3. s \in Int
      BY SignalsAssumption
      DEF Signal, Exceptions, FromInterrupts, SEGFAULT, INTERRUPT, ALARM, SYSKILL
    <3> QED BY <3>1, <3>2, <3>3 DEF IInv, Typed
  <2>2. sig_mask' \in BOOLEAN /\ faulted' \in BOOLEAN /\ due' \in Outcomes
    BY DEF IInv, Typed, sys_set_handler, Outcomes
  <2> QED BY <1>1, <1>2, <2>1, <2>2 DEF IInv, Typed, saved, exit
<1>4. Nesting'
  BY <1>1, <1>2, SignalsAssumption
    DEF IInv, Nesting, Stack, Acts, Holds, sys_set_handler, ghosts, Typed
<1>5. Saved'
  BY <1>1, <1>2 DEF IInv, Saved, saved
<1>6. Mask'
  BY <1>1, <1>2 DEF IInv, Mask, MaskMatchesHandling, Typed, sys_set_handler, pcb, exit
<1>7. Urgent'
  BY <1>1 DEF IInv, Urgent
<1>8. Exceptional'
  BY <1>1, <1>2 DEF IInv, Exceptional, Typed, sys_set_handler, pcb, ghosts, saved, exit
<1>9. Results_'
  BY <1>1, <1>2 DEF IInv, Results_, Outcome, Typed, sys_set_handler, saved, ghosts
<1> QED BY <1>3, <1>4, <1>5, <1>6, <1>7, <1>8, <1>9 DEF IInv

LEMMA ExceptionInv ==
  ASSUME IInv, Quiet, Exception
  PROVE  IInv'
<1>1. /\ depth = 0 /\ halted = "no"
      /\ UNCHANGED <<sig_pending, saved, user_if, handling, exit, sent, result>>
  BY DEF Exception, InUser, pcb, ghosts
<1>2. /\ kstack' \in Seq(Frame) /\ depth' = depth + 1 /\ depth' \in 1 .. Len(kstack')
      /\ kstack'[depth'].kind = "exception" /\ kstack'[depth'].pc = "wait"
      /\ kstack'[depth'].sti = TRUE /\ kstack'[depth'].eax = 0
  BY PushStep DEF Exception, IInv, Outcomes
<1>3. Typed'
  BY <1>1, <1>2 DEF IInv, Typed, Exception, saved, exit, pcb, ghosts, Outcomes, Quiet
<1>4. Nesting'
  BY <1>1, <1>2, SignalsAssumption
    DEF IInv, Nesting, Stack, Acts, Holds, Quiet, Exception, ghosts, Typed
<1>5. Saved'
  BY <1>1, <1>2 DEF IInv, Saved, saved
<1>6. Mask'
  BY <1>1, <1>2 DEF IInv, Mask, MaskMatchesHandling, Typed, Exception, pcb, Quiet, exit
<1>7. Urgent'
  BY <1>1 DEF IInv, Urgent
<1>8. Exceptional'
  BY <1>1, <1>2 DEF IInv, Exceptional, Typed, Exception, pcb, ghosts, saved, exit, Quiet
<1>9. Results_'
  BY <1>1, <1>2 DEF IInv, Results_, Outcome, Typed, Exception, saved, ghosts, Quiet
<1> QED BY <1>3, <1>4, <1>5, <1>6, <1>7, <1>8, <1>9 DEF IInv

LEMMA InterruptInv ==
  ASSUME IInv, Interrupt
  PROVE  IInv'
<1>1. /\ halted = "no" /\ depth < MaxDepth /\ depth \in Nat
      /\ UNCHANGED <<pcb, saved, user_if, handling, exit, ghosts>>
      /\ depth > 0 => Top.sti
  BY InUse DEF IInv, Interrupt, Interruptible
<1>2. /\ kstack' \in Seq(Frame) /\ depth' = depth + 1 /\ depth' \in 1 .. Len(kstack')
      /\ \A i \in 1 .. depth : kstack'[i] = kstack[i]
      /\ kstack'[depth'].kind = "irq" /\ kstack'[depth'].pc = "away"
      /\ kstack'[depth'].sti = FALSE /\ kstack'[depth'].eax = 0
  BY PushStep DEF Interrupt, IInv, Outcomes
<1>3. Typed'
  BY <1>1, <1>2 DEF IInv, Typed, pcb, saved, exit, ghosts
<1>4. Nesting'
  <2>1. Stack(kstack', depth')
    BY <1>1, <1>2, SignalsAssumption DEF IInv, Nesting, Stack
  <2> QED BY <1>1, <1>2, <2>1 DEF IInv, Nesting, Acts, Holds
<1>5. Saved'
  BY <1>1 DEF IInv, Saved, saved
<1>6. Mask'
  BY <1>1, <1>2 DEF IInv, Mask, MaskMatchesHandling, pcb, exit
<1>7. Urgent'
  BY <1>1 DEF IInv, Urgent, pcb, ghosts
<1>8. Exceptional'
  BY <1>1, <1>2 DEF IInv, Exceptional, Signalled, ActsOnIt, pcb, saved, exit, ghosts
<1>9. Results_'
  BY <1>1, <1>2 DEF IInv, Results_, Outcome, saved, ghosts
<1> QED BY <1>3, <1>4, <1>5, <1>6, <1>7, <1>8, <1>9 DEF IInv

\* The top frame goes on, as what it is and with what it returns.
LEMMA GoesOn ==
  ASSUME IInv, depth > 0, NEW f \in Frame, Becomes(f),
         f.kind = Top.kind, f.eax = Top.eax,
         f.kind = "irq" /\ f.pc \in {"away", "exit"} => ~f.sti,
         f.pc \in {"wait", "signal"} => Top.pc \in {"wait", "signal"}
  PROVE  /\ kstack' \in Seq(Frame) /\ depth' = depth /\ depth' \in 1 .. Len(kstack')
         /\ \A i \in 1 .. depth : i # depth => kstack'[i] = kstack[i]
         /\ kstack'[depth] = f /\ Top = kstack[depth]
         /\ Stack(kstack', depth')
         /\ kstack'[1].kind = kstack[1].kind /\ kstack'[1].eax = kstack[1].eax
<1>1. /\ kstack' \in Seq(Frame) /\ depth' = depth /\ depth' \in 1 .. Len(kstack')
      /\ \A i \in 1 .. depth : i # depth => kstack'[i] = kstack[i]
      /\ kstack'[depth] = f /\ Top = kstack[depth]
  BY BecomesStep DEF IInv, Top
<1>2. depth \in Nat /\ Stack(kstack, depth)
  BY InUse DEF IInv, Nesting
<1>3. Stack(kstack', depth')
  BY <1>1, <1>2 DEF Stack
<1>4. kstack'[1].kind = kstack[1].kind /\ kstack'[1].eax = kstack[1].eax
  BY <1>1, <1>2
<1> QED BY <1>1, <1>3, <1>4

LEMMA WaitEndsInv ==
  ASSUME IInv, WaitEnds
  PROVE  IInv'
<1>1. /\ Top.pc \in {"spin", "away"} /\ depth > 0 /\ halted = "no"
      /\ Top = kstack[depth] /\ Top \in Frame /\ depth \in Nat
      /\ UNCHANGED <<sig_pending, sig_mask, sig_handlers, saved, user_if, handling,
                     exit, due, result,
                     sent, faulted>>
  BY InUse DEF IInv, WaitEnds, InKernel, Top, pcb, saved, exit, ghosts
<1>2. PICK f \in Frame : /\ Becomes(f) /\ f.kind = Top.kind /\ f.eax = Top.eax
                         /\ f.pc = "dispatch" /\ f.sti = Top.sti
  BY <1>1 DEF WaitEnds, Frame
<1>3. f.pc \in {"wait", "signal"} => Top.pc \in {"wait", "signal"}
  BY <1>1, <1>2
<1>4. /\ kstack' \in Seq(Frame) /\ depth' = depth /\ depth' \in 1 .. Len(kstack')
      /\ \A i \in 1 .. depth : i # depth => kstack'[i] = kstack[i]
      /\ kstack'[depth] = f
      /\ Stack(kstack', depth')
      /\ kstack'[1].kind = kstack[1].kind /\ kstack'[1].eax = kstack[1].eax
  BY <1>1, <1>2, <1>3, GoesOn
<1>5. Typed'
  BY <1>1, <1>4 DEF IInv, Typed, exit, saved, pcb, ghosts
<1>6. Nesting'
  BY <1>1, <1>2, <1>4 DEF IInv, Nesting, Acts, Holds, Typed
<1>7. Saved'
  BY <1>1 DEF IInv, Saved, saved
<1>8. Mask'
  BY <1>1, <1>2, <1>4 DEF IInv, Mask, MaskMatchesHandling, exit
<1>9. Urgent'
  BY <1>1 DEF IInv, Urgent
<1>10. Exceptional'
  BY <1>1, <1>2, <1>4 DEF IInv, Exceptional, Signalled, ActsOnIt, saved, exit
<1>11. Results_'
  BY <1>1, <1>4 DEF IInv, Results_, Outcome, saved
<1> QED BY <1>5, <1>6, <1>7, <1>8, <1>9, <1>10, <1>11 DEF IInv

LEMMA PmanOpensInv ==
  ASSUME IInv, PmanOpens
  PROVE  IInv'
<1>1. /\ Top.pc = "away" /\ depth > 0 /\ halted = "no"
      /\ Top = kstack[depth] /\ Top \in Frame /\ depth \in Nat
      /\ UNCHANGED <<sig_pending, sig_mask, sig_handlers, saved, user_if, handling,
                     exit, due, result,
                     sent, faulted>>
  BY InUse DEF IInv, PmanOpens, InKernel, Top, pcb, saved, exit, ghosts
<1>2. PICK f \in Frame : /\ Becomes(f) /\ f.kind = Top.kind /\ f.eax = Top.eax
                         /\ f.pc = "pman"
  <2>1. PICK f : f = [Top EXCEPT !.pc = "pman", !.sti = TRUE]
    OBVIOUS
  <2>2. f \in Frame /\ f.kind = Top.kind /\ f.eax = Top.eax /\ f.pc = "pman"
    BY <1>1, <2>1 DEF Frame
  <2>3. Becomes(f)
    BY <2>1 DEF PmanOpens
  <2> QED BY <2>2, <2>3
<1>3. f.pc \in {"wait", "signal"} => Top.pc \in {"wait", "signal"}
  BY <1>1, <1>2
<1>4. /\ kstack' \in Seq(Frame) /\ depth' = depth /\ depth' \in 1 .. Len(kstack')
      /\ \A i \in 1 .. depth : i # depth => kstack'[i] = kstack[i]
      /\ kstack'[depth] = f
      /\ Stack(kstack', depth')
      /\ kstack'[1].kind = kstack[1].kind /\ kstack'[1].eax = kstack[1].eax
  BY <1>1, <1>2, <1>3, GoesOn
<1>5. Typed'
  BY <1>1, <1>4 DEF IInv, Typed, exit, saved, pcb, ghosts
<1>6. Nesting'
  BY <1>1, <1>2, <1>4 DEF IInv, Nesting, Acts, Holds, Typed
<1>7. Saved'
  BY <1>1 DEF IInv, Saved, saved
<1>8. Mask'
  BY <1>1, <1>2, <1>4 DEF IInv, Mask, MaskMatchesHandling, exit
<1>9. Urgent'
  BY <1>1 DEF IInv, Urgent
<1>10. Exceptional'
  BY <1>1, <1>2, <1>4 DEF IInv, Exceptional, Signalled, ActsOnIt, saved, exit
<1>11. Results_'
  BY <1>1, <1>4 DEF IInv, Results_, Outcome, saved
<1> QED BY <1>5, <1>6, <1>7, <1>8, <1>9, <1>10, <1>11 DEF IInv

LEMMA PmanClosesInv ==
  ASSUME IInv, NEW ctrl \in BOOLEAN, PmanCloses(ctrl)
  PROVE  IInv'
<1>1. /\ Top.pc = "pman" /\ depth > 0 /\ halted = "no"
      /\ Top = kstack[depth] /\ Top \in Frame /\ depth \in Nat
      /\ UNCHANGED <<sig_mask, sig_handlers, saved, user_if, handling, exit, due,
                     result, faulted>>
  BY InUse DEF IInv, PmanCloses, InKernel, Top, pcb, saved, exit, ghosts
<1>2. PICK f \in Frame : /\ Becomes(f) /\ f.kind = Top.kind /\ f.eax = Top.eax
                         /\ f.pc = "dispatch" /\ f.sti = Top.sti
  BY <1>1 DEF PmanCloses, Frame
<1>3. f.pc \in {"wait", "signal"} => Top.pc \in {"wait", "signal"}
  BY <1>1, <1>2
<1>4. /\ kstack' \in Seq(Frame) /\ depth' = depth /\ depth' \in 1 .. Len(kstack')
      /\ \A i \in 1 .. depth : i # depth => kstack'[i] = kstack[i]
      /\ kstack'[depth] = f
      /\ Stack(kstack', depth')
      /\ kstack'[1].kind = kstack[1].kind /\ kstack'[1].eax = kstack[1].eax
  BY <1>1, <1>2, <1>3, GoesOn
<1>5. Typed'
  <2>1. sig_pending' \in Signal \cup {NULLSIG} /\ sent' \subseteq Signal
    BY DEF IInv, Typed, PmanCloses, sig_set, MoreUrgent, Signal, Exceptions
  <2> QED BY <1>1, <1>4, <2>1 DEF IInv, Typed, exit, saved
<1>6. Nesting'
  BY <1>1, <1>2, <1>4 DEF IInv, Nesting, Acts, Holds, Typed
<1>7. Saved'
  BY <1>1 DEF IInv, Saved, saved
<1>8. Mask'
  BY <1>1, <1>2, <1>4 DEF IInv, Mask, MaskMatchesHandling, exit
<1>9. Urgent'
  BY DEF IInv, Typed, Urgent, PmanCloses, sig_set, MoreUrgent, SEGFAULT, INTERRUPT,
         ALARM, SYSKILL, NULLSIG, Signal, Exceptions, FromInterrupts
<1>10. Exceptional'
  <2>1. sig_pending = SEGFAULT => sig_pending' = SEGFAULT
    BY DEF PmanCloses, sig_set, MoreUrgent, SEGFAULT, SYSKILL
  <2> QED
    BY <1>1, <1>2, <1>4, <2>1 DEF IInv, Exceptional, Signalled, ActsOnIt, saved, exit
<1>11. Results_'
  BY <1>1, <1>4 DEF IInv, Results_, Outcome, saved
<1> QED BY <1>5, <1>6, <1>7, <1>8, <1>9, <1>10, <1>11 DEF IInv

LEMMA ExceptionUnmasksInv ==
  ASSUME IInv, ExceptionUnmasks
  PROVE  IInv'
<1>1. /\ Top.pc = "wait" /\ depth > 0 /\ halted = "no"
      /\ Top = kstack[depth] /\ Top \in Frame /\ depth \in Nat
      /\ UNCHANGED <<sig_pending, sig_handlers, saved, user_if, handling, exit, due,
                     result, sent,
                     faulted>>
  BY InUse DEF IInv, ExceptionUnmasks, InKernel, Top, pcb, saved, exit, ghosts
<1>2. PICK f \in Frame : /\ Becomes(f) /\ f.kind = Top.kind /\ f.eax = Top.eax
                         /\ f.pc = "signal" /\ f.sti = Top.sti
  BY <1>1 DEF ExceptionUnmasks, Frame
<1>3. f.pc \in {"wait", "signal"} => Top.pc \in {"wait", "signal"}
  BY <1>1, <1>2
<1>4. /\ kstack' \in Seq(Frame) /\ depth' = depth /\ depth' \in 1 .. Len(kstack')
      /\ \A i \in 1 .. depth : i # depth => kstack'[i] = kstack[i]
      /\ kstack'[depth] = f
      /\ Stack(kstack', depth')
      /\ kstack'[1].kind = kstack[1].kind /\ kstack'[1].eax = kstack[1].eax
  BY <1>1, <1>2, <1>3, GoesOn
<1>5. Typed'
  <2>1. sig_mask' \in BOOLEAN
    BY DEF ExceptionUnmasks, Unmasked
  <2> QED BY <1>1, <1>4, <2>1 DEF IInv, Typed, exit, saved
<1>6. Nesting'
  <2>1. depth = 1 /\ handling = 0
    BY <1>1 DEF IInv, Nesting, Stack, Acts, Typed
  <2> QED BY <1>1, <1>2, <1>4, <2>1 DEF Nesting
<1>7. Saved'
  BY <1>1 DEF IInv, Saved, saved
<1>8. Mask'
  <2>1. depth = 1 /\ handling = 0
    BY <1>1 DEF IInv, Nesting, Stack, Acts, Typed
  <2> QED
    BY <1>1, <1>2, <1>4, <2>1
    DEF Mask, MaskMatchesHandling, ExceptionUnmasks, Unmasked
<1>9. Urgent'
  BY <1>1 DEF IInv, Urgent
<1>10. Exceptional'
  BY <1>1, <1>2, <1>4 DEF IInv, Exceptional, Signalled, ActsOnIt, saved, exit
<1>11. Results_'
  BY <1>1, <1>4 DEF IInv, Results_, Outcome, saved
<1> QED BY <1>5, <1>6, <1>7, <1>8, <1>9, <1>10, <1>11 DEF IInv

LEMMA ExceptionSignalsInv ==
  ASSUME IInv, ExceptionSignals
  PROVE  IInv'
<1>1. /\ Top.pc = "signal" /\ depth > 0 /\ halted = "no"
      /\ Top = kstack[depth] /\ Top \in Frame /\ depth \in Nat
      /\ UNCHANGED <<sig_mask, sig_handlers, saved, user_if, handling, exit, due,
                     result, faulted>>
  BY InUse DEF IInv, ExceptionSignals, InKernel, Top, pcb, saved, exit, ghosts
<1>2. PICK f \in Frame : /\ Becomes(f) /\ f.kind = Top.kind /\ f.eax = Top.eax
                         /\ f.pc = "dispatch" /\ f.sti = Top.sti
  BY <1>1 DEF ExceptionSignals, Frame
<1>3. f.pc \in {"wait", "signal"} => Top.pc \in {"wait", "signal"}
  BY <1>1, <1>2
<1>4. /\ kstack' \in Seq(Frame) /\ depth' = depth /\ depth' \in 1 .. Len(kstack')
      /\ \A i \in 1 .. depth : i # depth => kstack'[i] = kstack[i]
      /\ kstack'[depth] = f
      /\ Stack(kstack', depth')
      /\ kstack'[1].kind = kstack[1].kind /\ kstack'[1].eax = kstack[1].eax
  BY <1>1, <1>2, <1>3, GoesOn
<1>5. Typed'
  <2>1. sig_pending' \in Signal \cup {NULLSIG} /\ sent' \subseteq Signal
    BY DEF IInv, Typed, ExceptionSignals, sig_set, MoreUrgent, Signal, Exceptions
  <2> QED BY <1>1, <1>4, <2>1 DEF IInv, Typed, exit, saved
<1>6. Nesting'
  BY <1>1, <1>2, <1>4 DEF IInv, Nesting, Acts, Holds, Typed
<1>7. Saved'
  BY <1>1 DEF IInv, Saved, saved
<1>8. Mask'
  BY <1>1, <1>2, <1>4 DEF IInv, Mask, MaskMatchesHandling, exit
<1>9. Urgent'
  BY DEF IInv, Typed, Urgent, ExceptionSignals, sig_set, MoreUrgent, SEGFAULT,
         INTERRUPT, ALARM, SYSKILL, NULLSIG, Signal, Exceptions, FromInterrupts
<1>10. Exceptional'
  <2>1. depth = 1 /\ handling = 0
    BY <1>1 DEF IInv, Nesting, Stack, Typed
  <2>2. ~sig_mask
    BY <1>1, <2>1 DEF IInv, Mask, MaskMatchesHandling
  <2>3. sig_pending' = SEGFAULT
    BY <2>2
      DEF IInv, Typed, ExceptionSignals, sig_set, MoreUrgent, SEGFAULT, INTERRUPT,
          ALARM, SYSKILL, NULLSIG, Signal, Exceptions, FromInterrupts
  <2> QED BY <1>1, <1>2, <1>4, <2>1, <2>3 DEF Exceptional, Signalled, ActsOnIt
<1>11. Results_'
  BY <1>1, <1>4 DEF IInv, Results_, Outcome, saved
<1> QED BY <1>5, <1>6, <1>7, <1>8, <1>9, <1>10, <1>11 DEF IInv

LEMMA DispatchInv ==
  ASSUME IInv, Dispatch
  PROVE  IInv'
<1>1. /\ Top.pc = "dispatch" /\ depth > 0 /\ halted = "no"
      /\ Top = kstack[depth] /\ Top \in Frame /\ depth \in Nat
      /\ UNCHANGED <<sig_pending, sig_mask, sig_handlers, saved, user_if, handling,
                     exit, due, result,
                     sent, faulted>>
  BY InUse DEF IInv, Dispatch, InKernel, Top, pcb, saved, exit, ghosts
<1>2. PICK f \in Frame : /\ Becomes(f) /\ f.kind = Top.kind /\ f.eax = Top.eax
                         /\ IF sig_mask THEN f.pc = "exit" /\ (f.kind = "irq" => ~f.sti)
                            ELSE f.pc = "act" /\ f.pending = sig_pending
  <2>1. PICK f : f = IF sig_mask THEN Leaves(Top)
                  ELSE [Top EXCEPT !.pc = "act", !.pending = sig_pending]
    OBVIOUS
  <2>2. f \in Frame
    <3>1. Leaves(Top) \in Frame
      BY <1>1 DEF Leaves, Frame
    <3>2. [Top EXCEPT !.pc = "act", !.pending = sig_pending] \in Frame
      BY <1>1 DEF IInv, Typed, Frame
    <3> QED BY <2>1, <3>1, <3>2
  <2>3. Becomes(f)
    BY <2>1 DEF Dispatch
  <2>4. /\ f.kind = Top.kind /\ f.eax = Top.eax
        /\ IF sig_mask THEN f.pc = "exit" /\ (f.kind = "irq" => ~f.sti)
           ELSE f.pc = "act" /\ f.pending = sig_pending
    BY <1>1, <2>1 DEF Leaves, Frame
  <2> QED BY <2>2, <2>3, <2>4
<1>3. f.pc \in {"wait", "signal"} => Top.pc \in {"wait", "signal"}
  BY <1>1, <1>2
<1>4. /\ kstack' \in Seq(Frame) /\ depth' = depth /\ depth' \in 1 .. Len(kstack')
      /\ \A i \in 1 .. depth : i # depth => kstack'[i] = kstack[i]
      /\ kstack'[depth] = f
      /\ Stack(kstack', depth')
      /\ kstack'[1].kind = kstack[1].kind /\ kstack'[1].eax = kstack[1].eax
  BY <1>1, <1>2, <1>3, GoesOn
<1>5. Typed'
  BY <1>1, <1>4 DEF IInv, Typed, exit, saved, pcb, ghosts
<1>6. Nesting'
  <2>1. CASE sig_mask
    BY <1>1, <1>2, <1>4, <2>1 DEF IInv, Nesting, Acts, Holds
  <2>2. CASE ~sig_mask
    <3>1. handling = 0 /\ \A i \in 1 .. depth : kstack[i].pc \notin Holds
      BY <1>1, <2>2 DEF IInv, Mask, MaskMatchesHandling, Typed, Holds
    <3> QED BY <1>1, <1>2, <1>4, <2>2, <3>1 DEF IInv, Nesting, Acts, Holds
  <2> QED BY <2>1, <2>2
<1>7. Saved'
  BY <1>1 DEF IInv, Saved, saved
<1>8. Mask'
  BY <1>1, <1>2, <1>4 DEF IInv, Mask, MaskMatchesHandling, exit
<1>9. Urgent'
  BY <1>1 DEF IInv, Urgent
<1>10. Exceptional'
  <2> SUFFICES ASSUME faulted, handling = 0 PROVE Exceptional'
    BY <1>1, <1>4 DEF IInv, Exceptional, saved, exit, Typed
  <2>1. CASE kstack[1].pc \in {"wait", "signal", "default"}
    BY <1>1, <1>2, <1>4, <2>1 DEF IInv, Exceptional, Signalled
  <2>2. CASE Signalled /\ sig_mask
    <3>1. PICK i \in 1 .. depth : kstack[i].pc \in Holds
      BY <1>1, <2>2 DEF IInv, Mask, MaskMatchesHandling, Holds
    <3>2. i # 1 /\ i # depth /\ depth # 1
      BY <1>1, <2>2, <3>1 DEF Signalled, Holds
    <3> QED
      BY <1>1, <1>2, <1>4, <2>2, <3>2 DEF Exceptional, Signalled, ActsOnIt
  <2>3. CASE Signalled /\ ~sig_mask
    <3>1. \A i \in 1 .. depth : kstack[i].pc # "default"
      BY <1>1, <2>3 DEF IInv, Mask, MaskMatchesHandling
    <3> QED
      BY <1>1, <1>2, <1>4, <2>3, <3>1 DEF Exceptional, Signalled, ActsOnIt
  <2> QED BY <1>1, <2>1, <2>2, <2>3 DEF IInv, Exceptional
<1>11. Results_'
  BY <1>1, <1>4 DEF IInv, Results_, Outcome, saved
<1> QED BY <1>5, <1>6, <1>7, <1>8, <1>9, <1>10, <1>11 DEF IInv

LEMMA DispatchDefaultInv ==
  ASSUME IInv, DispatchDefault
  PROVE  IInv'
<1>1. /\ Top.pc = "act" /\ depth > 0 /\ halted = "no"
      /\ Top = kstack[depth] /\ Top \in Frame /\ depth \in Nat
      /\ UNCHANGED <<sig_handlers, saved, user_if, handling, exit, due, result, faulted>>
  BY InUse DEF IInv, DispatchDefault, InKernel, Top, pcb, saved, exit, ghosts
<1>2. PICK f \in Frame : /\ Becomes(f) /\ f.kind = Top.kind /\ f.eax = Top.eax
                         /\ f.pc = "default" /\ f.pending = Top.pending
  BY <1>1 DEF DispatchDefault, Frame
<1>3. f.pc \in {"wait", "signal"} => Top.pc \in {"wait", "signal"}
  BY <1>1, <1>2
<1>4. /\ kstack' \in Seq(Frame) /\ depth' = depth /\ depth' \in 1 .. Len(kstack')
      /\ \A i \in 1 .. depth : i # depth => kstack'[i] = kstack[i]
      /\ kstack'[depth] = f
      /\ Stack(kstack', depth')
      /\ kstack'[1].kind = kstack[1].kind /\ kstack'[1].eax = kstack[1].eax
  BY <1>1, <1>2, <1>3, GoesOn
<1>5. Typed'
  BY <1>1, <1>4 DEF IInv, Typed, exit, saved, DispatchDefault, Masked, NULLSIG
<1>6. Nesting'
  <2>1. handling = 0 /\ \A i \in 1 .. depth : i # depth => kstack[i].pc \notin Holds
    BY <1>1 DEF IInv, Nesting, Acts, Holds, Typed
  <2>2. \A i \in 1 .. depth : i # depth => kstack'[i].pc \notin Holds
    BY <1>4, <2>1
  <2> QED BY <1>1, <1>4, <2>1, <2>2 DEF Nesting
<1>7. Saved'
  BY <1>1 DEF IInv, Saved, saved
<1>8. Mask'
  BY <1>1, <1>2, <1>4
  DEF Mask, MaskMatchesHandling, DispatchDefault, Masked
<1>9. Urgent'
  BY DEF Urgent, DispatchDefault
<1>10. Exceptional'
  BY <1>1, <1>2, <1>4
  DEF IInv, Nesting, Acts, Holds, Exceptional, Signalled, ActsOnIt, saved, exit
<1>11. Results_'
  BY <1>1, <1>4 DEF IInv, Results_, Outcome, saved
<1> QED BY <1>5, <1>6, <1>7, <1>8, <1>9, <1>10, <1>11 DEF IInv

LEMMA DefaultReturnsInv ==
  ASSUME IInv, DefaultReturns
  PROVE  IInv'
<1>1. /\ Top.pc = "default" /\ Top.pending \notin Kills /\ depth > 0 /\ halted = "no"
      /\ Top = kstack[depth] /\ Top \in Frame /\ depth \in Nat
      /\ UNCHANGED <<sig_pending, sig_handlers, saved, user_if, handling, exit, due,
                     result, sent,
                     faulted>>
  BY InUse DEF IInv, DefaultReturns, InKernel, Top, pcb, saved, exit, ghosts
<1>2. PICK f \in Frame : /\ Becomes(f) /\ f.kind = Top.kind /\ f.eax = Top.eax
                         /\ f.pc = "exit" /\ (f.kind = "irq" => ~f.sti)
  <2>1. Leaves(Top) \in Frame /\ Becomes(Leaves(Top))
    BY <1>1 DEF DefaultReturns, Leaves, Frame
  <2>2. /\ Leaves(Top).kind = Top.kind /\ Leaves(Top).eax = Top.eax
        /\ Leaves(Top).pc = "exit"
        /\ Leaves(Top).kind = "irq" => ~Leaves(Top).sti
    BY <1>1 DEF Leaves, Frame
  <2> QED BY <2>1, <2>2
<1>3. f.pc \in {"wait", "signal"} => Top.pc \in {"wait", "signal"}
  BY <1>1, <1>2
<1>4. /\ kstack' \in Seq(Frame) /\ depth' = depth /\ depth' \in 1 .. Len(kstack')
      /\ \A i \in 1 .. depth : i # depth => kstack'[i] = kstack[i]
      /\ kstack'[depth] = f
      /\ Stack(kstack', depth')
      /\ kstack'[1].kind = kstack[1].kind /\ kstack'[1].eax = kstack[1].eax
  BY <1>1, <1>2, <1>3, GoesOn
<1>5. Typed'
  <2>1. sig_mask' \in BOOLEAN
    BY DEF DefaultReturns, Reopened
  <2> QED BY <1>1, <1>4, <2>1 DEF IInv, Typed, exit, saved
<1>6. Nesting'
  BY <1>1, <1>2, <1>4 DEF IInv, Nesting, Acts, Holds, Typed
<1>7. Saved'
  BY <1>1 DEF IInv, Saved, saved
<1>8. Mask'
  <2>1. handling = 0 /\ \A i \in 1 .. depth : i # depth => kstack[i].pc \notin Holds
    BY <1>1 DEF IInv, Nesting, Acts, Holds, Typed
  <2> QED
    BY <1>1, <1>2, <1>4, <2>1
    DEF Mask, MaskMatchesHandling, DefaultReturns, Reopened, Holds
<1>9. Urgent'
  BY <1>1 DEF IInv, Urgent
<1>10. Exceptional'
  <2>1. ~ActsOnIt(Top)
    BY <1>1 DEF ActsOnIt, Kills, Exceptions
  <2>2. ~Signalled /\ (depth = 1 => Top.pending # SEGFAULT)
    BY <1>1, <2>1 DEF Signalled, ActsOnIt, Kills, Exceptions
  <2> QED
    BY <1>1, <1>2, <1>4, <2>2 DEF IInv, Exceptional, saved, exit
<1>11. Results_'
  BY <1>1, <1>4 DEF IInv, Results_, Outcome, saved
<1> QED BY <1>5, <1>6, <1>7, <1>8, <1>9, <1>10, <1>11 DEF IInv

LEMMA SignalArrivesInv ==
  ASSUME IInv, NEW s \in FromInterrupts, SignalArrives(s)
  PROVE  IInv'
<1>1. Top.pc = "away" /\ depth > 0 /\ halted = "no" /\ Top = kstack[depth]
  BY DEF SignalArrives, InKernel, Top
<1>3. kstack' = kstack /\ depth' = depth
  BY DEF SignalArrives, stack
<1>4. Typed'
  BY <1>3 DEF IInv, Typed, SignalArrives, sig_set, MoreUrgent, saved, exit, Signal,
         FromInterrupts
<1>5. Nesting'
  BY <1>3 DEF IInv, Nesting, Stack, SignalArrives
<1>6. Saved'
  BY <1>3 DEF IInv, Saved, SignalArrives, saved
<1>7. Mask'
  BY <1>3 DEF IInv, Mask, MaskMatchesHandling, SignalArrives, exit
<1>8. Urgent'
  BY DEF IInv, Typed, Urgent, SignalArrives, sig_set, MoreUrgent, Signal,
         FromInterrupts, Exceptions,
         SEGFAULT, INTERRUPT, ALARM, SYSKILL, NULLSIG
<1>9. Exceptional'
  <2>1. sig_pending = SEGFAULT => sig_pending' = SEGFAULT
    BY DEF SignalArrives, sig_set, MoreUrgent, FromInterrupts, SEGFAULT, INTERRUPT, ALARM
  <2>2. halted' = halted /\ faulted' = faulted /\ handling' = handling
    BY DEF SignalArrives, exit
  <2> QED BY <1>3, <2>1, <2>2
    DEF IInv, Exceptional, Signalled, ActsOnIt, SignalArrives, saved
<1>10. Results_'
  BY <1>3 DEF IInv, Results_, Outcome, SignalArrives, saved
<1> QED BY <1>4, <1>5, <1>6, <1>7, <1>8, <1>9, <1>10 DEF IInv

LEMMA DispatchCustomInv ==
  ASSUME IInv, DispatchCustom
  PROVE  IInv'
<1>1. Top.pc = "act" /\ depth > 0 /\ halted = "no" /\ Top = kstack[depth]
  BY DEF DispatchCustom, InKernel, Top
<1>2. /\ depth \in Nat
      /\ Top \in Frame /\ kstack \in Seq(Frame) /\ depth \in 0 .. Len(kstack)
  BY <1>1, InUse DEF IInv, Nesting, Stack, Typed
<1>3. handling = 0 /\ handling' = 1 /\ depth' = 0
  BY <1>1, <1>2 DEF IInv, Nesting, Acts, Typed, DispatchCustom
<1>4. /\ sig_stackshot' \in Seq(Frame) /\ Len(sig_stackshot') = depth
      /\ \A i \in 1 .. depth : sig_stackshot'[i] = kstack[i]
  BY <1>2, Prefix DEF DispatchCustom, Live
<1>5. Typed'
  <2>1. sig_mask' \in BOOLEAN
    BY DEF DispatchCustom, Masked
  <2>2. user_if' \in BOOLEAN /\ sig_eax' \in Outcomes
    BY <1>2 DEF DispatchCustom, Frame
  <2>4. sig_stacksize' \in 0 .. 255
    <3>1. depth * ENTRY_BYTES \in Nat
      BY <1>2 DEF ENTRY_BYTES
    <3>2. (depth - 1) * InnerBytes \in Nat
      <4>1. depth - 1 \in Nat /\ InnerBytes \in Nat
        BY <1>1, <1>2, SignalsAssumption
      <4>2. \A m, n \in Nat : m * n \in Nat
        OBVIOUS
      <4> QED BY <4>1, <4>2
    <3>3. StackBytes(depth) \in Nat
      BY <3>1, <3>2 DEF StackBytes
    <3> QED BY <3>3 DEF DispatchCustom
  <2>5. spilled' \in BOOLEAN
    BY Zenon DEF IInv, Typed, DispatchCustom
  <2>3. faulted' \in BOOLEAN
    BY Zenon DEF IInv, Typed, DispatchCustom
  <2> QED BY <1>2, <1>3, <1>4, <2>1, <2>2, <2>3, <2>4, <2>5
    DEF IInv, Typed, DispatchCustom, exit, NULLSIG
<1>6. Nesting'
  BY <1>3, SignalsAssumption DEF Nesting, Stack
<1>7. Saved'
  <2>1. \A i \in 1 .. depth : kstack[i].pc \notin Holds
    BY <1>1, <1>2 DEF IInv, Nesting, Acts, Holds
  <2>2. Stack(sig_stackshot', depth)
    BY <1>2, <1>4 DEF IInv, Nesting, Stack
  <2>3. sig_stackshot'[depth].pc = "act" /\ sig_stackshot' # <<>>
    BY <1>1, <1>2, <1>4
  <2> QED BY <1>4, <2>1, <2>2, <2>3 DEF Saved
<1>8. Mask'
  BY <1>3 DEF Mask, MaskMatchesHandling, DispatchCustom, Masked
<1>9. Urgent'
  BY DEF Urgent, DispatchCustom
<1>10. Exceptional'
  <2> SUFFICES ASSUME faulted, Top.pending \notin Exceptions
               PROVE  sig_stackshot'[1].pc = "signal"
    <3>1. faulted' => faulted /\ Top.pending \notin Exceptions
      BY Zenon DEF DispatchCustom
    <3> QED BY <1>3, <3>1 DEF Exceptional
  <2>1. ~ActsOnIt(Top) /\ ~Signalled
    BY <1>1, <1>2 DEF ActsOnIt, Signalled, Exceptions
  <2>2. kstack[1].pc \notin Holds
    BY <1>1, <1>2 DEF IInv, Nesting, Acts, Holds
  <2>3. kstack[1].pc = "signal"
    BY <1>1, <1>3, <2>1, <2>2 DEF IInv, Exceptional, Holds
  <2> QED BY <1>1, <1>2, <1>4, <2>3
<1>11. Results_'
  <2>1. due' = due /\ result' = result /\ sig_eax' = Top.eax
    BY DEF DispatchCustom
  <2> QED BY <1>1, <1>2, <1>3, <1>4, <2>1 DEF IInv, Results_, Outcome
<1> QED BY <1>5, <1>6, <1>7, <1>8, <1>9, <1>10, <1>11 DEF IInv

LEMMA ReturnInv ==
  ASSUME IInv, Return
  PROVE  IInv'
<1>1. Top.pc = "exit" /\ depth > 0 /\ halted = "no" /\ Top = kstack[depth]
  BY DEF Return, InKernel, Top
<1>2. depth \in Nat
  BY InUse DEF IInv
<1>3. /\ kstack' \in Seq(Frame) /\ depth' = depth - 1 /\ depth' \in 0 .. Len(kstack')
      /\ \A i \in 1 .. depth' : kstack'[i] = kstack[i]
      /\ user_if' \in BOOLEAN
  BY <1>1, PopStep DEF IInv, Return
<1>4. Typed'
  BY <1>3 DEF IInv, Typed, Return, pcb, saved, exit
<1>5. Nesting'
  <2>1. /\ handling' = handling
        /\ \A i \in 1 .. depth' : i \in 1 .. depth /\ kstack'[i] = kstack[i]
    BY <1>2, <1>3 DEF Return
  <2>2. Stack(kstack', depth')
    <3>1. depth' <= MaxDepth
      BY <1>2, <1>3, SignalsAssumption DEF IInv, Nesting, Stack
    <3> QED BY <2>1, <3>1 DEF IInv, Nesting, Stack
  <2> QED BY <2>1, <2>2 DEF IInv, Nesting
<1>6. Saved'
  BY DEF IInv, Saved, Return, saved
<1>7. Mask'
  BY <1>1, <1>2, <1>3 DEF IInv, Mask, MaskMatchesHandling, Return, pcb, exit
<1>8. Urgent'
  BY DEF IInv, Urgent, Return, pcb
<1>9. Exceptional'
  <2>1. /\ halted' = halted /\ faulted' = faulted /\ handling' = handling
        /\ sig_pending' = sig_pending /\ sig_stackshot' = sig_stackshot
    BY DEF Return, exit, pcb, saved
  <2> QED BY <1>1, <1>2, <1>3, <2>1 DEF IInv, Exceptional, Signalled, ActsOnIt
<1>10. Results_'
  <2>1. /\ due' = due /\ handling' = handling
        /\ sig_stackshot' = sig_stackshot /\ sig_eax' = sig_eax
        /\ result' = IF Top.kind = "call" /\ handling = 0 THEN Top.eax ELSE result
    BY DEF Return, saved
  <2> QED BY <1>1, <1>2, <1>3, <2>1 DEF IInv, Nesting, Stack, Results_, Outcome
<1> QED BY <1>4, <1>5, <1>6, <1>7, <1>8, <1>9, <1>10 DEF IInv

LEMMA SigreturnInv ==
  ASSUME IInv, sys_sigreturn
  PROVE  IInv'
<1> DEFINE n == Len(sig_stackshot)
<1>1. handling' = 0 /\ halted = "no" /\ sig_mask' = FALSE /\ sig_stackshot # <<>>
  BY DEF sys_sigreturn, InUser, Whole
<1>2. /\ sig_stackshot \in Seq(Frame) /\ n \in Nat /\ n > 0 /\ Stack(sig_stackshot, n)
      /\ \A i \in 1 .. n : sig_stackshot[i].pc \notin Holds
      /\ sig_stackshot[n].pc = "act"
  BY <1>1, EmptySeq, LenProperties DEF IInv, Typed, Saved
<1>3. sig_stackshot[n] \in Frame
  BY <1>2, ElementOfSeq
<1>4. PICK f : f = Leaves([sig_stackshot[n] EXCEPT !.eax = sig_eax])
  OBVIOUS
<1>5. /\ f \in Frame /\ f.kind = sig_stackshot[n].kind /\ f.eax = sig_eax
      /\ f.pc = "exit" /\ (f.kind = "irq" => ~f.sti)
  <2>1. PICK g : g = [sig_stackshot[n] EXCEPT !.eax = sig_eax]
    OBVIOUS
  <2>2. g \in Frame /\ g.kind = sig_stackshot[n].kind /\ g.eax = sig_eax
    BY <1>3, <2>1 DEF Frame, IInv, Typed
  <2>3. f = Leaves(g)
    BY <1>4, <2>1
  <2> QED BY <2>2, <2>3 DEF Leaves, Frame
<1>6. depth' = n /\ kstack' = [sig_stackshot EXCEPT ![n] = f]
  BY <1>4 DEF sys_sigreturn, Restored
<1>7. /\ kstack' \in Seq(Frame) /\ Len(kstack') = n /\ kstack'[n] = f
      /\ \A i \in 1 .. n : i # n => kstack'[i] = sig_stackshot[i]
  <2>1. n \in 1 .. Len(sig_stackshot)
    BY <1>2
  <2>2. kstack' \in Seq(Frame) /\ Len(kstack') = n
    BY <1>2, <1>5, <1>6, <2>1, ExceptSeq
  <2>3. DOMAIN sig_stackshot = 1 .. n
    BY <1>2
  <2> QED BY <1>6, <2>1, <2>2, <2>3
<1> HIDE DEF n
<1>8. \A i \in 1 .. n : kstack'[i].pc \notin Holds
  BY <1>2, <1>5, <1>7 DEF Holds
<1>9. due' = IF handling = 0 THEN Replayed ELSE due
  BY DEF sys_sigreturn
<1>10. Typed'
  <2>1. 1 \in 1 .. Len(sig_stackshot)
    BY <1>2 DEF n
  <2>2. sig_stackshot[1] \in Frame
    BY <1>2, <2>1, ElementOfSeq
  <2>3. due' \in Outcomes
    BY <1>9, <2>2 DEF IInv, Typed, Replayed, Frame
  <2>4. sig_mask' \in BOOLEAN
    BY <1>1
  <2> QED
    BY <1>1, <1>2, <1>6, <1>7, <2>3, <2>4 DEF IInv, Typed, sys_sigreturn, saved, exit
<1>11. Nesting'
  <2>1. Stack(kstack', depth')
    BY <1>2, <1>5, <1>6, <1>7 DEF Stack
  <2> QED BY <1>1, <1>6, <1>8, <2>1 DEF Nesting
<1>12. Saved'
  BY <1>1 DEF IInv, Saved, sys_sigreturn, saved
<1>13. Mask'
  BY <1>1, <1>6, <1>8 DEF Mask, MaskMatchesHandling, Holds
<1>14. Urgent'
  BY DEF IInv, Urgent, sys_sigreturn
<1>15. Exceptional'
  <2> SUFFICES ASSUME faulted PROVE Exceptional'
    BY DEF Exceptional, sys_sigreturn
  <2>1. handling > 0 /\ sig_stackshot[1].pc = "signal"
    BY <1>1 DEF IInv, Exceptional, sys_sigreturn, InUser
  <2>2. n # 1
    BY <1>2, <2>1
  <2> QED BY <1>1, <1>2, <1>6, <1>7, <2>1, <2>2 DEF Exceptional
<1>16. Results_'
  <2>1. result' = result /\ depth = 0
    BY DEF sys_sigreturn, InUser
  <2>2. CASE handling = 0
    BY <1>1, <1>2, <1>5, <1>6, <1>7, <1>9, <2>1, <2>2
    DEF IInv, Results_, Outcome, Replayed, n
  <2>3. CASE handling # 0
    BY <1>1, <1>2, <1>5, <1>6, <1>7, <1>9, <2>1, <2>3
    DEF IInv, Results_, Outcome, n
  <2> QED BY <2>2, <2>3
<1> QED BY <1>10, <1>11, <1>12, <1>13, <1>14, <1>15, <1>16 DEF IInv

LEMMA HaltInv ==
  ASSUME IInv, sys_halt \/ DefaultKills \/ CallSpilled \/ SigreturnCut
  PROVE  IInv'
<1>1. /\ UNCHANGED <<pcb, saved, stack, user_if, handling, ghosts>>
      /\ halted' \in {"call", "signal", "exception", "undefined"}
      /\ halt_status' \in {0, 256}
  BY DEF sys_halt, DefaultKills, StatusOf, CallSpilled, SigreturnCut, Undefined, IInv,
         Typed
<1>2. Typed' /\ Nesting' /\ Saved' /\ Urgent' /\ Results_'
  BY <1>1 DEF IInv, Typed, Nesting, Stack, Saved, Urgent, Results_, Outcome,
              pcb, saved, stack, ghosts
<1>3. Mask' /\ Exceptional'
  BY <1>1 DEF Mask, MaskMatchesHandling, Exceptional
<1> QED BY <1>2, <1>3 DEF IInv

LEMMA Fresh == Init => IInv
<1> SUFFICES ASSUME Init PROVE IInv
  OBVIOUS
<1>1. Typed
  <2>1. <<>> \in Seq(Frame) /\ Len(<<>>) = 0
    BY EmptySeq
  <2>2. sig_mask \in BOOLEAN /\ user_if \in BOOLEAN /\ faulted \in BOOLEAN
        /\ spilled \in BOOLEAN
    BY Zenon DEF Init
  <2> QED BY <2>1, <2>2 DEF Init, Typed, NULLSIG, Outcomes
<1>2. Nesting /\ Saved /\ Mask /\ Urgent
  BY SignalsAssumption
  DEF Init, Nesting, Stack, Saved, Mask, MaskMatchesHandling, Urgent
<1>3. Exceptional /\ Results_
  BY DEF Init, Exceptional, Results_, Outcome
<1> QED BY <1>1, <1>2, <1>3 DEF IInv

LEMMA ExecuteInv ==
  ASSUME sys_execute
  PROVE  IInv'
<1>1. Typed'
  <2>1. <<>> \in Seq(Frame) /\ Len(<<>>) = 0
    BY EmptySeq
  <2>2. sig_mask' \in BOOLEAN /\ user_if' \in BOOLEAN /\ faulted' \in BOOLEAN
        /\ spilled' \in BOOLEAN
    BY Zenon DEF sys_execute, MaskCleared
  <2> QED BY <2>1, <2>2 DEF sys_execute, MaskCleared, Typed, NULLSIG, Outcomes
<1>2. Nesting' /\ Saved' /\ Mask' /\ Urgent'
  BY SignalsAssumption
  DEF sys_execute, MaskCleared, Nesting, Stack, Saved, Mask, MaskMatchesHandling,
         Urgent
<1>3. Exceptional' /\ Results_'
  BY DEF sys_execute, Exceptional, Results_, Outcome
<1> QED BY <1>1, <1>2, <1>3 DEF IInv

LEMMA Inductive ==
  ASSUME Quiet, IInv, [Next]_vars
  PROVE  IInv'
<1>1. CASE \E waits, uses \in BOOLEAN, r \in Results : SysCall(waits, uses, r)
  BY <1>1, SysCallInv
<1>2. CASE \E s \in Custom \cup {SYSKILL}, set \in BOOLEAN : sys_set_handler(s, set)
  BY <1>2, SetHandlerInv
<1>3. CASE Exception
  BY <1>3, ExceptionInv
<1>4. CASE sys_sigreturn
  BY <1>4, SigreturnInv
<1>5. CASE sys_halt \/ DefaultKills \/ CallSpilled \/ SigreturnCut
  BY <1>5, HaltInv
<1>6. CASE sys_execute
  BY <1>6, ExecuteInv
<1>7. CASE Dispatch
  BY <1>7, DispatchInv
<1>8. CASE DispatchCustom
  BY <1>8, DispatchCustomInv
<1>9. CASE DispatchDefault
  BY <1>9, DispatchDefaultInv
<1>10. CASE DefaultReturns
  BY <1>10, DefaultReturnsInv
<1>11. CASE Return
  BY <1>11, ReturnInv
<1>12. CASE WaitEnds
  BY <1>12, WaitEndsInv
<1>13. CASE ExceptionUnmasks
  BY <1>13, ExceptionUnmasksInv
<1>17. CASE ExceptionSignals
  BY <1>17, ExceptionSignalsInv
<1>18. CASE PmanOpens
  BY <1>18, PmanOpensInv
<1>19. CASE \E ctrl \in BOOLEAN : PmanCloses(ctrl)
  BY <1>19, PmanClosesInv
<1>14. CASE Interrupt
  BY <1>14, InterruptInv
<1>15. CASE \E s \in FromInterrupts : SignalArrives(s)
  BY <1>15, SignalArrivesInv
<1>16. CASE UNCHANGED vars
  <2>1. Typed' /\ Nesting' /\ Saved' /\ Urgent'
    BY <1>16 DEF IInv, Typed, Nesting, Stack, Saved, Urgent,
                  vars, pcb, saved, stack, exit, ghosts
  <2>2. Mask' /\ Exceptional' /\ Results_'
    BY <1>16
      DEF IInv, Mask, MaskMatchesHandling, Exceptional, Signalled, ActsOnIt, Results_,
           Outcome,
                  vars, pcb, saved, stack, exit, ghosts
  <2> QED BY <2>1, <2>2 DEF IInv
<1> QED
  BY <1>1, <1>2, <1>3, <1>4, <1>5, <1>6, <1>7, <1>8, <1>9, <1>10, <1>11, <1>12, <1>13,
     <1>14, <1>15, <1>16, <1>17, <1>18, <1>19 DEF Next, Program, KernelStep

\* The invariant holds throughout.
THEOREM Invariant == ASSUME Quiet PROVE Spec => []IInv
<1>1. IInv /\ [Next]_vars => IInv'
  BY Inductive
<1> QED BY Fresh, <1>1, PTL DEF Spec
-----------------------------------------------------------------------------
(* The properties that the run signals checks.                               *)

\* Types: the frames are frames, however deep they nest, and an interrupt is itself
\* interrupted neither before its handler waits nor after its popfl.
THEOREM TypeCorrect == ASSUME Quiet PROVE Spec => []TypeOK
<1>1. IInv => TypeOK
  <2> SUFFICES ASSUME IInv PROVE TypeOK
    OBVIOUS
  <2>1. /\ \A i \in 1 .. Len(kstack) : kstack[i] \in Frame
        /\ \A i \in 1 .. Len(sig_stackshot) : sig_stackshot[i] \in Frame
    BY ElementOfSeq DEF IInv, Typed
  <2>2. depth <= MaxDepth
    BY DEF IInv, Nesting, Stack
  <2>3. \A i \in 1 .. depth :
           kstack[i].kind = "irq" /\ kstack[i].pc \in {"away", "exit"} => ~kstack[i].sti
    BY DEF IInv, Nesting, Stack
  <2> QED BY <2>1, <2>2, <2>3 DEF TypeOK, IInv, Typed
<1> QED BY <1>1, Invariant, PTL

\* A program gets the results of its own calls: sig_stackshot and sig_eax bring them
\* through a handler that calls the kernel itself, as long as the copy was not cut and
\* nothing uses a descriptor that it has overrun.
THEOREM CallsReturn == ASSUME Quiet PROVE Spec => []CallsReturnTheirs
<1>1. IInv => CallsReturnTheirs
  BY DEF CallsReturnTheirs, IInv, Results_, Outcome, InUser
<1> QED BY <1>1, Invariant, PTL

\* A handler runs alone: the line is masked while it runs, through every call and
\* interrupt of it.
THEOREM NoNesting == ASSUME Quiet PROVE Spec => []HandlersDoNotNest
<1>1. IInv => HandlersDoNotNest
  BY DEF HandlersDoNotNest, IInv, Typed
<1> QED BY <1>1, Invariant, PTL

\* The line is masked only while something runs that is going to open it.
THEOREM MaskExact == ASSUME Quiet PROVE Spec => []MaskMatchesHandling
<1>1. IInv => MaskMatchesHandling
  BY DEF IInv, Mask
<1> QED BY <1>1, Invariant, PTL

\* The least of a set has no other least.
LEMMA LeastIsMin ==
  ASSUME NEW S, NEW x \in S, S \subseteq Int, \A y \in S : x <= y
  PROVE  Min(S) = x
<1> DEFINE P(m) == m \in S /\ \A y \in S : m <= y
<1>1. P(x)
  OBVIOUS
<1>2. Min(S) = CHOOSE m \in S : \A y \in S : m <= y
  BY DEF Min
<1>3. P(Min(S))
  BY <1>1, <1>2
<1>4. Min(S) \in Int /\ x \in Int /\ Min(S) <= x /\ x <= Min(S)
  BY <1>1, <1>3
<1> QED BY <1>4

\* Of the signals sent since the last dispatch the most urgent one is pending.
THEOREM MostUrgent == ASSUME Quiet PROVE Spec => []MostUrgentPending
<1>1. IInv => MostUrgentPending
  <2> SUFFICES ASSUME IInv PROVE MostUrgentPending
    OBVIOUS
  <2>1. sent \cup {NULLSIG} \subseteq Int
    BY DEF IInv, Typed, Signal, Exceptions, FromInterrupts, SEGFAULT, INTERRUPT, ALARM,
           SYSKILL,
           NULLSIG
  <2>2. /\ sig_pending \in sent \cup {NULLSIG}
        /\ \A s \in sent \cup {NULLSIG} : sig_pending <= s
    BY DEF IInv, Urgent, Typed, Signal, Exceptions, FromInterrupts, SEGFAULT, SYSKILL,
           INTERRUPT,
           ALARM, NULLSIG
  <2> QED BY <2>1, <2>2, LeastIsMin DEF MostUrgentPending
<1> QED BY <1>1, Invariant, PTL

\* After an exception no instruction of the program itself runs until its handler for
\* it has; the handler of an alarm may, before the exception is signalled.
THEOREM ExceptionsAreActedOn == ASSUME Quiet PROVE Spec => []ExceptionsStop
<1>1. IInv => ExceptionsStop
  BY DEF ExceptionsStop, IInv, Exceptional, InUser
<1> QED BY <1>1, Invariant, PTL
=============================================================================
