---------------------------- MODULE KernelProofs ----------------------------
(***************************************************************************)
(* The safety properties of Kernel, proved for every number of terminals   *)
(* and PIDs, under Quiet: no key before every terminal has its shell, none *)
(* echoed while sys_halt runs with IF = 1.  Without Quiet some of them are *)
(* false, as the run early_shells shows.  The theorems about the lock and  *)
(* the screen moreover leave out what may come between the ENTER that ends *)
(* a wait and the end of the restore: without that they are false.  The    *)
(* others hold there as well.                                              *)
(*                                                                         *)
(* IInv is the inductive invariant.  SameProcesses says what most steps    *)
(* leave alone; ProcessesKept derives from it the parts of IInv that are   *)
(* about processes, so that the lemma of an action is left with the locks, *)
(* the signals and the display.                                            *)
(*                                                                         *)
(* The second half shows that the kernel implements Sessions: Lines says   *)
(* that the parents of a process lead to a base shell, and every action    *)
(* maps to a step of one session.                                          *)
(***************************************************************************)
EXTENDS KernelSessions, NatLemmas, SequenceTheorems, FiniteSetTheorems

Quiet == ~EarlyKeys /\ ~KeysInHalt

\* Nothing but ticks that act on no signal between a wait and the end of its restore.
Calm == ~KeysInRestore /\ ~KillsInRestore

USE DEF display, input, running, user, wait

-----------------------------------------------------------------------------
(* The inductive invariant.                                                 *)

\* p is in front of its terminal.
Front(p) == terminals[slot[p].terminal_id].pcb = p

AllInit == \A t \in Terminal : terminals[t].initialized

\* The round robin brings the terminals up in order; until the last one is up no
\* key has been pressed, so nothing but base shells runs.
Boot ==
  /\ \A t, u \in Terminal : terminals[t].initialized /\ u < t => terminals[u].initialized
  /\ ~AllInit =>
       /\ terminal_active = 0 /\ scheduler_enable
       /\ \A t \in Terminal : ~buf_ready[t] /\ ~got_line[t]
       /\ \A p \in Pid : Alive(p) => p < TERMINAL_COUNT
       /\ \A p \in Pid : waiter[p] = "none"

\* Who halts, who waits and what is masked.  An exception handler is never without a
\* stage, and past its signal the kill is pending.
Waiting(p) ==
  /\ at[p] = "halting" => p = pcb /\ ~pcb_pool[p] /\ progress
  /\ waiter[p] = "enter" => p = pcb /\ progress /\ ~slot[p].sig_pending
  /\ waiter[p] # "none" => at[p] \notin {"exec", "halting", "none"}
  /\ waiter[p] \in {"unmask", "signal"} => at[p] = "fault"
  /\ at[p] = "fault" => waiter[p] \notin {"none", "ctrl"}
  /\ sig_mask(p) => ~slot[p].sig_pending
  /\ at[p] = "fault" /\ waiter[p] \in {"restore", "unlock", "dispatch"} =>
       slot[p].sig_pending

\* A kill is pending for the running process only where it is about to be acted on.
PendingAct ==
  slot[pcb].sig_pending => \/ irq_off \/ waiter[pcb] = "dispatch"
                           \/ at[pcb] = "fault" /\ waiter[pcb] \in {"restore", "unlock"}

\* Who holds progress, and where a pending kill can be.
Lock ==
  /\ \A p \in Pid : Waiting(p)
  /\ keyboard_wait_flag <=> waiter[pcb] = "enter"
  /\ PendingAct
  /\ ~KeysInRestore => ProgressOwned /\ CriticalNotPreempted

\* A live process: of a terminal that is up, and either in front of it or in
\* sys_execute with a child.  A dead one is nowhere.
Placed(p) ==
  /\ Alive(p) => terminals[slot[p].terminal_id].initialized
  /\ Alive(p) /\ p < TERMINAL_COUNT => terminals[p].initialized
  /\ Alive(p) => (Front(p) <=> at[p] # "exec")
  /\ Alive(p) <=> at[p] # "none"

HasChild(p) == \E q \in Pid : Alive(q) /\ q >= TERMINAL_COUNT /\ slot[q].previous_id = p

\* No two children of one parent.
OnlyChild ==
  \A p, q \in Pid :
     Alive(p) /\ Alive(q) /\ p >= TERMINAL_COUNT /\ q >= TERMINAL_COUNT
       /\ slot[p].previous_id = slot[q].previous_id => p = q

Tree ==
  /\ FrontIsOwn /\ BaseShellPids /\ ParentWaits
  /\ \A p \in Pid : Placed(p)
  /\ \A p \in Pid : Alive(p) /\ ~Front(p) => HasChild(p)
  /\ OnlyChild

\* Where the running process is shown.
PageRouted == vidmap_page = IF Running = terminal_active THEN VRAM ELSE Running

Display ==
  /\ PageRouted /\ VidmapOwned /\ ReaderEchoes
  /\ Calm => VideoRouted /\ (irq_off /\ Borrows(pcb) => ~slot[pcb].sig_pending)

IInv == TypeOK /\ Boot /\ Lock /\ Tree /\ StackAndPageOwn /\ KillsAreForFront /\ Display

-----------------------------------------------------------------------------
(* Constants and types.                                                     *)

\* PIDs are integers; those below TERMINAL_COUNT are the terminals' own.
LEMMA PidFacts ==
  /\ Terminal \subseteq Pid /\ Pid \subseteq Int /\ 0 \in Terminal /\ TERMINAL_COUNT \in Int
  /\ \A p \in Pid : p < TERMINAL_COUNT <=> p \in Terminal
  /\ \A p \in Pid : p >= TERMINAL_COUNT <=> p \notin Terminal
  /\ \A p, q \in Pid : q < p => q # p /\ (p \in Terminal => q \in Terminal)
BY KernelAssumption DEF KernelAssumption, Terminal, Pid

\* find_next_pid returns the least free PID if there is one.
LEMMA NextPid ==
  ASSUME FreePids # {}
  PROVE  find_next_pid \in FreePids /\ \A q \in FreePids : find_next_pid <= q
<1>1. FreePids \subseteq Nat
  BY DEF FreePids, Pid
<1>2. \E p \in FreePids : \A q \in FreePids : p <= q
  BY <1>1, LeastNat
<1> QED BY <1>2 DEF find_next_pid

\* A shell is started under the PID of its terminal when that PID is free and
\* those below it are not.
LEMMA NextPidIs ==
  ASSUME NEW t \in Pid, ~pcb_pool[t], \A q \in Pid : q < t => pcb_pool[q]
  PROVE  find_next_pid = t
<1>1. t \in FreePids /\ \A q \in FreePids : t <= q
  BY PidFacts DEF FreePids
<1>2. find_next_pid \in FreePids /\ \A q \in FreePids : find_next_pid <= q
  BY <1>1, NextPid
<1> QED BY <1>1, <1>2, PidFacts DEF FreePids

\* Setting one Boolean field of one entry keeps the tables typed.
LEMMA SlotTyped ==
  ASSUME NEW s \in [Pid -> pcb_t], NEW q \in Pid, NEW b \in BOOLEAN, NEW S,
         S = [s EXCEPT ![q].sig_pending = b]
  PROVE  /\ S \in [Pid -> pcb_t] /\ S[q].sig_pending = b
         /\ \A p \in Pid : /\ S[p].process_id = s[p].process_id
                           /\ S[p].terminal_id = s[p].terminal_id
                           /\ S[p].previous_id = s[p].previous_id
                           /\ p # q => S[p].sig_pending = s[p].sig_pending
<1>1. s[q] \in pcb_t /\ S = [s EXCEPT ![q] = [s[q] EXCEPT !.sig_pending = b]]
  BY DEF pcb_t
<1>2. [s[q] EXCEPT !.sig_pending = b] \in pcb_t
  BY <1>1 DEF pcb_t
<1> QED BY <1>1, <1>2 DEF pcb_t

LEMMA TerminalsTyped ==
  ASSUME NEW T \in [Terminal -> terminal_t], NEW t, NEW b \in BOOLEAN
  PROVE  /\ [T EXCEPT ![t].echo = b] \in [Terminal -> terminal_t]
         /\ [T EXCEPT ![t].vidmap = b] \in [Terminal -> terminal_t]
<1>1. \A r \in terminal_t : [r EXCEPT !.echo = b] \in terminal_t
  BY DEF terminal_t
<1>2. \A r \in terminal_t : [r EXCEPT !.vidmap = b] \in terminal_t
  BY DEF terminal_t
<1> QED BY <1>1, <1>2

\* sig_set changes the pending signal of its target, if that is not masked.
LEMMA SignalSets ==
  ASSUME slot \in [Pid -> pcb_t], NEW q \in Pid
  PROVE  /\ sig_set(q) \in [Pid -> pcb_t]
         /\ \A p \in Pid : /\ sig_set(q)[p].process_id = slot[p].process_id
                           /\ sig_set(q)[p].terminal_id = slot[p].terminal_id
                           /\ sig_set(q)[p].previous_id = slot[p].previous_id
                           /\ p # q => sig_set(q)[p].sig_pending = slot[p].sig_pending
         /\ sig_set(q)[q].sig_pending <=> slot[q].sig_pending \/ ~sig_mask(q)
<1>1. PICK b \in BOOLEAN : b <=> slot[q].sig_pending \/ ~sig_mask(q)
  OBVIOUS
<1>2. sig_set(q) = [slot EXCEPT ![q].sig_pending = b]
  BY <1>1 DEF sig_set, pcb_t
<1> QED BY <1>1, <1>2, SlotTyped

\* sig_dispatch takes the pending signal of the running process.
LEMMA KillTaken ==
  ASSUME slot \in [Pid -> pcb_t], pcb \in Pid,
         slot' = [slot EXCEPT ![pcb].sig_pending = FALSE]
  PROVE  /\ slot' \in [Pid -> pcb_t] /\ ~slot'[pcb].sig_pending
         /\ \A p \in Pid : /\ slot'[p].process_id = slot[p].process_id
                           /\ slot'[p].terminal_id = slot[p].terminal_id
                           /\ slot'[p].previous_id = slot[p].previous_id
                           /\ p # pcb => slot'[p].sig_pending = slot[p].sig_pending
<1>1. PICK b \in BOOLEAN : b = FALSE
  OBVIOUS
<1>2. PICK q \in Pid : q = pcb
  OBVIOUS
<1>3. PICK S : S = slot'
  OBVIOUS
<1>4. S = [slot EXCEPT ![q].sig_pending = b]
  BY <1>1, <1>2, <1>3
<1>5. /\ S \in [Pid -> pcb_t] /\ S[q].sig_pending = b
      /\ \A p \in Pid : /\ S[p].process_id = slot[p].process_id
                        /\ S[p].terminal_id = slot[p].terminal_id
                        /\ S[p].previous_id = slot[p].previous_id
                        /\ p # q => S[p].sig_pending = slot[p].sig_pending
  BY <1>4, SlotTyped, SMTT(60)
<1> QED BY <1>1, <1>2, <1>3, <1>5

\* What the invariant says of the running process.
LEMMA RunningFacts ==
  ASSUME IInv
  PROVE  /\ Running \in Terminal /\ pcb \in Pid /\ Alive(pcb)
         /\ at[pcb] \notin {"exec", "none"}
         /\ terminals[Running].pcb = pcb /\ terminals[Running].initialized
         /\ slot[pcb].process_id = pcb /\ slot[pcb].terminal_id = Running
<1>1. Running \in Terminal /\ pcb \in Pid
  BY DEF IInv, TypeOK, Running, pcb_t
<1>2. terminals[Running].pcb = pcb /\ terminals[Running].initialized
  BY DEF IInv, Tree, FrontIsOwn
<1>3. Alive(pcb)
  BY <1>1, <1>2 DEF IInv, Tree, FrontIsOwn
<1>4. Front(pcb) /\ Placed(pcb)
  BY <1>1, <1>2 DEF Front, Running, IInv, Tree
<1>5. slot[pcb].process_id = pcb
  BY <1>1, <1>3 DEF IInv, StackAndPageOwn
<1> QED BY <1>1, <1>2, <1>3, <1>4, <1>5 DEF Placed, Alive, Running

-----------------------------------------------------------------------------
(* Steps that keep the processes.                                           *)

\* No process starts or ends, none leaves the front of its terminal, and no parent
\* stops waiting.
SameProcesses ==
  /\ \A p \in Pid : /\ Alive(p)' <=> Alive(p)
                    /\ at'[p] = "exec" <=> at[p] = "exec"
                    /\ at[p] = "exec" /\ pcb_pool[p] => pcb_pool'[p]
                    /\ slot'[p].process_id = slot[p].process_id
                    /\ slot'[p].terminal_id = slot[p].terminal_id
                    /\ slot'[p].previous_id = slot[p].previous_id
                    /\ Alive(p) => at'[p] # "none"
                    /\ ~Alive(p) => at'[p] = "none"
  /\ \A t \in Terminal : /\ terminals'[t].initialized <=> terminals[t].initialized
                         /\ terminals'[t].pcb = terminals[t].pcb

\* Such a step keeps Tree, if the process that runs after it is in front.
LEMMA TreeKept ==
  ASSUME TypeOK, Tree, TypeOK', SameProcesses,
         terminals[slot[pcb'].terminal_id].initialized,
         terminals[slot[pcb'].terminal_id].pcb = pcb'
  PROVE  Tree'
<1> USE PidFacts
<1>0. \A p \in Pid : slot[p].terminal_id \in Terminal /\ slot[p].previous_id \in Pid
  BY DEF TypeOK, pcb_t
<1>p. pcb' \in Pid
  BY DEF TypeOK
<1>1. FrontIsOwn'
  <2>1. ASSUME NEW t \in Terminal, terminals'[t].initialized
        PROVE  terminals'[t].pcb \in Pid /\ Alive(terminals[t].pcb)'
               /\ slot'[terminals'[t].pcb].terminal_id = t
    <3>1. terminals[t].initialized /\ terminals'[t].pcb = terminals[t].pcb
      BY <2>1 DEF SameProcesses
    <3>2. terminals[t].pcb \in Pid /\ Alive(terminals[t].pcb)
          /\ slot[terminals[t].pcb].terminal_id = t
      BY <3>1 DEF Tree, FrontIsOwn
    <3> QED BY <3>1, <3>2, ZenonT(30) DEF SameProcesses, Alive
  <2>2. terminals'[slot'[pcb'].terminal_id].initialized
        /\ terminals'[slot'[pcb'].terminal_id].pcb = pcb'
    BY <1>0, <1>p DEF SameProcesses
  <2> QED BY <2>1, <2>2 DEF FrontIsOwn, Running
<1>2. BaseShellPids'
  BY DEF Tree, BaseShellPids, IsBaseShell, SameProcesses, Alive
<1>3. ParentWaits'
  <2> SUFFICES ASSUME NEW p \in Pid, Alive(p)', p >= TERMINAL_COUNT,
                      NEW q, q = slot'[p].previous_id
               PROVE  /\ pcb_pool'[q] /\ q # p
                      /\ at'[q] = "exec"
                      /\ slot'[q].terminal_id = slot'[p].terminal_id
    BY DEF ParentWaits
  <2>1. q \in Pid /\ q = slot[p].previous_id /\ Alive(p)
    BY <1>0 DEF SameProcesses
  <2>2. /\ pcb_pool[q] /\ q # p
        /\ at[q] = "exec"
        /\ slot[q].terminal_id = slot[p].terminal_id
    BY <2>1 DEF Tree, ParentWaits
  <2> QED BY <2>1, <2>2 DEF SameProcesses
<1>4. \A p \in Pid : Front(p)' <=> Front(p)
  BY <1>0 DEF Front, SameProcesses
<1>5. ASSUME NEW p \in Pid PROVE Placed(p)'
  <2>1. Placed(p)
    BY DEF Tree
  <2> QED BY <2>1, <1>0, <1>4 DEF Placed, SameProcesses
<1>6. ASSUME NEW p \in Pid, Alive(p)', ~Front(p)' PROVE HasChild(p)'
  <2>1. Alive(p) /\ ~Front(p)
    BY <1>4, <1>6 DEF SameProcesses
  <2>2. PICK q \in Pid : Alive(q) /\ q >= TERMINAL_COUNT /\ slot[q].previous_id = p
    BY <2>1 DEF Tree, HasChild
  <2>3. Alive(q)' /\ slot'[q].previous_id = p
    BY <2>2 DEF SameProcesses
  <2> QED BY <2>2, <2>3 DEF HasChild
<1>7. OnlyChild'
  BY DEF Tree, OnlyChild, SameProcesses
<1> QED BY <1>1, <1>2, <1>3, <1>5, <1>6, <1>7 DEF Tree

\* If moreover the same process runs on, and no key has reached a terminal before all
\* are up, the other parts about processes are kept too.
LEMMA ProcessesKept ==
  ASSUME IInv, TypeOK', SameProcesses, UNCHANGED running,
         \A t \in Terminal : terminals'[t].tss_esp = terminals[t].tss_esp,
         \/ AllInit
         \/ /\ UNCHANGED <<terminal_active, scheduler_enable>>
            /\ \A p \in Pid : waiter[p] = "none" => waiter'[p] = "none"
            /\ \A t \in Terminal : /\ buf_ready'[t] => buf_ready[t]
                                   /\ got_line'[t] => got_line[t] \/ buf_ready[t]
  PROVE  Boot' /\ Tree' /\ StackAndPageOwn'
<1> USE PidFacts, RunningFacts
<1>1. Boot'
  <2>1. AllInit' <=> AllInit
    BY DEF AllInit, SameProcesses
  <2>2. \A t, u \in Terminal : terminals'[t].initialized /\ u < t => terminals'[u].initialized
    BY DEF IInv, Boot, SameProcesses
  <2>3. ASSUME ~AllInit
        PROVE  /\ terminal_active' = 0 /\ scheduler_enable'
               /\ \A t \in Terminal : ~buf_ready'[t] /\ ~got_line'[t]
               /\ \A p \in Pid : Alive(p)' => p < TERMINAL_COUNT
               /\ \A p \in Pid : waiter'[p] = "none"
    BY <2>3 DEF IInv, Boot, SameProcesses
  <2> QED BY <2>1, <2>2, <2>3 DEF Boot
<1>2. Tree'
  BY TreeKept DEF IInv
<1>3. StackAndPageOwn'
  <2>1. program_page' = pcb' /\ tss_esp0' = pcb'
    BY DEF IInv, StackAndPageOwn
  <2>2. \A p \in Pid : Alive(p)' => slot'[p].process_id = p
    BY DEF IInv, StackAndPageOwn, SameProcesses
  <2>3. Running' = Running
    BY DEF SameProcesses, Running
  <2>4. \A t \in Terminal : terminals'[t].initialized /\ t # Running' =>
          terminals'[t].tss_esp = terminals'[t].pcb
    BY <2>3 DEF IInv, StackAndPageOwn, SameProcesses
  <2> QED BY <2>1, <2>2, <2>4 DEF StackAndPageOwn
<1> QED BY <1>1, <1>2, <1>3

-----------------------------------------------------------------------------
(* One lemma per action.                                                    *)


LEMMA SysReturnInv == ASSUME IInv, SysReturn PROVE IInv'
<1> USE PidFacts, RunningFacts DEF SysReturn, InUser, Proceeds
<1>1. TypeOK'
  BY DEF IInv, TypeOK, Location
<1>2. SameProcesses
  BY DEF IInv, TypeOK, SameProcesses, Tree, Placed, Alive
<1>3. Boot' /\ Tree' /\ StackAndPageOwn'
  BY <1>1, <1>2, ProcessesKept DEF IInv, TypeOK
<1>4. Lock'
  BY DEF IInv, TypeOK, Lock, Waiting, PendingAct, ProgressOwned, CriticalNotPreempted, Holds, Borrows, sig_mask
<1>5. KillsAreForFront'
  BY <1>2 DEF IInv, KillsAreForFront, SameProcesses
<1>6. Display'
  BY DEF IInv, TypeOK, Display, Calm, PageRouted, VideoRouted, VidmapOwned, ReaderEchoes, Running, Borrows
<1> QED BY <1>1, <1>3, <1>4, <1>5, <1>6 DEF IInv

LEMMA SysReadStdinInv == ASSUME IInv, SysReadStdin PROVE IInv'
<1> USE PidFacts, RunningFacts DEF SysReadStdin, InUser, Proceeds, Echo
<1>t. terminals' \in [Terminal -> terminal_t]
  BY TerminalsTyped DEF IInv, TypeOK
<1>1. TypeOK'
  BY <1>t DEF IInv, TypeOK, Location
<1>2. SameProcesses
  BY DEF IInv, TypeOK, SameProcesses, Tree, Placed, Alive, terminal_t
<1>3. Boot' /\ Tree' /\ StackAndPageOwn'
  BY <1>1, <1>2, ProcessesKept DEF IInv, TypeOK
<1>4. Lock'
  BY DEF IInv, TypeOK, Lock, Waiting, PendingAct, ProgressOwned, CriticalNotPreempted, Holds, Borrows, sig_mask
<1>5. KillsAreForFront'
  BY <1>2 DEF IInv, KillsAreForFront, SameProcesses
<1>6. Display'
  BY DEF IInv, TypeOK, Display, Calm, PageRouted, VideoRouted, VidmapOwned, ReaderEchoes, Running, Borrows
<1> QED BY <1>1, <1>3, <1>4, <1>5, <1>6 DEF IInv

LEMMA ReadStdinReturnsInv == ASSUME IInv, ReadStdinReturns PROVE IInv'
<1> USE PidFacts, RunningFacts DEF ReadStdinReturns, LineReady, Proceeds, Echo
<1>t. terminals' \in [Terminal -> terminal_t]
  BY TerminalsTyped DEF IInv, TypeOK
<1>g. got_line' \in [Terminal -> BOOLEAN]
  <2>1. IsBaseShell(pcb) \in BOOLEAN
    BY DEF IsBaseShell
  <2> QED BY <2>1 DEF IInv, TypeOK
<1>1. TypeOK'
  BY <1>t, <1>g DEF IInv, TypeOK, Location
<1>2. SameProcesses
  BY DEF IInv, TypeOK, SameProcesses, Tree, Placed, Alive, terminal_t
<1>3. Boot' /\ Tree' /\ StackAndPageOwn'
  BY <1>1, <1>2, ProcessesKept DEF IInv, TypeOK
<1>4. Lock'
  BY DEF IInv, TypeOK, Lock, Waiting, PendingAct, ProgressOwned, CriticalNotPreempted, Holds, Borrows, sig_mask
<1>5. KillsAreForFront'
  BY <1>2 DEF IInv, KillsAreForFront, SameProcesses
<1>6. /\ PageRouted' /\ VidmapOwned'
      /\ Calm => VideoRouted' /\ (irq_off /\ Borrows(pcb) => ~slot[pcb].sig_pending)'
  BY DEF IInv, TypeOK, Display, Calm, PageRouted, VideoRouted, VidmapOwned, Running, Borrows
<1>7. ReaderEchoes'
  <2>1. ASSUME NEW p \in Pid, at[p] = "read", p # pcb
        PROVE  slot[p].terminal_id # Running
    BY <2>1 DEF IInv, Tree, Placed, Front
  <2> QED BY <2>1 DEF IInv, TypeOK, pcb_t, Display, ReaderEchoes
<1> QED BY <1>1, <1>3, <1>4, <1>5, <1>6, <1>7 DEF IInv, Display

LEMMA SysReadRtcInv == ASSUME IInv, SysReadRtc PROVE IInv'
<1> USE PidFacts, RunningFacts DEF SysReadRtc, InUser, Proceeds
<1>1. TypeOK'
  BY DEF IInv, TypeOK, Location
<1>2. SameProcesses
  BY DEF IInv, TypeOK, SameProcesses, Tree, Placed, Alive
<1>3. Boot' /\ Tree' /\ StackAndPageOwn'
  BY <1>1, <1>2, ProcessesKept DEF IInv, TypeOK
<1>4. Lock'
  BY DEF IInv, TypeOK, Lock, Waiting, PendingAct, ProgressOwned, CriticalNotPreempted, Holds, Borrows, sig_mask
<1>5. KillsAreForFront'
  BY <1>2 DEF IInv, KillsAreForFront, SameProcesses
<1>6. Display'
  BY DEF IInv, TypeOK, Display, Calm, PageRouted, VideoRouted, VidmapOwned, ReaderEchoes, Running, Borrows
<1> QED BY <1>1, <1>3, <1>4, <1>5, <1>6 DEF IInv

LEMMA ReadRtcReturnsInv == ASSUME IInv, ReadRtcReturns PROVE IInv'
<1> USE PidFacts, RunningFacts DEF ReadRtcReturns, Proceeds
<1>1. TypeOK'
  BY DEF IInv, TypeOK, Location
<1>2. SameProcesses
  BY DEF IInv, TypeOK, SameProcesses, Tree, Placed, Alive
<1>3. Boot' /\ Tree' /\ StackAndPageOwn'
  BY <1>1, <1>2, ProcessesKept DEF IInv, TypeOK
<1>4. Lock'
  BY DEF IInv, TypeOK, Lock, Waiting, PendingAct, ProgressOwned, CriticalNotPreempted, Holds, Borrows, sig_mask
<1>5. KillsAreForFront'
  BY <1>2 DEF IInv, KillsAreForFront, SameProcesses
<1>6. Display'
  BY DEF IInv, TypeOK, Display, Calm, PageRouted, VideoRouted, VidmapOwned, ReaderEchoes, Running, Borrows
<1> QED BY <1>1, <1>3, <1>4, <1>5, <1>6 DEF IInv

LEMMA SysVidmapInv == ASSUME IInv, SysVidmap PROVE IInv'
<1> USE PidFacts, RunningFacts DEF SysVidmap, InUser, Proceeds
<1>t. terminals' \in [Terminal -> terminal_t]
  BY TerminalsTyped DEF IInv, TypeOK
<1>1. TypeOK'
  BY <1>t DEF IInv, TypeOK, Location
<1>2. SameProcesses
  BY DEF IInv, TypeOK, SameProcesses, Tree, Placed, Alive, terminal_t
<1>3. Boot' /\ Tree' /\ StackAndPageOwn'
  BY <1>1, <1>2, ProcessesKept DEF IInv, TypeOK
<1>4. Lock'
  BY DEF IInv, TypeOK, Lock, Waiting, PendingAct, ProgressOwned, CriticalNotPreempted, Holds, Borrows, sig_mask
<1>5. KillsAreForFront'
  BY <1>2 DEF IInv, KillsAreForFront, SameProcesses
<1>6. /\ Running' = Running /\ terminals'[Running].vidmap
      /\ \A t \in Terminal : terminals'[t].echo = terminals[t].echo
  BY DEF IInv, TypeOK, terminal_t, Running
<1>7. \A p \in Pid : slot[p].terminal_id \in Terminal /\ (at'[p] = "read" => at[p] = "read")
  BY DEF IInv, TypeOK, pcb_t
<1>8. Display'
  <2>1. /\ PageRouted'
        /\ Calm => VideoRouted' /\ (irq_off /\ Borrows(pcb) => ~slot[pcb].sig_pending)'
    BY <1>6 DEF IInv, Display, Calm, PageRouted, VideoRouted, Borrows
  <2>2. VidmapOwned'
    BY <1>6 DEF IInv, Display, VidmapOwned
  <2>3. ReaderEchoes'
    BY <1>6, <1>7 DEF IInv, Display, ReaderEchoes
  <2> QED BY <2>1, <2>2, <2>3 DEF Display
<1> QED BY <1>1, <1>3, <1>4, <1>5, <1>8 DEF IInv

LEMMA SysHaltInv == ASSUME IInv, SysHalt PROVE IInv'
<1> USE PidFacts, RunningFacts DEF SysHalt, InUser, Proceeds, HaltBegins, FreedPool
<1>1. TypeOK'
  BY DEF IInv, TypeOK, Location
<1>2. SameProcesses
  BY DEF IInv, TypeOK, SameProcesses, Tree, Placed, Alive
<1>3. Boot' /\ Tree' /\ StackAndPageOwn'
  BY <1>1, <1>2, ProcessesKept DEF IInv, TypeOK
<1>4. Lock'
  BY DEF IInv, TypeOK, Lock, Waiting, PendingAct, ProgressOwned, CriticalNotPreempted, Holds, Borrows, sig_mask
<1>5. KillsAreForFront'
  BY <1>2 DEF IInv, KillsAreForFront, SameProcesses
<1>6. Display'
  BY DEF IInv, TypeOK, Display, Calm, PageRouted, VideoRouted, VidmapOwned, ReaderEchoes, Running, Borrows
<1> QED BY <1>1, <1>3, <1>4, <1>5, <1>6 DEF IInv

LEMMA ExitToUserInv == ASSUME IInv, ExitToUser PROVE IInv'
<1> USE PidFacts, RunningFacts DEF ExitToUser, Proceeds
<1>1. TypeOK'
  BY DEF IInv, TypeOK, Location
<1>2. SameProcesses
  BY DEF IInv, TypeOK, SameProcesses, Tree, Placed, Alive
<1>3. Boot' /\ Tree' /\ StackAndPageOwn'
  BY <1>1, <1>2, ProcessesKept DEF IInv, TypeOK
<1>4. Lock'
  BY DEF IInv, TypeOK, Lock, Waiting, PendingAct, ProgressOwned, CriticalNotPreempted, Holds, Borrows, sig_mask
<1>5. KillsAreForFront'
  BY <1>2 DEF IInv, KillsAreForFront, SameProcesses
<1>6. Display'
  BY DEF IInv, TypeOK, Display, Calm, PageRouted, VideoRouted, VidmapOwned, ReaderEchoes, Running, Borrows
<1> QED BY <1>1, <1>3, <1>4, <1>5, <1>6 DEF IInv

LEMMA CtrlCInv == ASSUME IInv, Quiet, CtrlC PROVE IInv'
<1> USE PidFacts, RunningFacts DEF CtrlC, KeyArrives, Interruptible, KeysAllowed
<1>q. PICK q \in Pid : q = terminals[terminal_active].pcb /\ slot[q].terminal_id = terminal_active
  BY DEF Quiet, IInv, TypeOK, Tree, FrontIsOwn
<1>s. /\ slot' \in [Pid -> pcb_t]
      /\ \A p \in Pid : /\ slot'[p].process_id = slot[p].process_id
                        /\ slot'[p].terminal_id = slot[p].terminal_id
                        /\ slot'[p].previous_id = slot[p].previous_id
                        /\ p # q => slot'[p].sig_pending = slot[p].sig_pending
                        /\ p = q => (slot'[p].sig_pending <=> slot[p].sig_pending \/ ~sig_mask(p))
  BY <1>q, SignalSets DEF IInv, TypeOK, InterruptTarget
<1>1. TypeOK'
  BY <1>s DEF IInv, TypeOK, Location
<1>2. SameProcesses
  BY <1>s DEF IInv, TypeOK, SameProcesses, Tree, Placed, Alive
<1>3. Boot' /\ Tree' /\ StackAndPageOwn'
  BY <1>1, <1>2, ProcessesKept DEF Quiet, AllInit, IInv, TypeOK
<1>4. Lock'
  BY <1>s DEF IInv, TypeOK, Lock, Waiting, PendingAct, ProgressOwned,
       CriticalNotPreempted, Holds, Borrows, sig_mask
<1>5. KillsAreForFront'
  <2>2. \A p \in Pid : slot'[p].sig_pending => slot[p].sig_pending \/ p = q
    BY <1>s
  <2>3. \A p \in Pid : Alive(p)' /\ slot'[p].sig_pending => terminals[slot[p].terminal_id].pcb = p
    BY <1>2, <1>q, <2>2 DEF IInv, KillsAreForFront, SameProcesses
  <2> QED BY <1>s, <2>3 DEF KillsAreForFront
<1>6. Display'
  <2>1. Calm => ~Borrows(pcb)
    BY DEF IInv, Lock, Calm, ProgressOwned, Holds
  <2> QED BY <1>s, <2>1 DEF IInv, TypeOK, Display, Calm, PageRouted, VideoRouted,
       VidmapOwned, ReaderEchoes, Running, Borrows
<1> QED BY <1>1, <1>3, <1>4, <1>5, <1>6 DEF IInv

LEMMA CtrlSInv == ASSUME IInv, Quiet, CtrlS PROVE IInv'
<1> USE PidFacts, RunningFacts DEF CtrlS, KeyArrives, Interruptible, KeysAllowed, sig_mask
<1>1. TypeOK'
  BY DEF IInv, TypeOK, Location
<1>2. SameProcesses
  BY DEF IInv, TypeOK, SameProcesses, Tree, Placed, Alive
<1>3. Boot' /\ Tree' /\ StackAndPageOwn'
  BY <1>1, <1>2, ProcessesKept DEF Quiet, AllInit, IInv, TypeOK
<1>4. Lock'
  BY DEF IInv, TypeOK, Lock, Waiting, PendingAct, ProgressOwned, CriticalNotPreempted, Holds, Borrows, sig_mask
<1>5. KillsAreForFront'
  BY <1>2 DEF IInv, KillsAreForFront, SameProcesses
<1>6. Display'
  <2>1. Calm => ~Borrows(pcb)
    BY DEF IInv, Lock, Calm, ProgressOwned, Holds
  <2> QED BY <2>1 DEF IInv, TypeOK, Display, Calm, PageRouted, VideoRouted, VidmapOwned,
       ReaderEchoes, Running, Borrows
<1> QED BY <1>1, <1>3, <1>4, <1>5, <1>6 DEF IInv

LEMMA CtrlPInv == ASSUME IInv, Quiet, CtrlP PROVE IInv'
<1> USE PidFacts, RunningFacts DEF CtrlP, KeyArrives, Interruptible, KeysAllowed, WaitBegins
<1>1. TypeOK'
  BY DEF IInv, TypeOK, Location, Frame, Stage
<1>2. SameProcesses
  BY DEF IInv, TypeOK, SameProcesses, Tree, Placed, Alive
<1>3. Boot' /\ Tree' /\ StackAndPageOwn'
  BY <1>1, <1>2, ProcessesKept DEF Quiet, AllInit, IInv, TypeOK
<1>4. Lock'
  BY DEF IInv, TypeOK, Lock, Waiting, PendingAct, ProgressOwned, CriticalNotPreempted, Holds, Borrows, sig_mask
<1>5. KillsAreForFront'
  BY <1>2 DEF IInv, KillsAreForFront, SameProcesses
<1>6. Display'
  BY DEF IInv, TypeOK, Display, Calm, PageRouted, VideoRouted, VidmapOwned, ReaderEchoes, Running, Borrows, Lock, ProgressOwned
<1> QED BY <1>1, <1>3, <1>4, <1>5, <1>6 DEF IInv

LEMMA FaultInv == ASSUME IInv, Fault PROVE IInv'
<1> USE PidFacts, RunningFacts DEF Fault, InUser, Proceeds, WaitBegins
<1>1. TypeOK'
  BY DEF IInv, TypeOK, Location, Frame, Stage
<1>2. SameProcesses
  BY DEF IInv, TypeOK, SameProcesses, Tree, Placed, Alive
<1>a. AllInit
  <2>1. pcb \in Terminal /\ terminals[pcb].initialized => IsBaseShell(pcb)
    BY DEF IInv, Tree, BaseShellPids
  <2>2. ~AllInit => pcb \in Terminal /\ terminals[pcb].initialized
    BY DEF IInv, Boot, Tree, Placed
  <2> QED BY <2>1, <2>2
<1>3. Boot' /\ Tree' /\ StackAndPageOwn'
  BY <1>a, <1>1, <1>2, ProcessesKept DEF IInv, TypeOK
<1>4. Lock'
  BY DEF IInv, TypeOK, Lock, Waiting, PendingAct, ProgressOwned, CriticalNotPreempted, Holds, Borrows, sig_mask
<1>5. KillsAreForFront'
  BY <1>2 DEF IInv, KillsAreForFront, SameProcesses
<1>6. Display'
  BY DEF IInv, TypeOK, Display, Calm, PageRouted, VideoRouted, VidmapOwned, ReaderEchoes, Running, Borrows, Lock, ProgressOwned
<1> QED BY <1>1, <1>3, <1>4, <1>5, <1>6 DEF IInv

\* The stages of a handler that waits.
LEMMA KeyEnterInv == ASSUME IInv, KeyEnter PROVE IInv'
<1> USE PidFacts, RunningFacts DEF KeyEnter, GoesOn
<1>0. /\ waiter' \in [Pid -> Stage] /\ waiter'[pcb] = (IF at[pcb] = "fault" THEN "unmask" ELSE "restore")
      /\ \A p \in Pid : p # pcb => waiter'[p] = waiter[p]
  BY DEF IInv, TypeOK, Stage
<1>a. AllInit
  BY DEF IInv, Boot
<1>1. TypeOK'
  BY <1>0 DEF IInv, TypeOK, Frame
<1>2. SameProcesses
  BY <1>0 DEF IInv, TypeOK, SameProcesses, Tree, Placed, Alive
<1>3. Boot' /\ Tree' /\ StackAndPageOwn'
  BY <1>a, <1>1, <1>2, ProcessesKept DEF IInv, TypeOK
<1>4. Lock'
  BY <1>0 DEF IInv, TypeOK, Lock, Waiting, PendingAct, ProgressOwned,
       CriticalNotPreempted, Holds, Borrows, sig_mask
<1>5. KillsAreForFront'
  BY <1>2 DEF IInv, KillsAreForFront, SameProcesses
<1>6. Display'
  BY <1>0 DEF IInv, TypeOK, Display, Calm, PageRouted, VideoRouted, VidmapOwned,
       ReaderEchoes, Running, Borrows, Lock, Waiting
<1> QED BY <1>1, <1>3, <1>4, <1>5, <1>6 DEF IInv

LEMMA ReportUnmasksInv == ASSUME IInv, ReportUnmasks PROVE IInv'
<1> USE PidFacts, RunningFacts DEF ReportUnmasks, GoesOn
<1>0. /\ waiter' \in [Pid -> Stage] /\ waiter'[pcb] = "signal"
      /\ \A p \in Pid : p # pcb => waiter'[p] = waiter[p]
  BY DEF IInv, TypeOK, Stage
<1>a. AllInit
  BY DEF IInv, Boot
<1>1. TypeOK'
  BY <1>0 DEF IInv, TypeOK, Frame
<1>2. SameProcesses
  BY <1>0 DEF IInv, TypeOK, SameProcesses, Tree, Placed, Alive
<1>3. Boot' /\ Tree' /\ StackAndPageOwn'
  BY <1>a, <1>1, <1>2, ProcessesKept DEF IInv, TypeOK
<1>4. Lock'
  BY <1>0 DEF IInv, TypeOK, Lock, Waiting, PendingAct, ProgressOwned,
       CriticalNotPreempted, Holds, Borrows, sig_mask
<1>5. KillsAreForFront'
  BY <1>2 DEF IInv, KillsAreForFront, SameProcesses
<1>6. Display'
  BY <1>0 DEF IInv, TypeOK, Display, Calm, PageRouted, VideoRouted, VidmapOwned,
       ReaderEchoes, Running, Borrows, Lock, Waiting
<1> QED BY <1>1, <1>3, <1>4, <1>5, <1>6 DEF IInv

LEMMA ReportSignalsInv == ASSUME IInv, ReportSignals PROVE IInv'
<1> USE PidFacts, RunningFacts DEF ReportSignals, GoesOn
<1>0. /\ waiter' \in [Pid -> Stage] /\ waiter'[pcb] = "restore"
      /\ \A p \in Pid : p # pcb => waiter'[p] = waiter[p]
  BY DEF IInv, TypeOK, Stage
<1>a. AllInit
  BY DEF IInv, Boot
<1>s. /\ slot' \in [Pid -> pcb_t]
      /\ \A p \in Pid : /\ slot'[p].process_id = slot[p].process_id
                        /\ slot'[p].terminal_id = slot[p].terminal_id
                        /\ slot'[p].previous_id = slot[p].previous_id
                        /\ p # pcb => slot'[p].sig_pending = slot[p].sig_pending
                        /\ p = pcb => slot'[p].sig_pending
  BY SignalSets DEF IInv, TypeOK, Lock, Waiting, PendingAct, sig_mask
<1>1. TypeOK'
  BY <1>0, <1>s DEF IInv, TypeOK, Frame
<1>2. SameProcesses
  BY <1>0, <1>s DEF IInv, TypeOK, SameProcesses, Tree, Placed, Alive
<1>3. Boot' /\ Tree' /\ StackAndPageOwn'
  BY <1>a, <1>1, <1>2, ProcessesKept DEF IInv, TypeOK
<1>4. Lock'
  BY <1>0, <1>s DEF IInv, TypeOK, Lock, Waiting, PendingAct, ProgressOwned,
       CriticalNotPreempted, Holds, Borrows, sig_mask
<1>5. KillsAreForFront'
  BY <1>2, <1>s DEF IInv, KillsAreForFront, SameProcesses
<1>6. Display'
  BY <1>0, <1>s DEF IInv, TypeOK, Display, Calm, PageRouted, VideoRouted, VidmapOwned,
       ReaderEchoes, Running, Borrows, Lock, Waiting
<1> QED BY <1>1, <1>3, <1>4, <1>5, <1>6 DEF IInv

LEMMA RestoresVideoInv == ASSUME IInv, RestoresVideo PROVE IInv'
<1> USE PidFacts, RunningFacts DEF RestoresVideo, GoesOn
<1>0. /\ waiter' \in [Pid -> Stage] /\ waiter'[pcb] = "unlock"
      /\ \A p \in Pid : p # pcb => waiter'[p] = waiter[p]
  BY DEF IInv, TypeOK, Stage
<1>a. AllInit
  BY DEF IInv, Boot
<1>1. TypeOK'
  BY <1>0 DEF IInv, TypeOK, Frame
<1>2. SameProcesses
  BY <1>0 DEF IInv, TypeOK, SameProcesses, Tree, Placed, Alive
<1>3. Boot' /\ Tree' /\ StackAndPageOwn'
  BY <1>a, <1>1, <1>2, ProcessesKept DEF IInv, TypeOK
<1>4. Lock'
  BY <1>0 DEF IInv, TypeOK, Lock, Waiting, PendingAct, ProgressOwned,
       CriticalNotPreempted, Holds, Borrows, sig_mask
<1>5. KillsAreForFront'
  BY <1>2 DEF IInv, KillsAreForFront, SameProcesses
<1>6. Display'
  BY <1>0 DEF IInv, TypeOK, Display, Calm, PageRouted, VideoRouted, VidmapOwned,
       ReaderEchoes, Running, Borrows, Lock, Waiting
<1> QED BY <1>1, <1>3, <1>4, <1>5, <1>6 DEF IInv

LEMMA UnlocksInv == ASSUME IInv, Unlocks PROVE IInv'
<1> USE PidFacts, RunningFacts DEF Unlocks, Unlocked, GoesOn
<1>0. /\ waiter' \in [Pid -> Stage] /\ waiter'[pcb] = (IF at[pcb] = "fault" THEN "dispatch" ELSE "ctrl")
      /\ \A p \in Pid : p # pcb => waiter'[p] = waiter[p]
  BY DEF IInv, TypeOK, Stage
<1>a. AllInit
  BY DEF IInv, Boot
<1>1. TypeOK'
  BY <1>0 DEF IInv, TypeOK, Frame
<1>2. SameProcesses
  BY <1>0 DEF IInv, TypeOK, SameProcesses, Tree, Placed, Alive
<1>3. Boot' /\ Tree' /\ StackAndPageOwn'
  BY <1>a, <1>1, <1>2, ProcessesKept DEF IInv, TypeOK
<1>4. Lock'
  <2>1. \A p \in Pid : Waiting(p)'
    BY <1>0 DEF IInv, TypeOK, Lock, Waiting, PendingAct, sig_mask
  <2>2. ~KeysInRestore => ProgressOwned' /\ CriticalNotPreempted'
    BY <1>0 DEF IInv, TypeOK, Lock, Waiting, PendingAct, ProgressOwned,
         CriticalNotPreempted, Holds, Borrows
  <2>3. (keyboard_wait_flag <=> waiter[pcb] = "enter")'
    BY <1>0 DEF IInv, TypeOK, Lock
  <2>4. PendingAct'
    BY <1>0 DEF IInv, TypeOK, Lock, Waiting, PendingAct, sig_mask
  <2> QED BY <2>1, <2>2, <2>3, <2>4 DEF Lock
<1>5. KillsAreForFront'
  BY <1>2 DEF IInv, KillsAreForFront, SameProcesses
<1>6. Display'
  BY <1>0 DEF IInv, TypeOK, Display, Calm, PageRouted, VideoRouted, VidmapOwned,
       ReaderEchoes, Running, Borrows, Lock, Waiting
<1> QED BY <1>1, <1>3, <1>4, <1>5, <1>6 DEF IInv

LEMMA CtrlCheckedInv == ASSUME IInv, NEW ctrl \in BOOLEAN, CtrlChecked(ctrl) PROVE IInv'
<1> USE PidFacts, RunningFacts DEF CtrlChecked, GoesOn
<1>0. /\ waiter' \in [Pid -> Stage] /\ waiter'[pcb] = "dispatch"
      /\ \A p \in Pid : p # pcb => waiter'[p] = waiter[p]
  BY DEF IInv, TypeOK, Stage
<1>a. AllInit
  BY DEF IInv, Boot
<1>s. /\ slot' \in [Pid -> pcb_t]
      /\ \A p \in Pid : /\ slot'[p].process_id = slot[p].process_id
                        /\ slot'[p].terminal_id = slot[p].terminal_id
                        /\ slot'[p].previous_id = slot[p].previous_id
                        /\ p # pcb => slot'[p].sig_pending = slot[p].sig_pending
                        /\ p = pcb => slot'[p].sig_pending \in BOOLEAN
  BY SignalSets DEF IInv, TypeOK, pcb_t
<1>1. TypeOK'
  BY <1>0, <1>s DEF IInv, TypeOK, Frame
<1>2. SameProcesses
  BY <1>0, <1>s DEF IInv, TypeOK, SameProcesses, Tree, Placed, Alive
<1>3. Boot' /\ Tree' /\ StackAndPageOwn'
  BY <1>a, <1>1, <1>2, ProcessesKept DEF IInv, TypeOK
<1>4. Lock'
  BY <1>0, <1>s DEF IInv, TypeOK, Lock, Waiting, PendingAct, ProgressOwned,
       CriticalNotPreempted, Holds, Borrows, sig_mask
<1>5. KillsAreForFront'
  <2>1. \A p \in Pid : slot'[p].sig_pending => slot[p].sig_pending \/ p = pcb
    BY <1>s
  <2> QED BY <1>2, <2>1 DEF IInv, KillsAreForFront, SameProcesses
<1>6. Display'
  BY <1>0, <1>s DEF IInv, TypeOK, Display, Calm, PageRouted, VideoRouted, VidmapOwned,
       ReaderEchoes, Running, Borrows, Lock, Waiting
<1> QED BY <1>1, <1>3, <1>4, <1>5, <1>6 DEF IInv

LEMMA WaiterReturnsInv == ASSUME IInv, WaiterReturns PROVE IInv'
<1> USE PidFacts, RunningFacts DEF WaiterReturns, GoesOn, KillPending
<1>0. /\ waiter' \in [Pid -> Stage] /\ waiter'[pcb] = "none"
      /\ \A p \in Pid : p # pcb => waiter'[p] = waiter[p]
  BY DEF IInv, TypeOK, Stage
<1>a. AllInit
  BY DEF IInv, Boot
<1>1. TypeOK'
  BY <1>0 DEF IInv, TypeOK, Frame
<1>2. SameProcesses
  BY <1>0 DEF IInv, TypeOK, SameProcesses, Tree, Placed, Alive
<1>3. Boot' /\ Tree' /\ StackAndPageOwn'
  BY <1>a, <1>1, <1>2, ProcessesKept DEF IInv, TypeOK
<1>4. Lock'
  BY <1>0 DEF IInv, TypeOK, Lock, Waiting, PendingAct, ProgressOwned,
       CriticalNotPreempted, Holds, Borrows, sig_mask
<1>5. KillsAreForFront'
  BY <1>2 DEF IInv, KillsAreForFront, SameProcesses
<1>6. Display'
  BY <1>0 DEF IInv, TypeOK, Display, Calm, PageRouted, VideoRouted, VidmapOwned,
       ReaderEchoes, Running, Borrows, Lock, Waiting
<1> QED BY <1>1, <1>3, <1>4, <1>5, <1>6 DEF IInv

LEMMA DispatchKillsInv == ASSUME IInv, DispatchKills PROVE IInv'
<1> USE PidFacts, RunningFacts DEF DispatchKills, KillPending, HaltBegins, FreedPool
<1>s. /\ slot' \in [Pid -> pcb_t] /\ ~slot'[pcb].sig_pending
      /\ \A p \in Pid : /\ slot'[p].process_id = slot[p].process_id
                        /\ slot'[p].terminal_id = slot[p].terminal_id
                        /\ slot'[p].previous_id = slot[p].previous_id
                        /\ p # pcb => slot'[p].sig_pending = slot[p].sig_pending
  BY KillTaken DEF IInv, TypeOK
<1>0. /\ waiter' \in [Pid -> Stage] /\ waiter'[pcb] = "none"
      /\ \A p \in Pid : p # pcb => waiter'[p] = waiter[p] /\ at'[p] = at[p]
      /\ at' \in [Pid -> Location] /\ at'[pcb] = "halting"
      /\ pcb_pool' \in [Pid -> BOOLEAN] /\ ~pcb_pool'[pcb]
      /\ \A p \in Pid : p # pcb => pcb_pool'[p] = pcb_pool[p]
  <2>1. /\ waiter' = [waiter EXCEPT ![pcb] = "none"] /\ at' = [at EXCEPT ![pcb] = "halting"]
        /\ pcb_pool' = [pcb_pool EXCEPT ![pcb] = FALSE]
    OBVIOUS
  <2>2. /\ waiter \in [Pid -> Stage] /\ at \in [Pid -> Location] /\ pcb_pool \in [Pid -> BOOLEAN]
    BY DEF IInv, TypeOK
  <2>3. /\ waiter' \in [Pid -> Stage] /\ waiter'[pcb] = "none"
        /\ at' \in [Pid -> Location] /\ at'[pcb] = "halting"
        /\ \A p \in Pid : p # pcb => waiter'[p] = waiter[p] /\ at'[p] = at[p]
    BY <2>1, <2>2 DEF Stage, Location
  <2>4. /\ pcb_pool' \in [Pid -> BOOLEAN] /\ ~pcb_pool'[pcb]
        /\ \A p \in Pid : p # pcb => pcb_pool'[p] = pcb_pool[p]
    BY <2>1, <2>2
  <2> QED BY <2>3, <2>4
<1>1. TypeOK'
  BY <1>s, <1>0 DEF IInv, TypeOK, Frame
<1>2. SameProcesses
  BY <1>s, <1>0 DEF IInv, SameProcesses, Tree, Placed, Alive
<1>3. Boot' /\ Tree' /\ StackAndPageOwn'
  BY <1>0, <1>1, <1>2, ProcessesKept DEF IInv, TypeOK
<1>4. Lock'
  <2>1. \A p \in Pid : Waiting(p)'
    BY <1>s, <1>0 DEF IInv, TypeOK, Lock, Waiting, PendingAct, sig_mask
  <2>2. ~KeysInRestore => ProgressOwned' /\ CriticalNotPreempted'
    BY <1>s, <1>0 DEF IInv, TypeOK, Lock, Waiting, PendingAct, ProgressOwned,
         CriticalNotPreempted, Holds, Borrows
  <2>3. (keyboard_wait_flag <=> waiter[pcb] = "enter")'
    BY <1>s, <1>0 DEF IInv, TypeOK, Lock, Waiting
  <2>4. PendingAct'
    BY <1>s, <1>0 DEF IInv, TypeOK, Lock, Waiting, PendingAct, sig_mask
  <2> QED BY <2>1, <2>2, <2>3, <2>4 DEF Lock
<1>5. KillsAreForFront'
  BY <1>2, <1>s DEF IInv, KillsAreForFront, SameProcesses
<1>6. Display'
  BY <1>s, <1>0 DEF IInv, TypeOK, Display, Calm, PageRouted, VideoRouted, VidmapOwned,
       ReaderEchoes, Running, Borrows
<1> QED BY <1>1, <1>3, <1>4, <1>5, <1>6 DEF IInv

LEMMA DispatchReturnsInv == ASSUME IInv, DispatchReturns PROVE IInv'
<1> USE PidFacts, RunningFacts DEF DispatchReturns, sig_mask, KillPending
<1>1. TypeOK'
  BY DEF IInv, TypeOK, Location
<1>2. SameProcesses
  BY DEF IInv, TypeOK, SameProcesses, Tree, Placed, Alive
<1>3. Boot' /\ Tree' /\ StackAndPageOwn'
  BY <1>1, <1>2, ProcessesKept DEF IInv, TypeOK
<1>4. Lock'
  BY DEF IInv, TypeOK, Lock, Waiting, PendingAct, ProgressOwned, CriticalNotPreempted, Holds, Borrows, sig_mask
<1>5. KillsAreForFront'
  BY <1>2 DEF IInv, KillsAreForFront, SameProcesses
<1>6. Display'
  BY DEF IInv, TypeOK, Display, Calm, PageRouted, VideoRouted, VidmapOwned, ReaderEchoes, Running, Borrows
<1> QED BY <1>1, <1>3, <1>4, <1>5, <1>6 DEF IInv

-----------------------------------------------------------------------------
(* Switches.                                                                *)

\* switchContext saves what the terminal table holds already: the front process
\* is the running one and its kernel stack its own.
LEMMA SavedFacts ==
  ASSUME IInv
  PROVE  /\ SavedTerminals \in [Terminal -> terminal_t]
         /\ \A u \in Terminal :
              /\ SavedTerminals[u].initialized = terminals[u].initialized
              /\ SavedTerminals[u].pcb = terminals[u].pcb
              /\ SavedTerminals[u].echo = terminals[u].echo
              /\ SavedTerminals[u].vidmap = terminals[u].vidmap
              /\ terminals[u].initialized => SavedTerminals[u].tss_esp = terminals[u].pcb
<1> USE PidFacts, RunningFacts
<1>1. tss_esp0 = pcb
  BY DEF IInv, StackAndPageOwn
<1> DEFINE r == [[terminals[Running] EXCEPT !.pcb = pcb] EXCEPT !.tss_esp = pcb]
<1>2. terminals[Running] \in terminal_t
  BY DEF IInv, TypeOK
<1>3. /\ r \in terminal_t
      /\ r.initialized = terminals[Running].initialized
      /\ r.pcb = pcb /\ r.tss_esp = pcb
      /\ r.echo = terminals[Running].echo /\ r.vidmap = terminals[Running].vidmap
  BY <1>2 DEF terminal_t
<1>4. SavedTerminals = [terminals EXCEPT ![Running] = r]
  BY <1>1, <1>2 DEF SavedTerminals, IInv, TypeOK, terminal_t
<1> HIDE DEF r
<1>5. SavedTerminals \in [Terminal -> terminal_t]
  BY <1>3, <1>4 DEF IInv, TypeOK
<1>6. SavedTerminals[Running] = r
      /\ \A u \in Terminal : u # Running => SavedTerminals[u] = terminals[u]
  BY <1>4 DEF IInv, TypeOK
<1> QED BY <1>3, <1>5, <1>6 DEF IInv, StackAndPageOwn

\* switchContext to a terminal that is up.
Resumed(t) ==
  /\ terminals' = SavedTerminals
  /\ pcb' = SavedTerminals[t].pcb
  /\ program_page' = slot[SavedTerminals[t].pcb].process_id
  /\ tss_esp0' = SavedTerminals[t].tss_esp
  /\ progress' \in {FALSE, progress}
  /\ irq_off' = ~sig_mask(SavedTerminals[t].pcb)
  /\ vidmap_present' = terminals[t].vidmap
  /\ video_mem' = FrameFor(t, SavedTerminals, terminal_active')
  /\ vidmap_page' = FrameFor(t, SavedTerminals, terminal_active')
  /\ UNCHANGED <<slot, pcb_pool, at, user>>

\* A switch to a terminal that is up.
LEMMA ResumeInv ==
  ASSUME IInv, NEW t \in Terminal, terminals[t].initialized,
         Resumed(t), terminal_active' \in Terminal, buf_ready' \in [Terminal -> BOOLEAN],
         at[pcb] # "halting", ~keyboard_wait_flag, ~KeysInRestore => ~progress,
         UNCHANGED <<wait, scheduler_enable>>,
         AllInit \/ UNCHANGED <<terminal_active, buf_ready>>
  PROVE  IInv'
<1> USE PidFacts, RunningFacts
<1>1. /\ terminals' = SavedTerminals
      /\ pcb' = terminals[t].pcb
      /\ UNCHANGED <<slot, pcb_pool, at, user>>
      /\ progress' \in {FALSE, progress} /\ irq_off' = ~sig_mask(terminals[t].pcb)
  BY SavedFacts DEF Resumed
<1>2. pcb' \in Pid /\ Alive(pcb') /\ slot[pcb'].terminal_id = t /\ Running' = t
  BY <1>1 DEF IInv, Tree, FrontIsOwn, Running
<1>3. program_page' = pcb' /\ tss_esp0' = pcb'
  BY <1>1, <1>2, SavedFacts DEF Resumed, IInv, StackAndPageOwn
<1>4. /\ vidmap_present' = terminals[t].vidmap
      /\ video_mem' = IF terminal_active' = t THEN VRAM ELSE t
      /\ vidmap_page' = IF terminal_active' = t THEN VRAM ELSE t
  BY <1>1, <1>2, SavedFacts DEF Resumed, FrameFor
<1>5. /\ irq_off' = ~sig_mask(pcb') /\ irq_off' \in BOOLEAN
      /\ \A p \in Pid : sig_mask(p)' <=> sig_mask(p)
  BY <1>1 DEF sig_mask
<1>6. /\ \A p \in Pid : at[p] # "halting" /\ waiter[p] # "enter"
      /\ ~KeysInRestore => ~progress' /\ \A p \in Pid : ~Holds(p)
  <2>1. \A p \in Pid : at[p] # "halting" /\ waiter[p] # "enter"
    BY DEF IInv, Lock, Waiting
  <2>2. ASSUME ~KeysInRestore PROVE ~progress' /\ \A p \in Pid : ~Holds(p)
    <3>1. pcb \in Pid /\ ~progress
      BY <2>2 DEF IInv, TypeOK
    <3>2. ~Holds(pcb) /\ \A p \in Pid : Holds(p) => p = pcb
      BY <2>2, <3>1 DEF IInv, Lock, ProgressOwned, CriticalNotPreempted
    <3>3. progress' = FALSE \/ progress' = progress
      BY <1>1
    <3> QED BY <3>1, <3>2, <3>3
  <2> QED BY <2>1, <2>2
<1>7. TypeOK'
  BY <1>1, <1>2, <1>3, <1>4, <1>5, SavedFacts DEF IInv, TypeOK, terminal_t, Frame
<1>8. SameProcesses
  BY <1>1, SavedFacts DEF SameProcesses, Alive, IInv, Tree, Placed
<1>9. Tree'
  BY <1>1, <1>2, <1>7, <1>8, TreeKept DEF IInv
<1>10. Boot'
  BY <1>1, <1>8 DEF IInv, Boot, SameProcesses, AllInit
<1>11. Lock'
  <2>1. \A p \in Pid : Waiting(p)'
    BY <1>1, <1>5, <1>6 DEF IInv, Lock, Waiting
  <2>2. PendingAct' /\ (keyboard_wait_flag <=> waiter[pcb] = "enter")'
    BY <1>1, <1>2, <1>5, <1>6 DEF IInv, Lock, Waiting, PendingAct
  <2>3. ~KeysInRestore => ProgressOwned' /\ CriticalNotPreempted'
    BY <1>1, <1>2, <1>6 DEF ProgressOwned, CriticalNotPreempted, Holds, Borrows
  <2> QED BY <2>1, <2>2, <2>3 DEF Lock
<1>12. StackAndPageOwn'
  BY <1>1, <1>2, <1>3, SavedFacts DEF IInv, StackAndPageOwn, Alive
<1>13. KillsAreForFront'
  <2>1. \A p \in Pid : slot[p].terminal_id \in Terminal
    BY DEF IInv, TypeOK, pcb_t
  <2> QED BY <1>1, <2>1, SavedFacts DEF IInv, KillsAreForFront, Alive
<1>14. Display'
  <2>1. PageRouted'
    BY <1>2, <1>4 DEF PageRouted
  <2>4. Calm => ~Borrows(pcb)'
    BY <1>1, <1>2, <1>6 DEF Calm, Holds, Borrows
  <2>5. Calm => VideoRouted' /\ (irq_off /\ Borrows(pcb) => ~slot[pcb].sig_pending)'
    BY <2>4, <1>2, <1>4 DEF VideoRouted
  <2>2. VidmapOwned'
    BY <1>1, <1>2, <1>4, SavedFacts DEF VidmapOwned
  <2>3. ReaderEchoes'
    BY <1>1, SavedFacts DEF IInv, TypeOK, pcb_t, Display, ReaderEchoes
  <2> QED BY <2>1, <2>2, <2>3, <2>5 DEF Display, Calm
<1> QED BY <1>7, <1>9, <1>10, <1>11, <1>12, <1>13, <1>14 DEF IInv

\* The tables that sys_execute leaves.
LEMMA PcbLaunched ==
  ASSUME NEW k \in Pid, NEW t \in Terminal, NEW q \in Pid
  PROVE  LET r == [process_id |-> k, terminal_id |-> t, previous_id |-> q,
                   sig_pending |-> FALSE]
         IN  /\ r \in pcb_t /\ r.process_id = k /\ r.terminal_id = t
             /\ r.previous_id = q /\ ~r.sig_pending
BY DEF pcb_t

LEMMA TerminalsLaunched ==
  ASSUME NEW T \in [Terminal -> terminal_t], NEW t \in Terminal, NEW k \in Pid, NEW T1,
         T1 = [T EXCEPT ![t].pcb = k]
  PROVE  /\ T1 \in [Terminal -> terminal_t] /\ \A u \in Terminal : u # t => T1[u] = T[u]
         /\ T1[t].pcb = k /\ T1[t].initialized = T[t].initialized
         /\ T1[t].echo = T[t].echo /\ T1[t].vidmap = T[t].vidmap
<1> DEFINE v == [T[t] EXCEPT !.pcb = k]
<1>1. T[t] \in terminal_t
  OBVIOUS
<1>2. /\ v \in terminal_t /\ v.pcb = k /\ v.initialized = T[t].initialized
      /\ v.echo = T[t].echo /\ v.vidmap = T[t].vidmap
  BY <1>1 DEF terminal_t
<1>3. T1 = [T EXCEPT ![t] = v]
  BY <1>1 DEF terminal_t
<1> HIDE DEF v
<1> QED BY <1>2, <1>3

\* The round robin meets a terminal that is not up only after those below it.
LEMMA RoundRobin ==
  ASSUME IInv
  PROVE  LET t == (Running + 1) % TERMINAL_COUNT
         IN  /\ t \in Terminal
             /\ ~terminals[t].initialized =>
                  t # 0 /\ \A u \in Terminal : u < t => terminals[u].initialized
<1> DEFINE t == (Running + 1) % TERMINAL_COUNT
<1>1. Running \in Terminal /\ terminals[Running].initialized
  BY RunningFacts
<1>2. \A n \in Nat \ {0} : \A r \in 0 .. n - 1 :
        (r + 1) % n \in 0 .. n - 1 /\ ((r + 1) % n = 0 \/ (r + 1) % n = r + 1)
  OBVIOUS
<1>3. t \in Terminal /\ (t = 0 \/ t = Running + 1)
  BY <1>1, <1>2, KernelAssumption DEF KernelAssumption, Terminal
<1> HIDE DEF t
<1>4. \A u \in Terminal : u < Running => terminals[u].initialized
  BY <1>1 DEF IInv, Boot
<1>5. 0 \in Terminal /\ (0 = Running \/ 0 < Running)
  BY <1>1, KernelAssumption DEF KernelAssumption, Terminal
<1>6. terminals[0].initialized
  BY <1>1, <1>4, <1>5
<1>7. \A u \in Terminal : u < Running + 1 => u = Running \/ u < Running
  BY <1>1 DEF Terminal
<1> QED BY <1>1, <1>3, <1>4, <1>6, <1>7 DEF t

\* switchTerminalInit finds the PID of its terminal free, and takes it.
LEMMA StartTerminalFacts ==
  ASSUME IInv, NEW t \in Terminal, ~terminals[t].initialized, t # 0,
         \A u \in Terminal : u < t => terminals[u].initialized,
         switchContext(t, terminal_active, progress), ~progress
  PROVE  /\ ~AllInit /\ terminal_active = 0 /\ scheduler_enable
         /\ \A p \in Pid : waiter[p] = "none" /\ at[p] \notin {"fault", "halting"}
         /\ ~Alive(t) /\ find_next_pid = t
         /\ vidmap_present' = terminals[t].vidmap /\ video_mem' = t /\ vidmap_page' = t
         /\ slot' \in [Pid -> pcb_t] /\ \A p \in Pid : p # t => slot'[p] = slot[p]
         /\ slot'[t].process_id = t /\ slot'[t].terminal_id = t /\ slot'[t].previous_id = t
         /\ ~slot'[t].sig_pending
         /\ terminals' \in [Terminal -> terminal_t]
         /\ \A u \in Terminal : u # t => terminals'[u] = SavedTerminals[u]
         /\ terminals'[t].pcb = t /\ terminals'[t].initialized
         /\ terminals'[t].vidmap = terminals[t].vidmap
         /\ pcb_pool' \in [Pid -> BOOLEAN] /\ pcb_pool'[t]
         /\ \A p \in Pid : p # t => pcb_pool'[p] = pcb_pool[p]
         /\ pcb' = t /\ program_page' = t /\ tss_esp0' = t
         /\ at' \in [Pid -> Location] /\ at'[t] = "user"
         /\ \A p \in Pid : p # t => at'[p] = at[p]
         /\ user_if' \in [Pid -> BOOLEAN]
         /\ got_line' \in [Terminal -> BOOLEAN]
         /\ \A u \in Terminal : got_line'[u] => got_line[u]
         /\ irq_off' = FALSE /\ progress' = FALSE
<1> USE PidFacts, RunningFacts
<1>2. \A p \in Pid : waiter[p] = "none" /\ at[p] \notin {"fault", "halting"}
  BY DEF IInv, Boot, AllInit, Lock, Waiting
<1>3. ~Alive(t)
  BY DEF IInv, Tree, Placed
<1>3a. ASSUME NEW q \in Pid, q < t PROVE pcb_pool[q]
  <2>1. q \in Terminal /\ terminals[q].initialized
    BY <1>3a
  <2> QED BY <2>1, <1>2 DEF IInv, Tree, BaseShellPids, Alive
<1>4. find_next_pid = t /\ FreePids # {}
  BY <1>3, <1>3a, NextPidIs DEF Alive, FreePids
<1>5. ~AllInit /\ terminal_active = 0 /\ scheduler_enable
  BY DEF IInv, Boot, AllInit
<1> DEFINE s0 == [slot EXCEPT ![t].terminal_id = t, ![t].previous_id = t]
           U0 == [SavedTerminals EXCEPT ![t].initialized = TRUE, ![t].pcb = t]
<1>6. Launch(t, s0, U0, at, FALSE)
  BY <1>4, SavedFacts DEF switchContext, switchTerminalInit
<1>7. s0 \in [Pid -> pcb_t] /\ s0[t].terminal_id = t
      /\ \A p \in Pid : p # t => s0[p] = slot[p]
  <2> DEFINE r == [[slot[t] EXCEPT !.terminal_id = t] EXCEPT !.previous_id = t]
  <2>1. slot[t] \in pcb_t
    BY DEF IInv, TypeOK
  <2>2. r \in pcb_t /\ r.terminal_id = t
    BY <2>1 DEF pcb_t
  <2>3. s0 = [slot EXCEPT ![t] = r]
    BY <2>1 DEF IInv, TypeOK, pcb_t
  <2> HIDE DEF r, s0
  <2> QED BY <2>2, <2>3 DEF IInv, TypeOK
<1>8. /\ U0 \in [Terminal -> terminal_t]
      /\ \A u \in Terminal : u # t => U0[u] = SavedTerminals[u]
      /\ U0[t].initialized = TRUE /\ U0[t].vidmap = terminals[t].vidmap
  <2> DEFINE r == [[SavedTerminals[t] EXCEPT !.initialized = TRUE] EXCEPT !.pcb = t]
  <2>1. SavedTerminals[t] \in terminal_t /\ SavedTerminals[t].vidmap = terminals[t].vidmap
    BY SavedFacts
  <2>2. r \in terminal_t /\ r.initialized = TRUE /\ r.vidmap = terminals[t].vidmap
    BY <2>1 DEF terminal_t
  <2>3. U0 = [SavedTerminals EXCEPT ![t] = r]
    BY <2>1, SavedFacts DEF terminal_t
  <2> HIDE DEF r, U0
  <2> QED BY <2>2, <2>3, SavedFacts
<1>9. vidmap_present' = terminals[t].vidmap /\ video_mem' = t /\ vidmap_page' = t
  BY <1>5, SavedFacts DEF switchContext, FrameFor, VidmapFor
<1> HIDE DEF s0, U0
<1>10. /\ slot' = [s0 EXCEPT ![t] = [process_id |-> t, terminal_id |-> t, previous_id |-> t,
                                     sig_pending |-> FALSE]]
       /\ terminals' = [U0 EXCEPT ![t].pcb = t]
       /\ pcb_pool' = [pcb_pool EXCEPT ![t] = TRUE]
       /\ pcb' = t /\ program_page' = t /\ tss_esp0' = t
       /\ at' = [at EXCEPT ![t] = "user"]
       /\ user_if' = [user_if EXCEPT ![t] = FALSE]
       /\ got_line' = [got_line EXCEPT ![t] = FALSE]
       /\ irq_off' = FALSE /\ progress' = FALSE
  BY <1>4, <1>6, <1>7 DEF Launch
<1>11. /\ slot' \in [Pid -> pcb_t] /\ \A p \in Pid : p # t => slot'[p] = s0[p]
       /\ slot'[t].process_id = t /\ slot'[t].terminal_id = t /\ slot'[t].previous_id = t
       /\ ~slot'[t].sig_pending
  <2>1. t \in Pid /\ s0 \in [Pid -> pcb_t]
    BY <1>7
  <2> DEFINE r == [process_id |-> t, terminal_id |-> t, previous_id |-> t,
                   sig_pending |-> FALSE]
  <2>2. /\ r \in pcb_t /\ r.process_id = t /\ r.terminal_id = t
        /\ r.previous_id = t /\ ~r.sig_pending
    BY <2>1, PcbLaunched
  <2>3. slot' = [s0 EXCEPT ![t] = r]
    BY <1>10
  <2> HIDE DEF r
  <2> QED BY <2>1, <2>2, <2>3
<1>12. /\ terminals' \in [Terminal -> terminal_t]
       /\ \A u \in Terminal : u # t => terminals'[u] = U0[u]
       /\ terminals'[t].pcb = t /\ terminals'[t].initialized
       /\ terminals'[t].vidmap = terminals[t].vidmap
  <2>1. t \in Pid /\ U0 \in [Terminal -> terminal_t]
    BY <1>8
  <2>2. PICK T1 : T1 = terminals'
    OBVIOUS
  <2>3. /\ T1 \in [Terminal -> terminal_t] /\ \A u \in Terminal : u # t => T1[u] = U0[u]
        /\ T1[t].pcb = t /\ T1[t].initialized = U0[t].initialized
        /\ T1[t].echo = U0[t].echo /\ T1[t].vidmap = U0[t].vidmap
    BY <2>1, <2>2, <1>10, TerminalsLaunched, SMTT(30)
  <2> QED BY <2>2, <2>3, <1>8
<1>13. /\ pcb_pool' \in [Pid -> BOOLEAN] /\ pcb_pool'[t]
       /\ \A p \in Pid : p # t => pcb_pool'[p] = pcb_pool[p]
       /\ at' \in [Pid -> Location] /\ at'[t] = "user"
       /\ \A p \in Pid : p # t => at'[p] = at[p]
       /\ user_if' \in [Pid -> BOOLEAN]
       /\ got_line' \in [Terminal -> BOOLEAN]
       /\ \A u \in Terminal : got_line'[u] => got_line[u]
  BY <1>10 DEF IInv, TypeOK, Location
<1> QED BY <1>2, <1>3, <1>4, <1>5, <1>7, <1>8, <1>9, <1>10, <1>11, <1>12, <1>13


\* A switch of the round robin to a terminal that is not up yet.
LEMMA StartTerminalInv ==
  ASSUME IInv, NEW t \in Terminal, ~terminals[t].initialized, t # 0,
         \A u \in Terminal : u < t => terminals[u].initialized,
         switchContext(t, terminal_active, progress), ~progress,
         UNCHANGED <<input, terminal_active>>
  PROVE  IInv'
<1> USE PidFacts, RunningFacts
<1>1. /\ ~AllInit /\ terminal_active = 0 /\ scheduler_enable
      /\ \A p \in Pid : waiter[p] = "none" /\ at[p] \notin {"fault", "halting"}
      /\ ~Alive(t) /\ find_next_pid = t
      /\ vidmap_present' = terminals[t].vidmap /\ video_mem' = t /\ vidmap_page' = t
  BY StartTerminalFacts
<1>3. /\ slot' \in [Pid -> pcb_t] /\ \A p \in Pid : p # t => slot'[p] = slot[p]
      /\ slot'[t].process_id = t /\ slot'[t].terminal_id = t /\ slot'[t].previous_id = t
      /\ ~slot'[t].sig_pending
      /\ terminals' \in [Terminal -> terminal_t]
      /\ \A u \in Terminal : u # t => terminals'[u] = SavedTerminals[u]
      /\ terminals'[t].pcb = t /\ terminals'[t].initialized
      /\ terminals'[t].vidmap = terminals[t].vidmap
      /\ pcb_pool' \in [Pid -> BOOLEAN] /\ pcb_pool'[t]
      /\ \A p \in Pid : p # t => pcb_pool'[p] = pcb_pool[p]
      /\ pcb' = t /\ program_page' = t /\ tss_esp0' = t
      /\ at' \in [Pid -> Location] /\ at'[t] = "user"
      /\ \A p \in Pid : p # t => at'[p] = at[p]
      /\ user_if' \in [Pid -> BOOLEAN]
      /\ got_line' \in [Terminal -> BOOLEAN]
      /\ \A u \in Terminal : got_line'[u] => got_line[u]
      /\ irq_off' = FALSE /\ progress' = FALSE
  BY StartTerminalFacts
<1>4. \A u \in Terminal : u # t =>
         /\ terminals'[u].initialized = terminals[u].initialized
         /\ terminals'[u].pcb = terminals[u].pcb
         /\ terminals'[u].echo = terminals[u].echo
         /\ terminals[u].initialized => terminals'[u].tss_esp = terminals[u].pcb
  BY <1>3, SavedFacts
<1>5. TypeOK'
  BY <1>1, <1>3 DEF IInv, TypeOK, Frame, terminal_t
<1>6. /\ Running' = t
      /\ Alive(t)' /\ \A p \in Pid : p # t => (Alive(p)' <=> Alive(p))
  BY <1>3 DEF Running, Alive
<1>7. \A p \in Pid : slot[p].terminal_id \in Terminal /\ slot[p].previous_id \in Pid
  BY DEF IInv, TypeOK, pcb_t
<1>8. /\ ~keyboard_wait_flag'
      /\ \A p \in Pid : waiter'[p] = "none" /\ at'[p] \notin {"fault", "halting"}
  <2>1. ~keyboard_wait_flag
    BY <1>1 DEF IInv, Lock
  <2>2. ASSUME NEW p \in Pid PROVE at'[p] \notin {"fault", "halting"}
    BY <1>1, <1>3
  <2> QED BY <1>1, <2>1, <2>2
<1>9. \A p \in Pid : Alive(p) => p < TERMINAL_COUNT /\ slot[p].terminal_id # t
  BY <1>1 DEF IInv, Tree, Placed, Boot
<1>10. \A p \in Pid : Alive(p)' => p < TERMINAL_COUNT /\ ~(p >= TERMINAL_COUNT)
  BY <1>6, <1>9
<1>11. Boot'
  <2>1. \A u, v \in Terminal : terminals'[u].initialized /\ v < u => terminals'[v].initialized
    BY <1>3, <1>4 DEF IInv, Boot
  <2>2. \A u \in Terminal : ~buf_ready'[u] /\ ~got_line'[u]
    BY <1>1, <1>3 DEF IInv, Boot
  <2> QED BY <1>1, <1>8, <1>10, <2>1, <2>2 DEF Boot
<1>12. Lock'
  <2>1. \A p \in Pid : Waiting(p)'
    BY <1>8 DEF Waiting, sig_mask
  <2> QED BY <1>3, <1>8, <2>1 DEF Lock, PendingAct, ProgressOwned, CriticalNotPreempted,
       Holds, Borrows
<1>13. FrontIsOwn'
  <2>1. ASSUME NEW u \in Terminal, terminals'[u].initialized
        PROVE  terminals'[u].pcb \in Pid /\ Alive(terminals[u].pcb)'
               /\ slot'[terminals'[u].pcb].terminal_id = u
    <3>1. CASE u = t
      BY <3>1, <1>3, <1>6
    <3>2. CASE u # t
      <4>1. PICK x : x = terminals'[u].pcb
        OBVIOUS
      <4>2. terminals[u].initialized /\ x = terminals[u].pcb
        BY <2>1, <3>2, <4>1, <1>4
      <4>3. x \in Pid /\ Alive(x) /\ slot[x].terminal_id = u
        BY <4>2 DEF IInv, Tree, FrontIsOwn
      <4>4. x # t
        BY <4>3, <1>1
      <4>5. Alive(x)' /\ slot'[x].terminal_id = u
        BY <4>3, <4>4, <1>3, <1>6
      <4> QED BY <4>1, <4>3, <4>5
    <3> QED BY <3>1, <3>2
  <2>2. terminals'[Running'].initialized /\ terminals'[Running'].pcb = pcb'
    BY <1>3, <1>6
  <2> QED BY <2>1, <2>2 DEF FrontIsOwn
<1>14. BaseShellPids'
  <2> SUFFICES ASSUME NEW u \in Terminal, terminals'[u].initialized
               PROVE  Alive(u)' /\ slot'[u].terminal_id = u /\ slot'[u].previous_id = u
    BY DEF BaseShellPids, IsBaseShell
  <2>1. CASE u = t
    BY <2>1, <1>3, <1>6
  <2>2. CASE u # t
    <3>1. Alive(u) /\ slot[u].terminal_id = u /\ slot[u].previous_id = u
      BY <2>2, <1>4 DEF IInv, Tree, BaseShellPids, IsBaseShell
    <3> QED BY <2>2, <3>1, <1>3, <1>6
  <2> QED BY <2>1, <2>2
<1>15. ParentWaits' /\ OnlyChild'
  BY <1>10 DEF ParentWaits, OnlyChild
<1>16. ASSUME NEW p \in Pid PROVE Placed(p)' /\ (Alive(p)' => Front(p)')
  <2>1. CASE p = t
    BY <2>1, <1>3, <1>6 DEF Placed, Front
  <2>2. CASE p # t
    <3>1. Placed(p)
      BY DEF IInv, Tree
    <3>2. slot'[p] = slot[p] /\ at'[p] = at[p] /\ (Alive(p)' <=> Alive(p))
      BY <2>2, <1>3, <1>6
    <3>3. Alive(p) => (Front(p)' <=> Front(p))
      BY <3>2, <1>4, <1>7, <1>9 DEF Front
    <3>4. Alive(p) => Front(p)
      <4>1. Alive(p) /\ ~Front(p) => HasChild(p)
        BY DEF IInv, Tree
      <4>2. \A q \in Pid : Alive(q) => ~(q >= TERMINAL_COUNT)
        BY <1>9
      <4> QED BY <4>1, <4>2 DEF HasChild
    <3>5. Alive(p) => terminals'[slot[p].terminal_id].initialized
      BY <3>1, <1>4, <1>7, <1>9 DEF Placed
    <3>6. Alive(p) /\ p < TERMINAL_COUNT => terminals'[p].initialized
      BY <3>1, <2>2, <1>4 DEF Placed
    <3> QED BY <3>1, <3>2, <3>3, <3>4, <3>5, <3>6 DEF Placed
  <2> QED BY <2>1, <2>2
<1>17. Tree'
  BY <1>13, <1>14, <1>15, <1>16 DEF Tree
<1>18. StackAndPageOwn'
  BY <1>3, <1>4, <1>6 DEF IInv, StackAndPageOwn
<1>19. KillsAreForFront'
  BY <1>3, <1>6, <1>16 DEF KillsAreForFront, Front
<1>20. Display'
  <2>1. PageRouted' /\ VideoRouted' /\ VidmapOwned' /\ ~Borrows(pcb)'
    BY <1>1, <1>3, <1>6, <1>8 DEF PageRouted, VideoRouted, VidmapOwned, Borrows
  <2>2. ReaderEchoes'
    <3>1. ASSUME NEW p \in Pid, at'[p] = "read"
          PROVE  terminals'[slot'[p].terminal_id].echo
      <4>1. p # t /\ at[p] = "read" /\ slot'[p] = slot[p]
        BY <3>1, <1>3
      <4>2. slot[p].terminal_id # t
        BY <4>1, <1>9 DEF IInv, Tree, Placed
      <4> QED BY <4>1, <4>2, <1>4, <1>7 DEF IInv, Display, ReaderEchoes
    <3> QED BY <3>1 DEF ReaderEchoes
  <2> QED BY <2>1, <2>2 DEF Display
<1> QED BY <1>5, <1>11, <1>12, <1>17, <1>18, <1>19, <1>20 DEF IInv

\* What sys_execute does when it starts a program under PID k.
Executed(k) ==
  /\ AllInit /\ ~Alive(k) /\ k # pcb /\ k \notin Terminal
  /\ at[pcb] = "user" /\ pcb_pool[pcb] /\ waiter[pcb] = "none" /\ ~keyboard_wait_flag /\ ~irq_off
  /\ slot' \in [Pid -> pcb_t] /\ \A p \in Pid : p # k => slot'[p] = slot[p]
  /\ slot'[k].process_id = k /\ slot'[k].terminal_id = Running
  /\ slot'[k].previous_id = pcb /\ ~slot'[k].sig_pending
  /\ terminals' \in [Terminal -> terminal_t]
  /\ \A u \in Terminal : u # Running => terminals'[u] = terminals[u]
  /\ terminals'[Running].pcb = k
  /\ \A u \in Terminal : /\ terminals'[u].initialized = terminals[u].initialized
                         /\ terminals'[u].echo = terminals[u].echo
                         /\ terminals'[u].vidmap = terminals[u].vidmap
  /\ pcb_pool' \in [Pid -> BOOLEAN] /\ pcb_pool'[k]
  /\ \A p \in Pid : p # k => pcb_pool'[p] = pcb_pool[p]
  /\ pcb' = k /\ program_page' = k /\ tss_esp0' = k
  /\ at' \in [Pid -> Location] /\ at'[k] = "user" /\ at'[pcb] = "exec"
  /\ \A p \in Pid : p # k /\ p # pcb => at'[p] = at[p]
  /\ user_if' \in [Pid -> BOOLEAN] /\ got_line' \in [Terminal -> BOOLEAN]
  /\ irq_off' = FALSE /\ progress' = FALSE
  /\ UNCHANGED <<display, input>>

\* A base shell starts nothing before all terminals are up.
LEMMA ExecuteFacts == ASSUME IInv, SysExecute PROVE \E k \in Pid : Executed(k)
<1> USE PidFacts, RunningFacts
<1>0. PICK k : k = find_next_pid
  OBVIOUS
<1>1. /\ at[pcb] = "user" /\ waiter[pcb] = "none" /\ ~keyboard_wait_flag /\ ~irq_off
      /\ pcb_pool[pcb]
  BY DEF SysExecute, InUser, Proceeds, Alive, IInv, Lock
<1>2. k \in Pid /\ ~pcb_pool[k]
  BY <1>0, NextPid DEF SysExecute, FreePids
<1>3. ~Alive(k) /\ k # pcb
  BY <1>1, <1>2 DEF Alive, IInv, Lock, Waiting
<1>4. AllInit
  <2> SUFFICES ASSUME ~AllInit PROVE FALSE
    OBVIOUS
  <2>1. pcb < TERMINAL_COUNT /\ ~got_line[Running]
    BY DEF IInv, Boot
  <2>2. pcb \in Terminal /\ terminals[pcb].initialized
    BY <2>1 DEF IInv, Tree, Placed
  <2>3. IsBaseShell(pcb)
    BY <2>2 DEF IInv, Tree, BaseShellPids
  <2> QED BY <2>1, <2>3 DEF SysExecute, MayCommand
<1>5. k \notin Terminal
  BY <1>3, <1>4 DEF AllInit, IInv, Tree, BaseShellPids
<1>6. /\ slot' = [slot EXCEPT ![k] = [process_id |-> k, terminal_id |-> Running,
                                      previous_id |-> pcb, sig_pending |-> FALSE]]
      /\ terminals' = [terminals EXCEPT ![Running].pcb = k]
      /\ pcb_pool' = [pcb_pool EXCEPT ![k] = TRUE]
      /\ pcb' = k /\ program_page' = k /\ tss_esp0' = k
      /\ at' = [[at EXCEPT ![pcb] = "exec"] EXCEPT ![k] = "user"]
      /\ user_if' = [user_if EXCEPT ![k] = FALSE]
      /\ got_line' = [got_line EXCEPT ![Running] = FALSE]
      /\ irq_off' = FALSE /\ progress' = FALSE
      /\ UNCHANGED <<display, input>>
  BY <1>0, <1>3 DEF SysExecute, Launch
<1>7. /\ slot' \in [Pid -> pcb_t] /\ \A p \in Pid : p # k => slot'[p] = slot[p]
      /\ slot'[k].process_id = k /\ slot'[k].terminal_id = Running
      /\ slot'[k].previous_id = pcb /\ ~slot'[k].sig_pending
  <2>1. PICK t \in Terminal, q \in Pid : t = Running /\ q = pcb
    OBVIOUS
  <2> DEFINE r == [process_id |-> k, terminal_id |-> t, previous_id |-> q,
                   sig_pending |-> FALSE]
  <2>2. /\ r \in pcb_t /\ r.process_id = k /\ r.terminal_id = t
        /\ r.previous_id = q /\ ~r.sig_pending
    BY <1>2, PcbLaunched
  <2>3. slot' = [slot EXCEPT ![k] = r]
    BY <1>6, <2>1
  <2> HIDE DEF r
  <2> QED BY <1>2, <2>1, <2>2, <2>3 DEF IInv, TypeOK
<1>8. /\ terminals' \in [Terminal -> terminal_t]
      /\ \A u \in Terminal : u # Running => terminals'[u] = terminals[u]
      /\ terminals'[Running].pcb = k
      /\ \A u \in Terminal : /\ terminals'[u].initialized = terminals[u].initialized
                             /\ terminals'[u].echo = terminals[u].echo
                             /\ terminals'[u].vidmap = terminals[u].vidmap
  <2>1. PICK t \in Terminal : t = Running
    OBVIOUS
  <2>2. PICK T, T1 : T = terminals /\ T1 = terminals'
    OBVIOUS
  <2>3. T \in [Terminal -> terminal_t] /\ T1 = [T EXCEPT ![t].pcb = k]
    BY <1>6, <2>1, <2>2 DEF IInv, TypeOK
  <2>4. /\ T1 \in [Terminal -> terminal_t] /\ \A u \in Terminal : u # t => T1[u] = T[u]
        /\ T1[t].pcb = k /\ T1[t].initialized = T[t].initialized
        /\ T1[t].echo = T[t].echo /\ T1[t].vidmap = T[t].vidmap
    BY <1>2, <2>3, TerminalsLaunched
  <2> QED BY <2>1, <2>2, <2>4
<1>9. /\ pcb_pool' \in [Pid -> BOOLEAN] /\ pcb_pool'[k]
      /\ \A p \in Pid : p # k => pcb_pool'[p] = pcb_pool[p]
      /\ at' \in [Pid -> Location] /\ at'[k] = "user" /\ at'[pcb] = "exec"
      /\ \A p \in Pid : p # k /\ p # pcb => at'[p] = at[p]
      /\ user_if' \in [Pid -> BOOLEAN] /\ got_line' \in [Terminal -> BOOLEAN]
  BY <1>2, <1>3, <1>6 DEF IInv, TypeOK, Location
<1> USE <1>2
<1> WITNESS k \in Pid
<1> QED BY <1>1, <1>3, <1>4, <1>5, <1>6, <1>7, <1>8, <1>9 DEF Executed

LEMMA SysExecuteInv == ASSUME IInv, SysExecute PROVE IInv'
<1> USE PidFacts, RunningFacts DEF Executed
<1>1. PICK k \in Pid : Executed(k)
  BY ExecuteFacts
<1>2. /\ \A p \in Pid : p # k => slot'[p] = slot[p]
      /\ slot'[k].process_id = k /\ slot'[k].terminal_id = Running
      /\ slot'[k].previous_id = pcb /\ ~slot'[k].sig_pending
  BY <1>1
<1>3. /\ \A u \in Terminal : u # Running => terminals'[u] = terminals[u]
      /\ terminals'[Running].pcb = k
      /\ \A u \in Terminal : /\ terminals'[u].initialized = terminals[u].initialized
                             /\ terminals'[u].echo = terminals[u].echo
                             /\ terminals'[u].vidmap = terminals[u].vidmap
  BY <1>1
<1>4. AllInit /\ k # pcb /\ k \notin Terminal /\ at'[k] = "user" /\ at'[pcb] = "exec"
      /\ \A p \in Pid : p # k /\ p # pcb => at'[p] = at[p]
  BY <1>1
<1>6. TypeOK'
  BY <1>1 DEF IInv, TypeOK
<1>7. \A p \in Pid : slot[p].terminal_id \in Terminal /\ slot[p].previous_id \in Pid
  BY DEF IInv, TypeOK, pcb_t
<1>8. /\ Running' = Running /\ Alive(k)'
      /\ \A p \in Pid : p # k => (Alive(p)' <=> Alive(p))
  BY <1>1 DEF Running, Alive
<1>9. Boot'
  BY <1>1 DEF IInv, Boot, AllInit
<1>10. Lock'
  <2>1. /\ waiter' = waiter /\ keyboard_wait_flag' = FALSE /\ waiter[pcb] = "none"
        /\ at[k] = "none" /\ at[pcb] = "user" /\ pcb' = k /\ ~progress'
    BY <1>1 DEF IInv, TypeOK, Tree, Placed
  <2>2. waiter[k] = "none"
    BY <2>1 DEF IInv, Lock, Waiting
  <2>3. ASSUME NEW p \in Pid PROVE Waiting(p)' /\ at'[p] # "halting" /\ waiter[p] # "enter"
    <3>1. at[p] # "halting" /\ waiter[p] # "enter"
      BY <2>1 DEF IInv, Lock, Waiting
    <3>2. CASE p = k \/ p = pcb
      BY <2>1, <2>2, <1>4, <3>1, <3>2 DEF Waiting, sig_mask
    <3>3. CASE p # k /\ p # pcb
      <4>1. slot'[p] = slot[p] /\ at'[p] = at[p] /\ Waiting(p)
        BY <1>1, <3>3 DEF IInv, Lock
      <4> QED BY <2>1, <3>1, <4>1 DEF Waiting, sig_mask
    <3> QED BY <3>1, <3>2, <3>3
  <2>4. ~KeysInRestore => \A p \in Pid : ~Holds(p)'
    <3>1. ~KeysInRestore => \A p \in Pid : ~Borrows(p) /\ waiter[p] # "unlock"
      BY <2>1 DEF IInv, Lock, CriticalNotPreempted, Holds, Borrows
    <3> QED BY <3>1, <2>1, <2>3 DEF Holds, Borrows
  <2>5. ~keyboard_wait_flag' /\ waiter'[pcb'] # "enter" /\ PendingAct'
    BY <1>2, <2>1, <2>2 DEF PendingAct
  <2>6. ~KeysInRestore => (ProgressOwned /\ CriticalNotPreempted)'
    BY <1>4, <2>1, <2>4 DEF ProgressOwned, CriticalNotPreempted
  <2> QED BY <2>1, <2>3, <2>5, <2>6 DEF Lock
<1>11. FrontIsOwn'
  <2>1. ASSUME NEW u \in Terminal, terminals'[u].initialized
        PROVE  terminals'[u].pcb \in Pid /\ Alive(terminals[u].pcb)'
               /\ slot'[terminals'[u].pcb].terminal_id = u
    <3>1. CASE u = Running
      BY <3>1, <1>1, <1>8
    <3>2. CASE u # Running
      <4>1. PICK x : x = terminals'[u].pcb
        OBVIOUS
      <4>2. terminals[u].initialized /\ x = terminals[u].pcb
        BY <2>1, <3>2, <4>1, <1>1
      <4>3. x \in Pid /\ Alive(x) /\ slot[x].terminal_id = u
        BY <4>2 DEF IInv, Tree, FrontIsOwn
      <4>4. Alive(x)' /\ slot'[x].terminal_id = u
        BY <4>3, <1>1, <1>8
      <4> QED BY <4>1, <4>3, <4>4
    <3> QED BY <3>1, <3>2
  <2>2. terminals'[Running'].initialized /\ terminals'[Running'].pcb = pcb'
    BY <1>1, <1>8
  <2> QED BY <2>1, <2>2 DEF FrontIsOwn
<1>12. BaseShellPids'
  <2> SUFFICES ASSUME NEW u \in Terminal, terminals'[u].initialized
               PROVE  Alive(u)' /\ slot'[u].terminal_id = u /\ slot'[u].previous_id = u
    BY DEF BaseShellPids, IsBaseShell
  <2>1. Alive(u) /\ slot[u].terminal_id = u /\ slot[u].previous_id = u
    BY <1>1 DEF IInv, Tree, BaseShellPids, IsBaseShell
  <2> QED BY <2>1, <1>1, <1>8
<1>13. ASSUME NEW p \in Pid, p # k, Alive(p), p >= TERMINAL_COUNT
       PROVE  /\ slot[p].previous_id \in Pid \ {k, p, pcb}
              /\ pcb_pool[slot[p].previous_id] /\ at[slot[p].previous_id] = "exec"
              /\ slot[slot[p].previous_id].terminal_id = slot[p].terminal_id
  <2>1. /\ pcb_pool[slot[p].previous_id] /\ slot[p].previous_id # p
        /\ at[slot[p].previous_id] = "exec"
        /\ slot[slot[p].previous_id].terminal_id = slot[p].terminal_id
    BY <1>13 DEF IInv, Tree, ParentWaits
  <2> QED BY <2>1, <1>1, <1>7 DEF Alive
<1>14. ParentWaits'
  <2> SUFFICES ASSUME NEW p \in Pid, Alive(p)', p >= TERMINAL_COUNT,
                      NEW q, q = slot'[p].previous_id
               PROVE  /\ pcb_pool'[q] /\ q # p
                      /\ at'[q] = "exec"
                      /\ slot'[q].terminal_id = slot'[p].terminal_id
    BY DEF ParentWaits
  <2>1. CASE p = k
    BY <2>1, <1>1, ZenonT(40)
  <2>2. CASE p # k
    <3>1. q = slot[p].previous_id /\ Alive(p)
      BY <2>2, <1>1, <1>8
    <3>2. q \in Pid /\ q # k /\ q # p /\ q # pcb /\ pcb_pool[q] /\ at[q] = "exec"
          /\ slot[q].terminal_id = slot[p].terminal_id
      BY <3>1, <2>2, <1>13
    <3> QED BY <3>2, <2>2, <1>1
  <2> QED BY <2>1, <2>2
<1>15. ASSUME NEW p \in Pid, p # k, p # pcb
       PROVE  Front(p)' <=> Front(p)
  <2>1. slot'[p] = slot[p] /\ terminals[Running].pcb # p /\ terminals'[Running].pcb # p
    BY <1>15, <1>2, <1>3
  <2>2. PICK t \in Terminal : t = slot[p].terminal_id
    BY <1>7
  <2>3. terminals'[t].pcb = p <=> terminals[t].pcb = p
    BY <2>1, <1>3
  <2> QED BY <2>1, <2>2, <2>3 DEF Front
<1>16. Front(k)' /\ \A p \in Pid : p = pcb => ~Front(p)'
  BY <1>1 DEF Front
<1>17. ASSUME NEW p \in Pid PROVE Placed(p)'
  <2>1. CASE p = k
    BY <2>1, <1>1, <1>8, <1>16 DEF Placed
  <2>2. CASE p = pcb
    <3>1. Alive(p)' /\ slot'[p] = slot[p] /\ at'[p] = "exec"
      BY <2>2, <1>1, <1>8
    <3>2. Placed(p) /\ Alive(p)
      BY <2>2 DEF IInv, Tree
    <3>3. ~Front(p)'
      BY <2>2, <1>16
    <3>4. terminals'[slot[p].terminal_id].initialized
          /\ (p < TERMINAL_COUNT => terminals'[p].initialized)
      BY <3>2, <1>3, <1>7 DEF Placed
    <3> QED BY <3>1, <3>3, <3>4 DEF Placed
  <2>3. CASE p # k /\ p # pcb
    <3>1. Placed(p)
      BY DEF IInv, Tree
    <3>2. slot'[p] = slot[p] /\ at'[p] = at[p] /\ (Alive(p)' <=> Alive(p))
          /\ (Front(p)' <=> Front(p))
      BY <2>3, <1>1, <1>8, <1>15
    <3> QED BY <3>1, <3>2, <1>3, <1>7 DEF Placed
  <2> QED BY <2>1, <2>2, <2>3
<1>18. ASSUME NEW p \in Pid, Alive(p)', ~Front(p)' PROVE HasChild(p)'
  <2>1. CASE p = pcb
    BY <2>1, <1>1, <1>8 DEF HasChild
  <2>2. CASE p # pcb
    <3>1. p # k /\ Alive(p) /\ ~Front(p)
      BY <2>2, <1>8, <1>15, <1>16, <1>18
    <3>2. PICK q \in Pid : Alive(q) /\ q >= TERMINAL_COUNT /\ slot[q].previous_id = p
      BY <3>1 DEF IInv, Tree, HasChild
    <3>3. Alive(q)' /\ slot'[q].previous_id = p
      BY <3>2, <1>1, <1>8
    <3> QED BY <3>2, <3>3 DEF HasChild
  <2> QED BY <2>1, <2>2
<1>19. OnlyChild'
  <2> SUFFICES ASSUME NEW p \in Pid, NEW q \in Pid, Alive(p)', Alive(q)',
                      p >= TERMINAL_COUNT, q >= TERMINAL_COUNT,
                      slot'[p].previous_id = slot'[q].previous_id
               PROVE  p = q
    BY DEF OnlyChild
  <2>1. ASSUME NEW r \in Pid, r # k, Alive(r)', r >= TERMINAL_COUNT
        PROVE  Alive(r) /\ slot'[r].previous_id = slot[r].previous_id
               /\ slot'[r].previous_id # pcb
    BY <2>1, <1>1, <1>8, <1>13
  <2>2. CASE p # k /\ q # k
    BY <2>1, <2>2 DEF IInv, Tree, OnlyChild
  <2>3. CASE p = k \/ q = k
    <3>1. slot'[k].previous_id = pcb
      BY <1>2
    <3> QED BY <2>1, <2>3, <3>1
  <2> QED BY <2>2, <2>3
<1>20. Tree'
  BY <1>11, <1>12, <1>14, <1>17, <1>18, <1>19 DEF Tree
<1>21. StackAndPageOwn'
  <2>1. \A u \in Terminal : terminals'[u].initialized /\ u # Running' =>
          terminals'[u].tss_esp = terminals'[u].pcb
    BY <1>1, <1>8 DEF IInv, StackAndPageOwn
  <2>2. \A p \in Pid : Alive(p)' => slot'[p].process_id = p
    BY <1>1, <1>8 DEF IInv, StackAndPageOwn
  <2> QED BY <2>1, <2>2, <1>1 DEF StackAndPageOwn
<1>22. KillsAreForFront'
  <2>1. ~slot[pcb].sig_pending
    BY <1>1 DEF IInv, Lock, PendingAct
  <2>2. ASSUME NEW p \in Pid, Alive(p)', slot'[p].sig_pending PROVE Front(p)'
    <3>1. p # k /\ p # pcb /\ Alive(p) /\ slot[p].sig_pending
      BY <2>1, <2>2, <1>1, <1>8
    <3> QED BY <3>1, <1>15 DEF IInv, KillsAreForFront, Front
  <2> QED BY <2>2 DEF KillsAreForFront, Front
<1>23. Display'
  <2>0. ~Borrows(pcb) /\ ~Borrows(pcb)'
    <3>1. waiter[k] = "none"
      BY <1>1 DEF IInv, Tree, Placed, Lock, Waiting
    <3> QED BY <1>1, <3>1 DEF Borrows
  <2>1. /\ PageRouted' /\ VidmapOwned'
        /\ Calm => VideoRouted' /\ (irq_off /\ Borrows(pcb) => ~slot[pcb].sig_pending)'
    BY <2>0, <1>1, <1>8 DEF IInv, Display, Calm, PageRouted, VideoRouted, VidmapOwned
  <2>2. ASSUME NEW p \in Pid, at'[p] = "read" PROVE terminals'[slot'[p].terminal_id].echo
    <3>1. p # k /\ p # pcb /\ at[p] = "read" /\ slot'[p] = slot[p]
      BY <2>2, <1>1
    <3> QED BY <3>1, <1>3, <1>7 DEF IInv, Display, ReaderEchoes
  <2> QED BY <2>1, <2>2 DEF Display, Calm, ReaderEchoes
<1> QED BY <1>6, <1>9, <1>10, <1>20, <1>21, <1>22, <1>23 DEF IInv

\* sys_halt of a base shell starts it again in place.
LEMMA RestartShellInv == ASSUME IInv, RestartShell PROVE IInv'
<1> USE PidFacts, RunningFacts
<1>1. at[pcb] = "halting" /\ pcb < TERMINAL_COUNT /\ pcb \in Terminal
  BY DEF RestartShell, HaltProceeds, HaltRestarts
<1>2. ~keyboard_wait_flag /\ ~pcb_pool[pcb] /\ waiter[pcb] = "none"
  BY <1>1 DEF IInv, Lock, Waiting
<1>3. terminals[pcb].initialized /\ Running = pcb /\ slot[pcb].previous_id = pcb
  <2>1. terminals[pcb].initialized
    BY <1>1 DEF IInv, Tree, Placed
  <2> QED BY <2>1, <1>1 DEF IInv, Tree, BaseShellPids, IsBaseShell
<1>4. ASSUME NEW q \in Pid, q < pcb PROVE pcb_pool[q]
  <2>1. q \in Terminal /\ terminals[q].initialized
    BY <1>1, <1>3, <1>4 DEF IInv, Boot
  <2>2. Alive(q) /\ q # pcb
    BY <2>1, <1>4 DEF IInv, Tree, BaseShellPids
  <2> QED BY <2>2 DEF Alive, IInv, Lock, Waiting
<1>5. find_next_pid = pcb
  BY <1>2, <1>4, NextPidIs
<1>6. PICK k \in Terminal : k = pcb
  BY <1>1
<1>7. /\ slot' = [slot EXCEPT ![k] = [process_id |-> k, terminal_id |-> k,
                                      previous_id |-> k, sig_pending |-> FALSE]]
      /\ terminals' = [terminals EXCEPT ![k].pcb = k]
      /\ pcb_pool' = [pcb_pool EXCEPT ![k] = TRUE]
      /\ pcb' = k /\ program_page' = k /\ tss_esp0' = k
      /\ at' = [at EXCEPT ![k] = "user"]
      /\ user_if' = [user_if EXCEPT ![k] = ~irq_off]
      /\ got_line' = [got_line EXCEPT ![k] = FALSE]
      /\ irq_off' = FALSE /\ progress' = FALSE
      /\ UNCHANGED <<display, input>>
  BY <1>3, <1>5, <1>6 DEF RestartShell, Launch, Running
<1>8. /\ slot' \in [Pid -> pcb_t] /\ \A p \in Pid : p # k => slot'[p] = slot[p]
      /\ slot'[k].process_id = k /\ slot'[k].terminal_id = k
      /\ slot'[k].previous_id = k /\ ~slot'[k].sig_pending
  <2> DEFINE r == [process_id |-> k, terminal_id |-> k, previous_id |-> k,
                   sig_pending |-> FALSE]
  <2>1. /\ r \in pcb_t /\ r.process_id = k /\ r.terminal_id = k
        /\ r.previous_id = k /\ ~r.sig_pending
    BY PcbLaunched
  <2>2. slot' = [slot EXCEPT ![k] = r]
    BY <1>7
  <2> HIDE DEF r
  <2> QED BY <2>1, <2>2 DEF IInv, TypeOK
<1>9. /\ terminals' \in [Terminal -> terminal_t]
      /\ \A u \in Terminal : /\ terminals'[u].initialized = terminals[u].initialized
                             /\ terminals'[u].pcb = terminals[u].pcb
                             /\ terminals'[u].tss_esp = terminals[u].tss_esp
                             /\ terminals'[u].echo = terminals[u].echo
                             /\ terminals'[u].vidmap = terminals[u].vidmap
  <2>1. terminals[k].pcb = k
    BY <1>3, <1>6
  <2>2. terminals' = terminals
    BY <2>1, <1>7 DEF IInv, TypeOK, terminal_t
  <2> QED BY <2>2 DEF IInv, TypeOK
<1>10. /\ pcb_pool' \in [Pid -> BOOLEAN] /\ pcb_pool'[k]
       /\ \A p \in Pid : p # k => pcb_pool'[p] = pcb_pool[p]
       /\ at' \in [Pid -> Location] /\ at'[k] = "user"
       /\ \A p \in Pid : p # k => at'[p] = at[p]
       /\ user_if' \in [Pid -> BOOLEAN] /\ got_line' \in [Terminal -> BOOLEAN]
       /\ \A u \in Terminal : got_line'[u] => got_line[u]
  BY <1>7 DEF IInv, TypeOK, Location
<1>11. TypeOK'
  BY <1>7, <1>8, <1>9, <1>10 DEF IInv, TypeOK
<1>12. SameProcesses
  <2>1. slot[k].process_id = k /\ slot[k].terminal_id = k /\ slot[k].previous_id = k
        /\ at[k] = "halting"
    BY <1>1, <1>3, <1>6
  <2>2. \A p \in Pid : Alive(p) <=> at[p] # "none"
    BY DEF IInv, Tree, Placed
  <2>3. ASSUME NEW p \in Pid
        PROVE  /\ Alive(p)' <=> Alive(p)
               /\ at'[p] = "exec" <=> at[p] = "exec"
               /\ at[p] = "exec" /\ pcb_pool[p] => pcb_pool'[p]
               /\ Alive(p) => at'[p] # "none"
               /\ ~Alive(p) => at'[p] = "none"
    <3>1. CASE p = k
      BY <3>1, <2>1, <1>10 DEF Alive
    <3>2. CASE p # k
      BY <3>2, <2>2, <1>10 DEF Alive
    <3> QED BY <3>1, <3>2
  <2>4. \A p \in Pid : /\ slot'[p].process_id = slot[p].process_id
                       /\ slot'[p].terminal_id = slot[p].terminal_id
                       /\ slot'[p].previous_id = slot[p].previous_id
    BY <2>1, <1>8
  <2> QED BY <2>3, <2>4, <1>9 DEF SameProcesses
<1>13. UNCHANGED running
  BY <1>6, <1>7 DEF IInv, StackAndPageOwn
<1>14. Boot' /\ Tree' /\ StackAndPageOwn'
  BY <1>7, <1>9, <1>10, <1>11, <1>12, <1>13, ProcessesKept
<1>15. Lock'
  <2>1. waiter' = waiter /\ keyboard_wait_flag' = FALSE /\ pcb' = k /\ ~progress'
    BY <1>2, <1>7 DEF IInv, TypeOK
  <2>2. ASSUME NEW p \in Pid PROVE Waiting(p)' /\ at'[p] # "halting" /\ waiter[p] # "enter"
    <3>1. CASE p = k
      BY <1>2, <1>6, <1>10, <2>1, <3>1 DEF Waiting, sig_mask
    <3>2. CASE p # k
      <4>1. slot'[p] = slot[p] /\ at'[p] = at[p] /\ Waiting(p)
        BY <1>8, <1>10, <3>2 DEF IInv, Lock
      <4> QED BY <1>6, <2>1, <3>2, <4>1 DEF Waiting, sig_mask
    <3> QED BY <3>1, <3>2
  <2>3. ~KeysInRestore => \A p \in Pid : ~Holds(p)'
    <3>1. ~KeysInRestore => \A p \in Pid : ~Borrows(p) /\ waiter[p] # "unlock"
      BY <1>2 DEF IInv, Lock, CriticalNotPreempted, Holds, Borrows
    <3> QED BY <3>1, <2>1, <2>2 DEF Holds, Borrows
  <2> QED BY <1>2, <1>6, <1>8, <2>1, <2>2, <2>3
          DEF Lock, PendingAct, ProgressOwned, CriticalNotPreempted
<1>16. KillsAreForFront'
  <2> SUFFICES ASSUME NEW p \in Pid, Alive(p)', slot'[p].sig_pending
               PROVE  terminals'[slot'[p].terminal_id].pcb = p
    BY DEF KillsAreForFront
  <2>1. slot[p].terminal_id \in Terminal
    BY DEF IInv, TypeOK, pcb_t
  <2>2. p # k /\ slot'[p] = slot[p] /\ Alive(p)
    BY <1>8, <1>12 DEF SameProcesses
  <2> QED BY <2>1, <2>2, <1>9 DEF IInv, KillsAreForFront
<1>17. Display'
  <2>0. Running' = Running
    BY <1>3, <1>6, <1>7, <1>8 DEF Running
  <2>1. /\ PageRouted' /\ VidmapOwned'
        /\ Calm => VideoRouted' /\ (irq_off /\ Borrows(pcb) => ~slot[pcb].sig_pending)'
    BY <2>0, <1>2, <1>6, <1>7, <1>9
       DEF IInv, Display, Calm, PageRouted, VideoRouted, VidmapOwned, Borrows
  <2>2. ASSUME NEW p \in Pid, at'[p] = "read" PROVE terminals'[slot'[p].terminal_id].echo
    <3>1. slot[p].terminal_id \in Terminal
      BY DEF IInv, TypeOK, pcb_t
    <3>2. at[p] = "read" /\ slot'[p] = slot[p]
      BY <2>2, <1>8, <1>10
    <3> QED BY <3>1, <3>2, <1>9 DEF IInv, Display, ReaderEchoes
  <2> QED BY <2>1, <2>2 DEF Display, Calm, ReaderEchoes
<1> QED BY <1>11, <1>14, <1>15, <1>16, <1>17 DEF IInv

\* The parent that a program's halt returns to waits for it, and for it alone.
LEMMA ParentFacts ==
  ASSUME IInv, ReturnToParent
  PROVE  \E q \in Pid :
           /\ q = slot[pcb].previous_id /\ AllInit
           /\ pcb \notin Terminal /\ at[pcb] = "halting" /\ ~pcb_pool[pcb]
           /\ pcb_pool[q] /\ q # pcb /\ at[q] = "exec" /\ slot[q].terminal_id = Running
           /\ ~slot[q].sig_pending /\ ~keyboard_wait_flag
           /\ \A p \in Pid : Alive(p) /\ p >= TERMINAL_COUNT /\ slot[p].previous_id = q
                => p = pcb
<1> USE PidFacts, RunningFacts
<1>1. at[pcb] = "halting" /\ pcb \notin Terminal /\ pcb >= TERMINAL_COUNT
  BY DEF ReturnToParent, HaltProceeds, HaltRestarts
<1>2. ~keyboard_wait_flag /\ ~pcb_pool[pcb]
  BY <1>1 DEF IInv, Lock, Waiting
<1>3. AllInit
  BY <1>1 DEF IInv, Boot
<1>4. PICK q \in Pid : q = slot[pcb].previous_id
  BY DEF IInv, TypeOK, pcb_t
<1>5. pcb_pool[q] /\ q # pcb /\ at[q] = "exec" /\ slot[q].terminal_id = Running
  BY <1>1, <1>4 DEF IInv, Tree, ParentWaits
<1>6. ~slot[q].sig_pending
  BY <1>5 DEF IInv, KillsAreForFront, Alive
<1>7. \A p \in Pid : Alive(p) /\ p >= TERMINAL_COUNT /\ slot[p].previous_id = q => p = pcb
  BY <1>1, <1>4 DEF IInv, Tree, OnlyChild
<1> QED BY <1>1, <1>2, <1>3, <1>4, <1>5, <1>6, <1>7

LEMMA ReturnToParentInv == ASSUME IInv, ReturnToParent PROVE IInv'
<1> USE PidFacts, RunningFacts
<1>1. PICK q \in Pid :
           /\ q = slot[pcb].previous_id /\ AllInit
           /\ pcb \notin Terminal /\ at[pcb] = "halting" /\ ~pcb_pool[pcb]
           /\ pcb_pool[q] /\ q # pcb /\ at[q] = "exec" /\ slot[q].terminal_id = Running
           /\ ~slot[q].sig_pending /\ ~keyboard_wait_flag
           /\ \A p \in Pid : Alive(p) /\ p >= TERMINAL_COUNT /\ slot[p].previous_id = q
                => p = pcb
  BY ParentFacts
<1>2. /\ UNCHANGED <<slot, pcb_pool, terminal_active, video_mem, vidmap_page, input, got_line>>
      /\ vidmap_present' = FALSE /\ program_page' = q /\ pcb' = q /\ tss_esp0' = q
      /\ progress' = FALSE /\ irq_off' = TRUE
      /\ user_if' = [user_if EXCEPT ![pcb] = FALSE]
      /\ at' = [at EXCEPT ![q] = "exit", ![pcb] = "none"]
      /\ terminals' = [terminals EXCEPT ![Running].pcb = q, ![Running].vidmap = FALSE]
  BY <1>1 DEF ReturnToParent, previous
<1>3. /\ at' \in [Pid -> Location] /\ at'[q] = "exit" /\ at'[pcb] = "none"
      /\ \A p \in Pid : p # q /\ p # pcb => at'[p] = at[p]
      /\ user_if' \in [Pid -> BOOLEAN]
  BY <1>1, <1>2, ZenonT(30) DEF IInv, TypeOK, Location
<1>4. /\ terminals' \in [Terminal -> terminal_t]
      /\ \A u \in Terminal : u # Running => terminals'[u] = terminals[u]
      /\ terminals'[Running].pcb = q /\ ~terminals'[Running].vidmap
      /\ \A u \in Terminal : /\ terminals'[u].initialized = terminals[u].initialized
                             /\ terminals'[u].echo = terminals[u].echo
  <2> DEFINE v == [[terminals[Running] EXCEPT !.pcb = q] EXCEPT !.vidmap = FALSE]
  <2>1. terminals[Running] \in terminal_t
    BY DEF IInv, TypeOK
  <2>2. /\ v \in terminal_t /\ v.pcb = q /\ v.initialized = terminals[Running].initialized
        /\ v.echo = terminals[Running].echo /\ ~v.vidmap
    BY <2>1 DEF terminal_t
  <2>3. terminals' = [terminals EXCEPT ![Running] = v]
    BY <2>1, <1>2 DEF IInv, TypeOK, terminal_t
  <2> HIDE DEF v
  <2> QED BY <2>2, <2>3 DEF IInv, TypeOK
<1>5. TypeOK'
  BY <1>1, <1>2, <1>3, <1>4 DEF IInv, TypeOK
<1>6. \A p \in Pid : slot[p].terminal_id \in Terminal /\ slot[p].previous_id \in Pid
  BY DEF IInv, TypeOK, pcb_t
<1>7. /\ Running' = Running
      /\ \A p \in Pid : /\ p # pcb => (Alive(p)' <=> Alive(p))
                        /\ p = pcb => ~Alive(p)'
  BY <1>1, <1>2, <1>3 DEF Running, Alive
<1>8. Boot'
  BY <1>1, <1>4 DEF IInv, Boot, AllInit
<1>9. Lock'
  <2>1. waiter' = waiter /\ keyboard_wait_flag' = FALSE /\ waiter[pcb] = "none" /\ waiter[q] = "none"
    BY <1>1, <1>2 DEF IInv, TypeOK, Lock, Waiting
  <2>2. ASSUME NEW p \in Pid PROVE Waiting(p)' /\ at'[p] # "halting" /\ waiter[p] # "enter"
    <3>1. CASE p = pcb \/ p = q
      BY <1>3, <2>1, <3>1 DEF Waiting, sig_mask
    <3>2. CASE p # pcb /\ p # q
      <4>1. slot'[p] = slot[p] /\ at'[p] = at[p] /\ Waiting(p)
        BY <1>2, <1>3, <3>2 DEF IInv, Lock
      <4> QED BY <2>1, <3>2, <4>1 DEF Waiting, sig_mask
    <3> QED BY <3>1, <3>2
  <2>3. ~KeysInRestore => \A p \in Pid : ~Holds(p)'
    <3>1. ~KeysInRestore => \A p \in Pid : ~Borrows(p) /\ waiter[p] # "unlock"
      BY <2>1 DEF IInv, Lock, CriticalNotPreempted, Holds, Borrows
    <3> QED BY <3>1, <2>1, <2>2 DEF Holds, Borrows
  <2> QED BY <1>1, <1>2, <2>1, <2>2, <2>3
          DEF Lock, PendingAct, ProgressOwned, CriticalNotPreempted
<1>10. ASSUME NEW p \in Pid, p # pcb, p # q PROVE Front(p)' <=> Front(p)
  <2>1. PICK t \in Terminal : t = slot[p].terminal_id
    BY <1>6
  <2>2. terminals'[t].pcb = p <=> terminals[t].pcb = p
    BY <1>4, <1>10
  <2> QED BY <2>1, <2>2, <1>2 DEF Front
<1>11. Front(q)' /\ Alive(q)'
  BY <1>1, <1>2, <1>4 DEF Front, Alive
<1>12. FrontIsOwn'
  <2>1. ASSUME NEW u \in Terminal, terminals'[u].initialized
        PROVE  terminals'[u].pcb \in Pid /\ Alive(terminals[u].pcb)'
               /\ slot'[terminals'[u].pcb].terminal_id = u
    <3>1. CASE u = Running
      BY <3>1, <1>1, <1>2, <1>4, <1>11
    <3>2. CASE u # Running
      <4>1. PICK x : x = terminals'[u].pcb
        OBVIOUS
      <4>2. terminals[u].initialized /\ x = terminals[u].pcb
        BY <2>1, <3>2, <4>1, <1>4
      <4>3. x \in Pid /\ Alive(x) /\ slot[x].terminal_id = u
        BY <4>2 DEF IInv, Tree, FrontIsOwn
      <4>4. Alive(x)' /\ slot'[x].terminal_id = u
        BY <4>3, <3>2, <1>2, <1>7
      <4> QED BY <4>1, <4>3, <4>4
    <3> QED BY <3>1, <3>2
  <2>2. terminals'[Running'].initialized /\ terminals'[Running'].pcb = pcb'
    BY <1>2, <1>4, <1>7
  <2> QED BY <2>1, <2>2 DEF FrontIsOwn
<1>13. BaseShellPids'
  <2> SUFFICES ASSUME NEW u \in Terminal, terminals'[u].initialized
               PROVE  Alive(u)' /\ slot'[u].terminal_id = u /\ slot'[u].previous_id = u
    BY DEF BaseShellPids, IsBaseShell
  <2>1. Alive(u) /\ slot[u].terminal_id = u /\ slot[u].previous_id = u
    BY <1>4 DEF IInv, Tree, BaseShellPids, IsBaseShell
  <2>2. u # pcb
    BY <1>1
  <2> QED BY <2>1, <2>2, <1>2, <1>7
<1>14. ParentWaits'
  <2> SUFFICES ASSUME NEW p \in Pid, Alive(p)', p >= TERMINAL_COUNT,
                      NEW r, r = slot'[p].previous_id
               PROVE  /\ pcb_pool'[r] /\ r # p
                      /\ at'[r] = "exec"
                      /\ slot'[r].terminal_id = slot'[p].terminal_id
    BY DEF ParentWaits
  <2>1. r \in Pid /\ r = slot[p].previous_id /\ Alive(p) /\ p # pcb
    BY <1>2, <1>6, <1>7
  <2>2. /\ pcb_pool[r] /\ r # p /\ at[r] = "exec"
        /\ slot[r].terminal_id = slot[p].terminal_id
    BY <2>1 DEF IInv, Tree, ParentWaits
  <2>3. r # q /\ r # pcb
    BY <2>1, <2>2, <1>1
  <2> QED BY <2>1, <2>2, <2>3, <1>2, <1>3
<1>15. ASSUME NEW p \in Pid PROVE Placed(p)'
  <2>0. Placed(p) /\ \A u \in Terminal : terminals[u].initialized
    BY <1>1 DEF IInv, Tree, AllInit
  <2>1. CASE p = pcb
    BY <2>1, <1>3, <1>7 DEF Placed
  <2>2. CASE p = q
    BY <2>0, <2>2, <1>2, <1>3, <1>4, <1>6, <1>11 DEF Placed
  <2>3. CASE p # pcb /\ p # q
    <3>1. slot'[p] = slot[p] /\ at'[p] = at[p] /\ (Alive(p)' <=> Alive(p))
          /\ (Front(p)' <=> Front(p))
      BY <2>3, <1>2, <1>3, <1>7, <1>10
    <3> QED BY <2>0, <3>1, <1>4, <1>6 DEF Placed
  <2> QED BY <2>1, <2>2, <2>3
<1>16. ASSUME NEW p \in Pid, Alive(p)', ~Front(p)' PROVE HasChild(p)'
  <2>1. p # q /\ p # pcb /\ Alive(p) /\ ~Front(p)
    BY <1>7, <1>10, <1>11, <1>16
  <2>2. PICK c \in Pid : Alive(c) /\ c >= TERMINAL_COUNT /\ slot[c].previous_id = p
    BY <2>1 DEF IInv, Tree, HasChild
  <2>3. c # pcb
    BY <2>1, <2>2, <1>1
  <2>4. Alive(c)' /\ slot'[c].previous_id = p
    BY <2>2, <2>3, <1>2, <1>7
  <2> QED BY <2>2, <2>4 DEF HasChild
<1>17. OnlyChild'
  BY <1>2, <1>7 DEF IInv, Tree, OnlyChild
<1>18. Tree'
  BY <1>12, <1>13, <1>14, <1>15, <1>16, <1>17 DEF Tree
<1>19. StackAndPageOwn'
  <2>1. \A u \in Terminal : terminals'[u].initialized /\ u # Running' =>
          terminals'[u].tss_esp = terminals'[u].pcb
    BY <1>4, <1>7 DEF IInv, StackAndPageOwn
  <2>2. \A p \in Pid : Alive(p)' => slot'[p].process_id = p
    BY <1>2, <1>7 DEF IInv, StackAndPageOwn
  <2> QED BY <2>1, <2>2, <1>2 DEF StackAndPageOwn
<1>20. KillsAreForFront'
  <2>1. ASSUME NEW p \in Pid, Alive(p)', slot'[p].sig_pending PROVE Front(p)'
    <3>1. p # pcb /\ p # q /\ Alive(p) /\ slot[p].sig_pending
      BY <2>1, <1>1, <1>2, <1>7
    <3> QED BY <3>1, <1>10 DEF IInv, KillsAreForFront, Front
  <2> QED BY <2>1 DEF KillsAreForFront, Front
<1>21. Display'
  <2>0. ~Borrows(pcb) /\ ~Borrows(pcb)'
    BY <1>1, <1>2 DEF IInv, Lock, Waiting, Borrows
  <2>1. /\ PageRouted' /\ VidmapOwned'
        /\ Calm => VideoRouted' /\ (irq_off /\ Borrows(pcb) => ~slot[pcb].sig_pending)'
    BY <2>0, <1>2, <1>4, <1>7 DEF IInv, Display, Calm, PageRouted, VideoRouted, VidmapOwned
  <2>2. ASSUME NEW p \in Pid, at'[p] = "read" PROVE terminals'[slot'[p].terminal_id].echo
    <3>1. p # q /\ p # pcb /\ at[p] = "read" /\ slot'[p] = slot[p]
      BY <2>2, <1>2, <1>3
    <3> QED BY <3>1, <1>4, <1>6 DEF IInv, Display, ReaderEchoes
  <2> QED BY <2>1, <2>2 DEF Display, Calm, ReaderEchoes
<1> QED BY <1>5, <1>8, <1>9, <1>18, <1>19, <1>20, <1>21 DEF IInv

\* A key acts on whatever runs only when all terminals are up.
LEMMA CharKeyInv ==
  ASSUME Quiet, IInv, NEW prints \in BOOLEAN, NEW enter \in BOOLEAN, CharKey(prints, enter)
  PROVE  IInv'
<1> USE PidFacts, RunningFacts
<1>1. /\ AllInit /\ ~keyboard_wait_flag /\ at[pcb] # "halting"
      /\ \A p \in Pid : at[p] # "halting" /\ waiter[p] # "enter"
  BY DEF CharKey, KeyArrives, KeysAllowed, Quiet, AllInit, IInv, Lock, Waiting
<1>2. ~KeysInRestore => progress = FALSE /\ ~Holds(pcb)
  BY <1>1 DEF CharKey, IInv, TypeOK, Lock, ProgressOwned
<1>3. /\ buf_ready' \in [Terminal -> BOOLEAN]
      /\ UNCHANGED <<scheduler_enable, wait, terminal_active>>
  BY DEF CharKey, IInv, TypeOK
<1>4. CASE Running # terminal_active
  <2>1. PICK t \in Terminal : t = terminal_active
    BY DEF IInv, TypeOK
  <2>2. switchContext(terminal_active, terminal_active, progress /\ ~prints)
    BY <1>4 DEF CharKey
  <2>3. terminals[t].initialized /\ SavedTerminals[t].initialized
    BY <1>1, SavedFacts DEF AllInit
  <2>4. Resumed(t)
    BY <2>1, <2>2, <2>3, <1>3
       DEF IInv, TypeOK, Resumed, switchContext, ResumeTerminal, FrameFor, VidmapFor
  <2> QED BY <2>1, <2>3, <2>4, <1>1, <1>2, <1>3, ResumeInv
<1>5. CASE Running = terminal_active
  <2>1. /\ progress' = (progress /\ ~prints) /\ irq_off' = ~sig_mask(pcb)
        /\ UNCHANGED <<pcb_pool, slot, terminals, video_mem, vidmap_page,
                       vidmap_present, running, at, user>>
    BY <1>5 DEF CharKey
  <2>2. TypeOK'
    BY <2>1, <1>3 DEF IInv, TypeOK, sig_mask
  <2>3. SameProcesses
    BY <2>1 DEF IInv, SameProcesses, Tree, Placed, Alive
  <2>4. Boot' /\ Tree' /\ StackAndPageOwn'
    BY <2>1, <2>2, <2>3, <1>1, ProcessesKept
  <2>5. Lock'
    <3>1. \A p \in Pid : Waiting(p)'
      BY <2>1, <1>1, <1>3 DEF IInv, Lock, Waiting, sig_mask
    <3>2. PendingAct' /\ (keyboard_wait_flag <=> waiter[pcb] = "enter")'
      BY <2>1, <1>3 DEF IInv, Lock, Waiting, PendingAct
    <3>3. ~KeysInRestore => ProgressOwned' /\ CriticalNotPreempted'
      BY <2>1, <1>2, <1>3 DEF IInv, Lock, ProgressOwned, CriticalNotPreempted, Holds,
           Borrows
    <3> QED BY <3>1, <3>2, <3>3 DEF Lock
  <2>6. KillsAreForFront'
    BY <2>1, <2>3 DEF IInv, KillsAreForFront, SameProcesses
  <2>7. Display'
    BY <2>1, <1>2, <1>3 DEF Holds, IInv, Display, Calm, PageRouted, VideoRouted,
         VidmapOwned, ReaderEchoes, Running, Borrows
  <2> QED BY <2>2, <2>4, <2>5, <2>6, <2>7 DEF IInv
<1> QED BY <1>4, <1>5

LEMMA AltKeyInv == ASSUME Quiet, IInv, NEW t \in Terminal, AltKey(t) PROVE IInv'
<1>1. AllInit
  BY DEF AltKey, KeyArrives, KeysAllowed, Quiet, AllInit
<1>2. terminals[t].initialized
  BY <1>1 DEF AllInit
<1>3. /\ ~progress /\ terminal_active' = t /\ switchContext(t, t, FALSE)
      /\ UNCHANGED <<wait, scheduler_enable, buf_ready>>
      /\ ~keyboard_wait_flag
  BY DEF AltKey, KeyArrives
<1>4. buf_ready' \in [Terminal -> BOOLEAN]
  BY <1>3 DEF IInv, TypeOK
<1>5. Resumed(t)
  BY <1>2, <1>3, SavedFacts DEF Resumed, switchContext, ResumeTerminal, FrameFor, VidmapFor
<1>6. at[pcb] # "halting"
  BY <1>3, RunningFacts DEF IInv, Lock, Waiting
<1> QED BY <1>1, <1>2, <1>3, <1>4, <1>5, <1>6, ResumeInv

LEMMA PitHandleInv == ASSUME IInv, PitHandle PROVE IInv'
<1> USE PidFacts, RunningFacts
<1>1. UNCHANGED <<input, terminal_active>>
  BY DEF PitHandle
<1>2. CASE PitSwitches
  <2>1. PICK t \in Terminal : /\ t = (Running + 1) % TERMINAL_COUNT
                              /\ switchContext(t, terminal_active, progress)
    BY <1>2 DEF PitHandle
  <2>2. ~terminals[t].initialized =>
          t # 0 /\ \A u \in Terminal : u < t => terminals[u].initialized
    BY <2>1, RoundRobin
  <2>3. ~progress
    BY <1>2 DEF PitSwitches
  <2>4. buf_ready' \in [Terminal -> BOOLEAN] /\ terminal_active' \in Terminal
    BY <1>1 DEF IInv, TypeOK
  <2>5. CASE terminals[t].initialized
    <3>1. progress = FALSE
      BY <2>3 DEF IInv, TypeOK
    <3>2. Resumed(t)
      BY <2>1, <2>5, <3>1, <1>1, SavedFacts
         DEF Resumed, switchContext, ResumeTerminal, FrameFor, VidmapFor
    <3>3. at[pcb] # "halting" /\ ~keyboard_wait_flag
      BY <2>3 DEF IInv, Lock, Waiting
    <3> QED BY <1>1, <2>3, <2>4, <2>5, <3>2, <3>3, ResumeInv
  <2>6. CASE ~terminals[t].initialized
    BY <1>1, <2>1, <2>2, <2>3, <2>6, StartTerminalInv
  <2> QED BY <2>5, <2>6
<1>3. CASE ~PitSwitches
  <2>1. /\ irq_off' = ~sig_mask(pcb)
        /\ UNCHANGED <<pcb_pool, slot, terminals, progress, video_mem, vidmap_page,
                       vidmap_present, running, at, user>>
    BY <1>3 DEF PitHandle
  <2>2. TypeOK'
    BY <2>1, <1>1 DEF IInv, TypeOK, sig_mask
  <2>3. SameProcesses
    BY <2>1 DEF IInv, SameProcesses, Tree, Placed, Alive
  <2>4. Boot' /\ Tree' /\ StackAndPageOwn'
    BY <2>1, <2>2, <2>3, <1>1, ProcessesKept
  <2>5. Lock'
    <3>1. \A p \in Pid : Waiting(p)'
      BY <2>1, <1>1 DEF IInv, Lock, Waiting, sig_mask
    <3>2. PendingAct' /\ (keyboard_wait_flag <=> waiter[pcb] = "enter")'
      BY <2>1, <1>1 DEF IInv, Lock, Waiting, PendingAct
    <3>3. ~KeysInRestore => ProgressOwned' /\ CriticalNotPreempted'
      BY <2>1, <1>1 DEF IInv, Lock, ProgressOwned, CriticalNotPreempted, Holds, Borrows
    <3> QED BY <3>1, <3>2, <3>3 DEF Lock
  <2>6. KillsAreForFront'
    BY <2>1, <2>3 DEF IInv, KillsAreForFront, SameProcesses
  <2>7. Display'
    BY <2>1, <1>1 DEF PitHandle, KillsHere, IInv, Display, Calm, PageRouted, VideoRouted,
         VidmapOwned, ReaderEchoes, Running, Borrows
  <2> QED BY <2>2, <2>4, <2>5, <2>6, <2>7 DEF IInv
<1> QED BY <1>2, <1>3

-----------------------------------------------------------------------------
(* The theorems.                                                            *)

LEMMA InitInv == ASSUME Init PROVE IInv
<1> USE PidFacts DEF Init
<1>1. TypeOK
  BY DEF TypeOK, pcb_t, terminal_t, Location, Stage, Frame
<1>2. 0 \in Terminal /\ 0 \in Pid /\ Running = 0 /\ terminals[0].initialized
      /\ terminals[0].pcb = 0 /\ \A t \in Terminal : terminals[t].initialized => t = 0
  BY DEF Running
<1>3. \A p \in Pid : (Alive(p) <=> p = 0) /\ (at[p] # "none" <=> p = 0)
                     /\ at[p] \in {"user", "none"}
  BY DEF Alive
<1>4. \A p \in Pid : slot[p].process_id = 0 /\ slot[p].terminal_id = 0
                     /\ slot[p].previous_id = 0 /\ ~slot[p].sig_pending
  OBVIOUS
<1>5. Boot
  <2>1. \A t, u \in Terminal : terminals[t].initialized /\ u < t => terminals[u].initialized
    BY <1>2 DEF Terminal
  <2> QED BY <2>1, <1>2, <1>3 DEF Boot
<1>6. Lock
  BY <1>2, <1>3, <1>4 DEF Lock, Waiting, PendingAct, ProgressOwned, CriticalNotPreempted,
       Holds, Borrows,
     sig_mask
<1>7. FrontIsOwn /\ BaseShellPids
  BY <1>2, <1>3, <1>4 DEF FrontIsOwn, BaseShellPids, IsBaseShell
<1>8. ParentWaits /\ OnlyChild
  BY <1>2, <1>3 DEF ParentWaits, OnlyChild
<1>9. \A p \in Pid : Placed(p) /\ (Alive(p) => Front(p))
  BY <1>2, <1>3, <1>4 DEF Placed, Front
<1>10. Tree
  BY <1>7, <1>8, <1>9 DEF Tree
<1>11. StackAndPageOwn
  BY <1>2, <1>3, <1>4 DEF StackAndPageOwn
<1>12. KillsAreForFront
  BY <1>4 DEF KillsAreForFront
<1>13. Display
  BY <1>2, <1>3 DEF Display, PageRouted, Borrows, VideoRouted, VidmapOwned, ReaderEchoes
<1> QED BY <1>1, <1>5, <1>6, <1>10, <1>11, <1>12, <1>13 DEF IInv

LEMMA StutterInv == ASSUME IInv, UNCHANGED vars PROVE IInv'
<1> USE DEF vars
<1>1. TypeOK' /\ Running' = Running
  BY DEF IInv, TypeOK, Running
<1>2. SameProcesses
  BY DEF IInv, SameProcesses, Tree, Placed, Alive
<1>3. Boot' /\ Tree' /\ StackAndPageOwn'
  BY <1>1, <1>2, ProcessesKept
<1>4. Lock'
  BY DEF IInv, Lock, Waiting, PendingAct, ProgressOwned, CriticalNotPreempted, Holds, Borrows, sig_mask
<1>5. KillsAreForFront'
  BY <1>2 DEF IInv, KillsAreForFront, SameProcesses
<1>6. Display'
  BY <1>1 DEF IInv, Display, Calm, PageRouted, Borrows, VideoRouted, VidmapOwned,
       ReaderEchoes
<1> QED BY <1>1, <1>3, <1>4, <1>5, <1>6 DEF IInv

LEMMA NextInv == ASSUME Quiet, IInv, Next PROVE IInv'
<1>1. CASE Program
  BY <1>1, SysExecuteInv, SysReturnInv, SysReadStdinInv, SysReadRtcInv, SysVidmapInv,
     SysHaltInv, FaultInv DEF Program
<1>2. CASE KernelStep
  BY <1>2, ReadStdinReturnsInv, ReadRtcReturnsInv, RestartShellInv, ReturnToParentInv,
     ExitToUserInv, DispatchKillsInv, DispatchReturnsInv, ReportUnmasksInv, ReportSignalsInv,
     RestoresVideoInv, UnlocksInv, CtrlCheckedInv, WaiterReturnsInv DEF KernelStep
<1>3. CASE Keyboard
  BY <1>3, CharKeyInv, AltKeyInv, CtrlCInv, CtrlSInv, CtrlPInv, KeyEnterInv
     DEF Keyboard
<1>4. CASE PitHandle
  BY <1>4, PitHandleInv
<1> QED BY <1>1, <1>2, <1>3, <1>4 DEF Next

\* The inductive invariant holds in every reachable state.
THEOREM Invariant == ASSUME Quiet PROVE Spec => []IInv
<1>1. IInv /\ [Next]_vars => IInv'
  BY NextInv, StutterInv
<1> QED BY <1>1, InitInv, PTL DEF Spec

\* Tree determines the children of every live process.
LEMMA TreeOneChild == ASSUME TypeOK, Tree PROVE OneChild
<1> USE PidFacts
<1>1. ASSUME NEW q \in Pid, NEW p \in Pid, Alive(p), p # q, slot[p].previous_id = q
      PROVE  p >= TERMINAL_COUNT /\ at[q] = "exec"
  <2>1. p \notin Terminal
    BY <1>1 DEF Tree, Placed, BaseShellPids, IsBaseShell
  <2> QED BY <2>1, <1>1 DEF Tree, ParentWaits
<1>2. ASSUME NEW q \in Pid, Alive(q)
      PROVE  LET children == {p \in Pid : Alive(p) /\ p # q /\ slot[p].previous_id = q}
             IN  IF Front(q) THEN at[q] # "exec" /\ children = {}
                 ELSE at[q] = "exec" /\ \E p \in Pid : children = {p}
  <2> DEFINE children == {p \in Pid : Alive(p) /\ p # q /\ slot[p].previous_id = q}
  <2>0. Front(q) <=> at[q] # "exec"
    BY <1>2 DEF Tree, Placed
  <2>1. CASE Front(q)
    BY <2>0, <2>1, <1>1
  <2>2. CASE ~Front(q)
    <3>1. PICK c \in Pid : Alive(c) /\ c >= TERMINAL_COUNT /\ slot[c].previous_id = q
      BY <1>2, <2>2 DEF Tree, HasChild
    <3>2. c # q
      BY <3>1 DEF Tree, ParentWaits
    <3>3. \A p \in children : p = c
      BY <3>1, <1>1 DEF Tree, OnlyChild
    <3>4. children = {c}
      BY <3>1, <3>2, <3>3
    <3> QED BY <2>0, <2>2, <3>4
  <2> QED BY <2>1, <2>2
<1> QED BY <1>2 DEF OneChild, Front

\* Every variable keeps its type.
THEOREM TypeCorrect == ASSUME Quiet PROVE Spec => []TypeOK
<1>1. IInv => TypeOK
  BY DEF IInv
<1> QED BY <1>1, Invariant, PTL

\* What a switch saves and resumes is the process in front of its own terminal.
THEOREM SwitchesKeepFronts == ASSUME Quiet PROVE Spec => []FrontIsOwn
<1>1. IInv => FrontIsOwn
  BY DEF IInv, Tree
<1> QED BY <1>1, Invariant, PTL

\* PCB, program page and kernel stack always belong to one process.
THEOREM StacksAndPagesMatch == ASSUME Quiet PROVE Spec => []StackAndPageOwn
<1>1. IInv => StackAndPageOwn
  BY DEF IInv
<1> QED BY <1>1, Invariant, PTL

\* The base shell of a terminal has the PID of the terminal, for good.
THEOREM ShellsKeepPids == ASSUME Quiet PROVE Spec => []BaseShellPids
<1>1. IInv => BaseShellPids
  BY DEF IInv, Tree
<1> QED BY <1>1, Invariant, PTL

\* Every program returns to a parent that waits for it: halting never runs into a
\* process that is gone.
THEOREM ParentsWait == ASSUME Quiet PROVE Spec => []ParentWaits
<1>1. IInv => ParentWaits
  BY DEF IInv, Tree
<1> QED BY <1>1, Invariant, PTL

\* The processes of a terminal form one line: nothing leaks, nothing forks.
THEOREM OneLinePerTerminal == ASSUME Quiet PROVE Spec => []OneChild
<1>1. IInv => OneChild
  BY TreeOneChild DEF IInv
<1> QED BY <1>1, Invariant, PTL

\* progress is raised exactly while something that must not be preempted runs, unless a
\* key is echoed before a handler's restore is complete.
THEOREM LockIsOwned == ASSUME Quiet, ~KeysInRestore PROVE Spec => []ProgressOwned
<1>1. IInv => ProgressOwned
  BY DEF IInv, Lock
<1> QED BY <1>1, Invariant, PTL

\* Neither sys_halt nor a handler that waits, or restores what it has borrowed, is ever
\* switched out, with the same exception.
THEOREM CriticalRunsOn == ASSUME Quiet, ~KeysInRestore PROVE Spec => []CriticalNotPreempted
<1>1. IInv => CriticalNotPreempted
  BY DEF IInv, Lock
<1> QED BY <1>1, Invariant, PTL

\* A killed process runs no more user code.
THEOREM KillsComeFirst == ASSUME Quiet PROVE Spec => []KillBeforeUser
<1>1. IInv => KillBeforeUser
  BY DEF IInv, Lock, PendingAct, KillBeforeUser, InUser, Proceeds
<1> QED BY <1>1, Invariant, PTL

\* No kill waits for a process that itself waits for a child.
THEOREM KillsHitFronts == ASSUME Quiet PROVE Spec => []KillsAreForFront
<1>1. IInv => KillsAreForFront
  BY DEF IInv
<1> QED BY <1>1, Invariant, PTL

\* Output goes to the screen iff the running terminal is on it; a restore is neither
\* parked by an echoed key nor cut off by a kill.
THEOREM VideoIsRouted == ASSUME Quiet, Calm PROVE Spec => []VideoRouted
<1>1. IInv => VideoRouted
  BY DEF IInv, Display
<1> QED BY <1>1, Invariant, PTL

\* No process sees the vidmap page of another terminal.
THEOREM VidmapIsOwned == ASSUME Quiet PROVE Spec => []VidmapOwned
<1>1. IInv => VidmapOwned
  BY DEF IInv, Display
<1> QED BY <1>1, Invariant, PTL

\* A process that waits for a line can get one.
THEOREM ReadersEcho == ASSUME Quiet PROVE Spec => []ReaderEchoes
<1>1. IInv => ReaderEchoes
  BY DEF IInv, Display
<1> QED BY <1>1, Invariant, PTL

-----------------------------------------------------------------------------
(* The kernel implements Sessions.  IInv does not exclude that the parents  *)
(* of a process lead in a circle: Lines does.                               *)

\* s is the line of processes of terminal t, from its base shell to the front.
IsLine(t, s) ==
  /\ s # <<>> /\ s[1] = t /\ s[Len(s)] = terminals[t].pcb
  /\ \A i \in 1 .. Len(s) - 1 : slot[s[i + 1]].previous_id = s[i]
  /\ \A i \in 1 .. Len(s) : Alive(s[i]) /\ slot[s[i]].terminal_id = t
  /\ \A i, j \in 1 .. Len(s) : s[i] = s[j] => i = j

Lines == \A t \in Terminal : terminals[t].initialized => \E s \in Seq(Pid) : IsLine(t, s)

\* Line is the function that its definition describes.
LEMMA LineDef ==
  TypeOK => \A n \in 0 .. MAX_PID_COUNT, p \in Pid :
    Line[n][p] = IF n = 0 \/ IsBaseShell(p) THEN <<p>>
                 ELSE Append(Line[n - 1][slot[p].previous_id], p)
<1> DEFINE body(L, n) == [p \in Pid |-> IF n = 0 \/ IsBaseShell(p) THEN <<p>>
                                        ELSE Append(L[n - 1][slot[p].previous_id], p)]
<1> SUFFICES ASSUME TypeOK
             PROVE  \A n \in 0 .. MAX_PID_COUNT, p \in Pid : Line[n][p] = body(Line, n)[p]
  OBVIOUS
<1> DEFINE S == [Pid -> Seq(Pid)]
           a == [p \in Pid |-> <<p>>]
           T == [Nat -> [S -> S]]
           step == [n \in Nat |-> [g \in S |-> [p \in Pid |->
             IF IsBaseShell(p) THEN <<p>> ELSE Append(g[slot[p].previous_id], p)]]]
<1>1. a \in S
  OBVIOUS
<1>2. step \in T
  BY DEF TypeOK, pcb_t
<1> HIDE DEF S, a, step
<1>3. \A st \in T : \E f \in [Nat -> S] : f[0] = a /\ \A n \in Nat : f[n + 1] = st[n][f[n]]
  BY <1>1, Iterate
<1> HIDE DEF T
<1>4. PICK f \in [Nat -> S] : f[0] = a /\ \A n \in Nat : f[n + 1] = step[n][f[n]]
  BY <1>2, <1>3
<1> DEFINE g == [n \in 0 .. MAX_PID_COUNT |-> f[n]]
<1>5. ASSUME NEW n \in 0 .. MAX_PID_COUNT PROVE f[n] = body(g, n)
  <2>1. CASE n = 0
    BY <2>1, <1>4 DEF a
  <2>2. CASE n # 0
    <3>1. n - 1 \in Nat /\ n - 1 \in 0 .. MAX_PID_COUNT /\ n - 1 + 1 = n
      BY <2>2, KernelAssumption DEF KernelAssumption
    <3>2. f[n] = step[n - 1][f[n - 1]] /\ f[n - 1] \in S /\ g[n - 1] = f[n - 1]
      BY <3>1, <1>4
    <3> QED BY <3>1, <3>2, <2>2 DEF step
  <2> QED BY <2>1, <2>2
<1>6. g = [n \in 0 .. MAX_PID_COUNT |-> body(g, n)]
  <2> HIDE DEF body
  <2> QED BY <1>5
<1>7. \E L : L = [n \in 0 .. MAX_PID_COUNT |-> body(L, n)]
  BY <1>6
<1>8. Line = [n \in 0 .. MAX_PID_COUNT |-> body(Line, n)]
  BY <1>7 DEF Line
<1>9. PICK L : L = Line
  OBVIOUS
<1>10. L = [n \in 0 .. MAX_PID_COUNT |-> body(L, n)]
  BY <1>8, <1>9
<1>11. \A n \in 0 .. MAX_PID_COUNT : L[n] = body(L, n)
  <2> HIDE DEF body
  <2> QED BY <1>10
<1> QED BY <1>9, <1>11

\* A line has no more processes than there are PIDs.
LEMMA LineLength ==
  ASSUME NEW s \in Seq(Pid), \A i, j \in 1 .. Len(s) : s[i] = s[j] => i = j
  PROVE  Len(s) <= MAX_PID_COUNT
<1>1. MAX_PID_COUNT \in Nat
  BY KernelAssumption DEF KernelAssumption
<1>2. IsFiniteSet(Pid) /\ Cardinality(Pid) = MAX_PID_COUNT
  <2>1. Cardinality(0 .. MAX_PID_COUNT - 1) = IF 0 > MAX_PID_COUNT - 1 THEN 0
          ELSE MAX_PID_COUNT - 1 - 0 + 1
    BY <1>1, FS_Interval
  <2>2. IsFiniteSet(0 .. MAX_PID_COUNT - 1)
    BY <1>1, FS_Interval
  <2> QED BY <1>1, <2>1, <2>2 DEF Pid
<1>3. PICK n \in Nat : n = Len(s)
  OBVIOUS
<1>4. Cardinality(1 .. n) = n /\ IsFiniteSet(1 .. n)
  <2>1. Cardinality(1 .. n) = IF 1 > n THEN 0 ELSE n - 1 + 1
    BY FS_Interval
  <2>2. IsFiniteSet(1 .. n)
    BY FS_Interval
  <2> QED BY <2>1, <2>2
<1>5. s \in Injection(1 .. n, Pid)
  BY <1>3 DEF Injection, IsInjective
<1>6. Cardinality(1 .. n) <= Cardinality(Pid)
  BY <1>2, <1>4, <1>5, FS_Injection, Zenon
<1> QED BY <1>2, <1>3, <1>4, <1>6

\* The session of a terminal is its line.
SessionsAreLines ==
  \A t \in Terminal, s \in Seq(Pid) :
    terminals[t].initialized /\ IsLine(t, s) => Session(t) = s

LEMMA SessionIs == TypeOK /\ BaseShellPids => SessionsAreLines
<1> USE PidFacts DEF SessionsAreLines
<1> SUFFICES ASSUME TypeOK, BaseShellPids, NEW t \in Terminal, NEW s \in Seq(Pid),
                    terminals[t].initialized, IsLine(t, s)
             PROVE  Session(t) = s
  OBVIOUS
<1>1. PICK l \in Nat : l = Len(s)
  OBVIOUS
<1>2. l >= 1 /\ l <= MAX_PID_COUNT /\ MAX_PID_COUNT \in Nat
  BY <1>1, LineLength, KernelAssumption DEF IsLine, KernelAssumption
<1>3. \A i \in 1 .. l : s[i] \in Pid
  BY <1>1
<1>4. IsBaseShell(s[1]) /\ \A i \in 1 .. l - 1 : ~IsBaseShell(s[i + 1])
                                               /\ slot[s[i + 1]].previous_id = s[i]
  <2>1. IsBaseShell(s[1])
    BY DEF IsLine, BaseShellPids
  <2>2. ASSUME NEW i \in 1 .. l - 1
        PROVE  ~IsBaseShell(s[i + 1]) /\ slot[s[i + 1]].previous_id = s[i]
    <3>1. i \in 1 .. l /\ i + 1 \in 1 .. l /\ i # i + 1
      OBVIOUS
    <3>2. s[i] # s[i + 1] /\ slot[s[i + 1]].previous_id = s[i]
      BY <1>1, <3>1 DEF IsLine
    <3> QED BY <3>2 DEF IsBaseShell
  <2> QED BY <2>1, <2>2
<1> DEFINE Good == {n \in Nat : n <= MAX_PID_COUNT =>
                      \A i \in 1 .. l : i <= n + 1 => Line[n][s[i]] = SubSeq(s, 1, i)}
<1>5. SubSeq(s, 1, 1) = <<s[1]>>
      /\ \A i \in 1 .. l - 1 : SubSeq(s, 1, i + 1) = Append(SubSeq(s, 1, i), s[i + 1])
  <2>1. SubSeq(s, 1, 1) = <<s[1]>>
    <3>1. /\ SubSeq(s, 1, 1) \in Seq(Pid) /\ Len(SubSeq(s, 1, 1)) = 1
          /\ SubSeq(s, 1, 1)[1] = s[1]
      BY <1>1, <1>2
    <3>2. <<s[1]>> \in Seq(Pid) /\ Len(<<s[1]>>) = 1 /\ <<s[1]>>[1] = s[1]
      BY <1>2, <1>3
    <3>3. PICK u, v : u = SubSeq(s, 1, 1) /\ v = <<s[1]>>
      OBVIOUS
    <3>4. u \in Seq(Pid) /\ v \in Seq(Pid) /\ Len(u) = 1 /\ Len(v) = 1 /\ u[1] = v[1]
      BY <3>1, <3>2, <3>3
    <3>5. \A i \in 1 .. Len(u) : u[i] = v[i]
      BY <3>4
    <3>6. u = v
      BY <3>4, <3>5, SeqEqual
    <3> QED BY <3>3, <3>6
  <2>2. ASSUME NEW i \in 1 .. l - 1
        PROVE  SubSeq(s, 1, i + 1) = Append(SubSeq(s, 1, i), s[i + 1])
    BY <1>1
  <2> QED BY <2>1, <2>2
<1>6. 0 \in Good
  <2>1. Line[0][s[1]] = <<s[1]>>
    <3>1. 0 \in 0 .. MAX_PID_COUNT /\ s[1] \in Pid
      BY <1>2, <1>3
    <3> QED BY <3>1, LineDef
  <2>2. \A i \in 1 .. l : i <= 0 + 1 => i = 1
    OBVIOUS
  <2> QED BY <2>1, <2>2, <1>5
<1>7. ASSUME NEW n \in Nat, n \in Good PROVE n + 1 \in Good
  <2> SUFFICES ASSUME n + 1 <= MAX_PID_COUNT, NEW i \in 1 .. l, i <= n + 2
               PROVE  Line[n + 1][s[i]] = SubSeq(s, 1, i)
    <3>1. n + 1 \in Nat /\ \A i \in 1 .. l : i <= n + 1 + 1 <=> i <= n + 2
      OBVIOUS
    <3> QED BY <3>1
  <2>1. n + 1 \in 0 .. MAX_PID_COUNT /\ n + 1 # 0 /\ n + 1 - 1 = n /\ n <= MAX_PID_COUNT
    BY <1>2
  <2>2. Line[n + 1][s[i]] = IF IsBaseShell(s[i]) THEN <<s[i]>>
                            ELSE Append(Line[n][slot[s[i]].previous_id], s[i])
    <3>1. PICK p \in Pid : p = s[i]
      BY <1>3
    <3>2. PICK m \in 0 .. MAX_PID_COUNT : m = n + 1 /\ m # 0 /\ m - 1 = n
      BY <2>1
    <3>3. Line[m][p] = IF IsBaseShell(p) THEN <<p>>
                       ELSE Append(Line[m - 1][slot[p].previous_id], p)
      BY <3>2, LineDef
    <3> QED BY <3>1, <3>2, <3>3
  <2>3. CASE i = 1
    BY <2>2, <2>3, <1>4, <1>5
  <2>4. CASE i # 1
    <3>1. i - 1 \in 1 .. l - 1 /\ i - 1 \in 1 .. l /\ i - 1 <= n + 1 /\ i - 1 + 1 = i
      BY <2>4
    <3>2. ~IsBaseShell(s[i]) /\ slot[s[i]].previous_id = s[i - 1]
      BY <3>1, <1>4
    <3>3. Line[n][s[i - 1]] = SubSeq(s, 1, i - 1)
      BY <3>1, <2>1, <1>7
    <3>4. SubSeq(s, 1, i) = Append(SubSeq(s, 1, i - 1), s[i])
      BY <3>1, <1>5
    <3> QED BY <2>2, <3>2, <3>3, <3>4
  <2> QED BY <2>3, <2>4
<1> HIDE DEF Good
<1>8. MAX_PID_COUNT \in Good
  BY <1>2, <1>6, <1>7, Induction
<1>9. Line[MAX_PID_COUNT][s[l]] = SubSeq(s, 1, l)
  BY <1>2, <1>8 DEF Good
<1>10. SubSeq(s, 1, l) = s
  BY <1>1
<1> QED BY <1>1, <1>9, <1>10 DEF Session, IsLine

\* The same of the next state.
LEMMA NextSessionIs ==
  ASSUME TypeOK', BaseShellPids', NEW t \in Terminal, NEW s \in Seq(Pid),
         terminals'[t].initialized, IsLine(t, s)'
  PROVE  Session(t)' = s
<1>1. TypeOK' /\ BaseShellPids' => SessionsAreLines'
  BY SessionIs, PTL
<1> QED BY <1>1 DEF SessionsAreLines

\* What a step leaves alone that changes no line.
SameLines ==
  /\ \A p \in Pid : Alive(p) => /\ Alive(p)'
                                /\ slot'[p].terminal_id = slot[p].terminal_id
                                /\ slot'[p].previous_id = slot[p].previous_id
  /\ \A t \in Terminal : /\ terminals'[t].initialized <=> terminals[t].initialized
                         /\ terminals'[t].pcb = terminals[t].pcb

\* A terminal whose processes a step leaves alone keeps its line.
LEMMA LineKept ==
  ASSUME IInv, IInv', NEW t \in Terminal, NEW s \in Seq(Pid), IsLine(t, s),
         terminals[t].initialized, terminals'[t].initialized,
         terminals'[t].pcb = terminals[t].pcb,
         \A p \in Pid : Alive(p) /\ slot[p].terminal_id = t =>
           /\ Alive(p)'
           /\ slot'[p].terminal_id = slot[p].terminal_id
           /\ slot'[p].previous_id = slot[p].previous_id
  PROVE  IsLine(t, s)' /\ Session(t) = s /\ Session(t)' = s
<1>1. PICK l \in Nat : l = Len(s)
  OBVIOUS
<1>2. \A i \in 1 .. l : s[i] \in Pid /\ Alive(s[i]) /\ slot[s[i]].terminal_id = t
  BY <1>1 DEF IsLine
<1>3. \A i \in 1 .. l : /\ Alive(s[i])' /\ slot'[s[i]].terminal_id = t
                        /\ slot'[s[i]].previous_id = slot[s[i]].previous_id
  BY <1>2
<1>4. \A i \in 1 .. l - 1 : i + 1 \in 1 .. l
  OBVIOUS
<1>5. \A i \in 1 .. l - 1 : slot'[s[i + 1]].previous_id = s[i]
  BY <1>1, <1>3, <1>4 DEF IsLine
<1>6. IsLine(t, s)'
  BY <1>1, <1>3, <1>5 DEF IsLine
<1>7. Session(t) = s
  BY SessionIs DEF IInv, Tree, SessionsAreLines
<1>8. Session(t)' = s
  BY <1>6, NextSessionIs DEF IInv, Tree, SessionsAreLines
<1> QED BY <1>6, <1>7, <1>8

\* What the invariants say of the sessions.
LEMMA SessionFacts ==
  ASSUME IInv, Lines
  PROVE  \A t \in Terminal :
           IF terminals[t].initialized THEN Session(t) \in Seq(Pid) /\ IsLine(t, Session(t))
           ELSE Session(t) = <<>>
<1> SUFFICES ASSUME NEW t \in Terminal
             PROVE  IF terminals[t].initialized
                    THEN Session(t) \in Seq(Pid) /\ IsLine(t, Session(t))
                    ELSE Session(t) = <<>>
  OBVIOUS
<1>1. CASE terminals[t].initialized
  <2>1. PICK s \in Seq(Pid) : IsLine(t, s)
    BY <1>1 DEF Lines
  <2>2. Session(t) = s
    BY <1>1, <2>1, SessionIs DEF IInv, Tree, SessionsAreLines
  <2> QED BY <1>1, <2>1, <2>2
<1>2. CASE ~terminals[t].initialized
  BY <1>2 DEF Session
<1> QED BY <1>1, <1>2

\* A step that changes no line changes no session; the running one may change.
LEMMA SameLinesStep ==
  ASSUME IInv, IInv', Lines, SameLines
  PROVE  Lines' /\ \E t \in Terminal : Abstract!Switch(t)
<1>1. ASSUME NEW t \in Terminal, terminals'[t].initialized
      PROVE  (\E s \in Seq(Pid) : IsLine(t, s)') /\ Session(t)' = Session(t)
  <2>1. terminals[t].initialized /\ terminals'[t].pcb = terminals[t].pcb
    BY <1>1 DEF SameLines
  <2>2. PICK s \in Seq(Pid) : IsLine(t, s)
    BY <2>1 DEF Lines
  <2>3. \A p \in Pid : Alive(p) /\ slot[p].terminal_id = t =>
           /\ Alive(p)'
           /\ slot'[p].terminal_id = slot[p].terminal_id
           /\ slot'[p].previous_id = slot[p].previous_id
    BY DEF SameLines
  <2>4. IsLine(t, s)' /\ Session(t) = s /\ Session(t)' = s
    BY <1>1, <2>1, <2>2, <2>3, LineKept
  <2> QED BY <2>4
<1>2. Lines'
  BY <1>1 DEF Lines
<1>3. \A t \in Terminal : Session(t)' = Session(t)
  <2>1. ASSUME NEW t \in Terminal, ~terminals'[t].initialized PROVE Session(t)' = Session(t)
    BY <2>1 DEF Session, SameLines
  <2> QED BY <1>1, <2>1
<1>4. Running' \in Terminal /\ terminals'[Running'].initialized
  BY DEF IInv, Tree, FrontIsOwn, Running, TypeOK, pcb_t
<1>5. PICK t \in Terminal : t = Running'
  BY <1>4
<1>6. Session(t) # <<>>
  <2>1. terminals[t].initialized
    BY <1>4, <1>5 DEF SameLines
  <2> QED BY <2>1, SessionFacts DEF IsLine
<1>7. Abstract!Switch(t)
  BY <1>3, <1>5, <1>6 DEF Abstract!Switch
<1> QED BY <1>2, <1>7

\* The other terminals' part of a step of the running one.
LEMMA OthersKept ==
  ASSUME IInv, IInv', Lines, NEW r \in Terminal,
         \A p \in Pid : Alive(p) /\ slot[p].terminal_id # r =>
           /\ Alive(p)'
           /\ slot'[p].terminal_id = slot[p].terminal_id
           /\ slot'[p].previous_id = slot[p].previous_id,
         \A t \in Terminal : t # r => /\ terminals'[t].initialized <=> terminals[t].initialized
                                      /\ terminals'[t].pcb = terminals[t].pcb
  PROVE  \A t \in Terminal : t # r =>
           /\ Session(t)' = Session(t)
           /\ terminals'[t].initialized => \E s \in Seq(Pid) : IsLine(t, s)'
<1> SUFFICES ASSUME NEW t \in Terminal, t # r
             PROVE  /\ Session(t)' = Session(t)
                    /\ terminals'[t].initialized => \E s \in Seq(Pid) : IsLine(t, s)'
  OBVIOUS
<1>1. CASE terminals'[t].initialized
  <2>1. terminals[t].initialized /\ terminals'[t].pcb = terminals[t].pcb
    BY <1>1
  <2>2. PICK s \in Seq(Pid) : IsLine(t, s)
    BY <2>1 DEF Lines
  <2>3. \A p \in Pid : Alive(p) /\ slot[p].terminal_id = t =>
           /\ Alive(p)'
           /\ slot'[p].terminal_id = slot[p].terminal_id
           /\ slot'[p].previous_id = slot[p].previous_id
    OBVIOUS
  <2>4. IsLine(t, s)' /\ Session(t) = s /\ Session(t)' = s
    BY <1>1, <2>1, <2>2, <2>3, LineKept
  <2> QED BY <2>4
<1>2. CASE ~terminals'[t].initialized
  BY <1>2 DEF Session
<1> QED BY <1>1, <1>2

\* sys_execute puts a free PID on top of the running session.
LEMMA ExecuteStep ==
  ASSUME IInv, IInv', Lines, SysExecute
  PROVE  Lines' /\ \E p \in Pid : Abstract!Execute(p)
<1> USE PidFacts, RunningFacts DEF Executed
<1>1. PICK k \in Pid : Executed(k)
  BY ExecuteFacts
<1>2. PICK r \in Terminal : r = Running
  OBVIOUS
<1>3. Running' = r
  BY <1>1, <1>2 DEF Running
<1>4. \A p \in Pid : Alive(p) => /\ p # k /\ Alive(p)'
                                 /\ slot'[p].terminal_id = slot[p].terminal_id
                                 /\ slot'[p].previous_id = slot[p].previous_id
  <2>1. pcb_pool'[pcb]
    BY <1>1
  <2>2. \A p \in Pid : Alive(p) => p # k
    BY <1>1
  <2>3. \A p \in Pid : Alive(p) => Alive(p)'
    BY <1>1, <2>1, <2>2 DEF Alive
  <2> QED BY <1>1, <2>1, <2>2, <2>3
<1>5. \A t \in Terminal : t # r =>
        /\ Session(t)' = Session(t)
        /\ terminals'[t].initialized => \E s \in Seq(Pid) : IsLine(t, s)'
  <2>1. \A t \in Terminal : t # r => /\ terminals'[t].initialized <=> terminals[t].initialized
                                     /\ terminals'[t].pcb = terminals[t].pcb
    BY <1>1, <1>2
  <2>2. \A p \in Pid : Alive(p) /\ slot[p].terminal_id # r =>
           /\ Alive(p)'
           /\ slot'[p].terminal_id = slot[p].terminal_id
           /\ slot'[p].previous_id = slot[p].previous_id
    BY <1>4
  <2> QED BY <2>1, <2>2, OthersKept
<1>6. PICK s \in Seq(Pid) : IsLine(r, s) /\ s = Session(r)
  BY <1>2, SessionFacts
<1>7. PICK l \in Nat : l = Len(s)
  OBVIOUS
<1>8. PICK z : z = Append(s, k)
  OBVIOUS
<1>9. /\ z \in Seq(Pid) /\ z # <<>> /\ Len(z) = l + 1 /\ z[l + 1] = k
      /\ \A i \in 1 .. l : z[i] = s[i]
  BY <1>7, <1>8
<1>10. l >= 1 /\ s[l] = pcb /\ s[1] = r
  BY <1>2, <1>6, <1>7 DEF IsLine
<1>11. \A i \in 1 .. l : s[i] \in Pid /\ Alive(s[i]) /\ slot[s[i]].terminal_id = r
  BY <1>6, <1>7 DEF IsLine
<1>12. \A i \in 1 .. l : s[i] # k
  BY <1>11, <1>4
<1>13. Alive(k)'
  BY <1>1 DEF Alive
<1>14. IsLine(r, z)'
  <2>1. z[1] = r /\ z[l + 1] = terminals'[r].pcb
    BY <1>1, <1>2, <1>9, <1>10
  <2>2. ASSUME NEW i \in 1 .. l PROVE slot'[z[i + 1]].previous_id = z[i]
    <3>1. CASE i = l
      BY <3>1, <1>1, <1>9, <1>10
    <3>2. CASE i # l
      <4>1. i \in 1 .. l - 1 /\ i + 1 \in 1 .. l
        BY <3>2
      <4>2. slot[s[i + 1]].previous_id = s[i]
        BY <4>1, <1>6, <1>7 DEF IsLine
      <4> QED BY <4>1, <4>2, <1>4, <1>9, <1>11
    <3> QED BY <3>1, <3>2
  <2>3. \A i \in 1 .. l + 1 : i = l + 1 \/ i \in 1 .. l
    OBVIOUS
  <2>4. ASSUME NEW i \in 1 .. l + 1 PROVE Alive(z[i])' /\ slot'[z[i]].terminal_id = r
    <3>1. CASE i = l + 1
      BY <3>1, <1>1, <1>2, <1>9, <1>13
    <3>2. CASE i \in 1 .. l
      BY <3>2, <1>4, <1>9, <1>11
    <3> QED BY <2>3, <3>1, <3>2
  <2>5. \A i, j \in 1 .. l : s[i] = s[j] => i = j
    BY <1>6, <1>7 DEF IsLine
  <2>6. \A i, j \in 1 .. l + 1 : z[i] = z[j] => i = j
    BY <2>3, <2>5, <1>9, <1>12
  <2>7. l + 1 - 1 = l
    OBVIOUS
  <2> QED BY <2>1, <2>2, <2>4, <2>6, <2>7, <1>9 DEF IsLine
<1>15. Session(r)' = z
  <2>1. terminals'[r].initialized
    BY <1>1, <1>2
  <2> QED BY <2>1, <1>9, <1>14, NextSessionIs DEF IInv, Tree
<1>16. Lines'
  BY <1>5, <1>9, <1>14 DEF Lines
<1>17. Abstract!Execute(k)
  <2>1. ASSUME NEW t \in Terminal, NEW i \in 1 .. Len(Session(t)) PROVE Session(t)[i] # k
    <3>1. PICK u \in Seq(Pid) : IsLine(t, u) /\ u = Session(t)
      BY <2>1, SessionFacts
    <3>2. i \in 1 .. Len(u)
      BY <2>1, <3>1
    <3>3. u[i] \in Pid /\ Alive(u[i])
      BY <3>1, <3>2 DEF IsLine
    <3>4. u[i] # k
      BY <3>3, <1>4
    <3> QED BY <3>1, <3>4
  <2>2. k \notin Abstract!InUse
    BY <2>1 DEF Abstract!InUse
  <2>3. [t \in Terminal |-> Session(t)]'
          = [[t \in Terminal |-> Session(t)] EXCEPT ![r] = Append(@, k)]
    BY <1>5, <1>6, <1>8, <1>15
  <2> QED BY <1>2, <1>3, <2>2, <2>3 DEF Abstract!Execute
<1> QED BY <1>16, <1>17

\* sys_halt takes the PID off the running session, down to its parent.
LEMMA HaltStep ==
  ASSUME IInv, IInv', Lines, ReturnToParent
  PROVE  Lines' /\ Abstract!Halt
<1> USE PidFacts, RunningFacts
<1>1. PICK q \in Pid :
         /\ q = slot[pcb].previous_id /\ AllInit
         /\ pcb \notin Terminal /\ at[pcb] = "halting" /\ ~pcb_pool[pcb]
         /\ pcb_pool[q] /\ q # pcb /\ at[q] = "exec" /\ slot[q].terminal_id = Running
         /\ ~slot[q].sig_pending /\ ~keyboard_wait_flag
         /\ \A p \in Pid : Alive(p) /\ p >= TERMINAL_COUNT /\ slot[p].previous_id = q
              => p = pcb
  BY ParentFacts
<1>2. PICK r \in Terminal : r = Running
  OBVIOUS
<1>3. /\ slot' = slot /\ pcb_pool' = pcb_pool /\ pcb' = q
      /\ at' = [at EXCEPT ![q] = "exit", ![pcb] = "none"]
      /\ terminals' = [terminals EXCEPT ![r].pcb = q, ![r].vidmap = FALSE]
  BY <1>1, <1>2 DEF ReturnToParent, previous
<1>4. /\ \A p \in Pid : p # q /\ p # pcb => at'[p] = at[p]
      /\ terminals'[r].pcb = q
      /\ \A t \in Terminal : /\ terminals'[t].initialized = terminals[t].initialized
                             /\ t # r => terminals'[t].pcb = terminals[t].pcb
  BY <1>1, <1>3 DEF IInv, TypeOK, terminal_t
<1>5. Running' = r
  BY <1>1, <1>2, <1>3 DEF Running
<1>6. \A p \in Pid : Alive(p) /\ p # pcb => Alive(p)'
  BY <1>1, <1>3, <1>4 DEF Alive
<1>7. \A t \in Terminal : t # r =>
        /\ Session(t)' = Session(t)
        /\ terminals'[t].initialized => \E s \in Seq(Pid) : IsLine(t, s)'
  <2>1. \A p \in Pid : Alive(p) /\ slot[p].terminal_id # r =>
           /\ Alive(p)'
           /\ slot'[p].terminal_id = slot[p].terminal_id
           /\ slot'[p].previous_id = slot[p].previous_id
    BY <1>2, <1>3, <1>6
  <2>2. \A t \in Terminal : t # r => /\ terminals'[t].initialized <=> terminals[t].initialized
                                     /\ terminals'[t].pcb = terminals[t].pcb
    BY <1>4
  <2> QED BY <2>1, <2>2, OthersKept
<1>8. PICK s \in Seq(Pid) : IsLine(r, s) /\ s = Session(r)
  BY <1>2, SessionFacts
<1>9. PICK l \in Nat : l = Len(s)
  OBVIOUS
<1>10. s[l] = pcb /\ s[1] = r /\ l >= 1
  BY <1>2, <1>8, <1>9 DEF IsLine
<1>11. l > 1
  <2>1. l # 1
    BY <1>1, <1>10
  <2> QED BY <2>1, <1>10
<1>12. s[l - 1] = q
  <2>1. l - 1 \in 1 .. l - 1 /\ l - 1 + 1 = l
    BY <1>11
  <2> QED BY <2>1, <1>1, <1>8, <1>9, <1>10 DEF IsLine
<1>13. \A i \in 1 .. l : s[i] \in Pid /\ Alive(s[i]) /\ slot[s[i]].terminal_id = r
  BY <1>8, <1>9 DEF IsLine
<1>14. \A i, j \in 1 .. l : s[i] = s[j] => i = j
  BY <1>8, <1>9 DEF IsLine
<1>15. \A i \in 1 .. l - 1 : s[i] # pcb
  <2>1. \A i \in 1 .. l - 1 : i \in 1 .. l /\ l \in 1 .. l /\ i # l
    BY <1>11
  <2> QED BY <2>1, <1>10, <1>14
<1>16. PICK z : z = SubSeq(s, 1, l - 1)
  OBVIOUS
<1>17. z \in Seq(Pid) /\ Len(z) = l - 1 /\ \A i \in 1 .. l - 1 : z[i] = s[i]
  BY <1>9, <1>11, <1>16
<1>18. z # <<>>
  BY <1>11, <1>17
<1>19. IsLine(r, z)'
  <2>1. z[1] = r /\ z[l - 1] = terminals'[r].pcb
    BY <1>4, <1>10, <1>11, <1>12, <1>17
  <2>2. ASSUME NEW i \in 1 .. l - 1 - 1 PROVE slot'[z[i + 1]].previous_id = z[i]
    <3>1. i \in 1 .. l - 1 /\ i + 1 \in 1 .. l - 1
      OBVIOUS
    <3>2. slot[s[i + 1]].previous_id = s[i]
      BY <3>1, <1>8, <1>9 DEF IsLine
    <3> QED BY <3>1, <3>2, <1>3, <1>17
  <2>3. ASSUME NEW i \in 1 .. l - 1 PROVE Alive(z[i])' /\ slot'[z[i]].terminal_id = r
    <3>1. i \in 1 .. l
      OBVIOUS
    <3> QED BY <3>1, <1>3, <1>6, <1>13, <1>15, <1>17
  <2>4. \A i, j \in 1 .. l - 1 : z[i] = z[j] => i = j
    <3>1. \A i \in 1 .. l - 1 : i \in 1 .. l
      OBVIOUS
    <3> QED BY <3>1, <1>14, <1>17
  <2> QED BY <2>1, <2>2, <2>3, <2>4, <1>17, <1>18 DEF IsLine
<1>20. Session(r)' = z
  <2>1. terminals'[r].initialized
    BY <1>2, <1>4
  <2> QED BY <2>1, <1>17, <1>19, NextSessionIs DEF IInv, Tree
<1>21. Lines'
  BY <1>7, <1>17, <1>19 DEF Lines
<1>22. Abstract!Halt
  <2>1. [t \in Terminal |-> Session(t)]'
          = [[t \in Terminal |-> Session(t)] EXCEPT ![r] = SubSeq(@, 1, Len(@) - 1)]
    BY <1>7, <1>8, <1>9, <1>16, <1>20
  <2>2. Len([t \in Terminal |-> Session(t)][r]) > 1
    BY <1>8, <1>9, <1>11
  <2> QED BY <1>2, <1>5, <2>1, <2>2 DEF Abstract!Halt
<1> QED BY <1>21, <1>22

\* The first switch to a terminal opens its session.
LEMMA OpenStep ==
  ASSUME IInv, IInv', Lines, NEW t \in Terminal, ~terminals[t].initialized, t # 0,
         \A u \in Terminal : u < t => terminals[u].initialized,
         switchContext(t, terminal_active, progress), ~progress
  PROVE  Lines' /\ Abstract!Open(t)
<1> USE PidFacts, RunningFacts
<1>1. /\ \A p \in Pid : at[p] \notin {"fault", "halting"}
      /\ ~Alive(t)
      /\ \A p \in Pid : p # t => slot'[p] = slot[p]
      /\ slot'[t].terminal_id = t /\ slot'[t].previous_id = t
      /\ \A u \in Terminal : u # t => terminals'[u] = SavedTerminals[u]
      /\ terminals'[t].pcb = t /\ terminals'[t].initialized
      /\ pcb_pool'[t] /\ \A p \in Pid : p # t => pcb_pool'[p] = pcb_pool[p]
      /\ pcb' = t
      /\ \A p \in Pid : p # t => at'[p] = at[p]
  BY StartTerminalFacts
<1>2. Running' = t
  BY <1>1 DEF Running
<1>3. \A p \in Pid : Alive(p) => p # t /\ Alive(p)'
  BY <1>1 DEF Alive
<1>4. \A u \in Terminal : u # t =>
        /\ Session(u)' = Session(u)
        /\ terminals'[u].initialized => \E s \in Seq(Pid) : IsLine(u, s)'
  <2>1. \A u \in Terminal : u # t => /\ terminals'[u].initialized <=> terminals[u].initialized
                                     /\ terminals'[u].pcb = terminals[u].pcb
    BY <1>1, SavedFacts
  <2>2. \A p \in Pid : Alive(p) /\ slot[p].terminal_id # t =>
           /\ Alive(p)'
           /\ slot'[p].terminal_id = slot[p].terminal_id
           /\ slot'[p].previous_id = slot[p].previous_id
    BY <1>1, <1>3
  <2> QED BY <2>1, <2>2, OthersKept
<1>5. PICK z : z = <<t>>
  OBVIOUS
<1>6. z \in Seq(Pid) /\ Len(z) = 1 /\ z[1] = t /\ z # <<>>
  BY <1>5
<1>7. IsLine(t, z)'
  <2>1. \A i \in 1 .. 1 : i = 1
    OBVIOUS
  <2>2. Alive(t)'
    BY <1>1 DEF Alive
  <2>3. \A i \in 1 .. 1 - 1 : FALSE
    OBVIOUS
  <2> QED BY <1>1, <1>6, <2>1, <2>2, <2>3 DEF IsLine
<1>8. Session(t)' = z
  BY <1>1, <1>6, <1>7, NextSessionIs DEF IInv, Tree
<1>9. Lines'
  BY <1>4, <1>6, <1>7 DEF Lines
<1>10. Abstract!Open(t)
  <2>1. ASSUME NEW u \in Terminal, NEW i \in 1 .. Len(Session(u)) PROVE Session(u)[i] # t
    <3>1. IsLine(u, Session(u))
      BY <2>1, SessionFacts
    <3> QED BY <2>1, <3>1, <1>3 DEF IsLine
  <2>2. t \notin Abstract!InUse
    BY <2>1 DEF Abstract!InUse
  <2>3. Session(t) = <<>>
    BY SessionFacts
  <2>4. [u \in Terminal |-> Session(u)]' = [[u \in Terminal |-> Session(u)] EXCEPT ![t] = <<t>>]
    BY <1>4, <1>5, <1>8
  <2> QED BY <1>2, <2>2, <2>3, <2>4 DEF Abstract!Open
<1> QED BY <1>9, <1>10

\* A switch to a terminal that is up leaves the lines alone.
LEMMA ResumeSameLines ==
  ASSUME IInv, NEW t \in Terminal, terminals[t].initialized, NEW a, NEW lock,
         switchContext(t, a, lock)
  PROVE  SameLines
<1>1. terminals' = SavedTerminals /\ UNCHANGED <<slot, pcb_pool, at>>
  BY SavedFacts DEF switchContext, ResumeTerminal
<1> QED BY <1>1, SavedFacts DEF SameLines, Alive

\* A base shell that halts is restarted in place, under its own PID.
LEMMA RestartSameLines ==
  ASSUME IInv, RestartShell
  PROVE  SameLines
<1> USE PidFacts, RunningFacts
<1>1. at[pcb] = "halting" /\ pcb \in Terminal /\ ~pcb_pool[pcb]
  BY DEF RestartShell, HaltProceeds, HaltRestarts, IInv, Lock, Waiting
<1>2. IsBaseShell(pcb) /\ Running = pcb
  <2>1. terminals[pcb].initialized
    BY <1>1 DEF IInv, Tree, Placed
  <2> QED BY <1>1, <2>1 DEF IInv, Tree, BaseShellPids
<1>3. ASSUME NEW q \in Pid, q < pcb PROVE pcb_pool[q]
  <2>1. q \in Terminal /\ terminals[q].initialized
    BY <1>1, <1>2, <1>3 DEF IInv, Boot
  <2>2. at[q] # "halting"
    BY <1>3 DEF IInv, Lock, Waiting
  <2> QED BY <2>1, <2>2 DEF IInv, Tree, BaseShellPids, Alive
<1>4. find_next_pid = pcb
  BY <1>1, <1>3, NextPidIs
<1>5. /\ slot' = [slot EXCEPT ![pcb] = [process_id |-> pcb, terminal_id |-> Running,
                                        previous_id |-> pcb, sig_pending |-> FALSE]]
      /\ terminals' = [terminals EXCEPT ![Running].pcb = pcb]
      /\ pcb_pool' = [pcb_pool EXCEPT ![pcb] = TRUE]
      /\ at' = [at EXCEPT ![pcb] = "user"]
  BY <1>4 DEF RestartShell, Launch
<1>6. \A p \in Pid : Alive(p) => Alive(p)'
  BY <1>5 DEF Alive, IInv, TypeOK
<1>7. \A p \in Pid : /\ slot'[p].terminal_id = slot[p].terminal_id
                     /\ slot'[p].previous_id = slot[p].previous_id
  BY <1>2, <1>5 DEF IsBaseShell, IInv, TypeOK
<1>8. \A t \in Terminal : /\ terminals'[t].initialized = terminals[t].initialized
                          /\ terminals'[t].pcb = terminals[t].pcb
  BY <1>5 DEF IInv, TypeOK, terminal_t
<1> QED BY <1>6, <1>7, <1>8 DEF SameLines

\* Of the other actions, none changes a line.
LEMMA ProgramSameLines ==
  ASSUME IInv, SysReturn \/ SysReadStdin \/ SysReadRtc \/ SysVidmap \/ SysHalt \/ Fault
  PROVE  SameLines
<1> USE RunningFacts DEF SameLines, Alive, IInv, TypeOK, InUser, Proceeds
<1>1. CASE SysReturn
  BY <1>1 DEF SysReturn
<1>2. CASE SysReadStdin
  BY <1>2 DEF SysReadStdin, Echo, terminal_t
<1>3. CASE SysReadRtc
  BY <1>3 DEF SysReadRtc
<1>4. CASE SysVidmap
  BY <1>4 DEF SysVidmap, terminal_t
<1>5. CASE SysHalt
  BY <1>5 DEF SysHalt, HaltBegins, FreedPool
<1>6. CASE Fault
  BY <1>6 DEF Fault
<1> QED BY <1>1, <1>2, <1>3, <1>4, <1>5, <1>6

LEMMA KernelSameLines ==
  ASSUME IInv, ReadStdinReturns \/ ReadRtcReturns \/ ExitToUser \/ DispatchKills \/ DispatchReturns
  PROVE  SameLines
<1> USE RunningFacts DEF SameLines, Alive, IInv, TypeOK, Proceeds
<1>1. CASE ReadStdinReturns
  BY <1>1 DEF ReadStdinReturns, Echo, terminal_t
<1>2. CASE ReadRtcReturns
  BY <1>2 DEF ReadRtcReturns
<1>3. CASE ExitToUser
  BY <1>3 DEF ExitToUser
<1>4. CASE DispatchKills
  BY <1>4 DEF DispatchKills, HaltBegins, FreedPool, pcb_t
<1>5. CASE DispatchReturns
  BY <1>5 DEF DispatchReturns
<1> QED BY <1>1, <1>2, <1>3, <1>4, <1>5

LEMMA KeyboardSameLines ==
  ASSUME Quiet, IInv, Keyboard
  PROVE  SameLines
<1> USE RunningFacts
<1>1. ASSUME NEW prints \in BOOLEAN, NEW enter \in BOOLEAN, CharKey(prints, enter)
      PROVE  SameLines
  <2>1. AllInit /\ terminal_active \in Terminal
    BY <1>1 DEF CharKey, KeyArrives, KeysAllowed, Quiet, AllInit, IInv, TypeOK
  <2>2. CASE Running # terminal_active
    <3>1. switchContext(terminal_active, terminal_active, progress /\ ~prints)
      BY <1>1, <2>2 DEF CharKey
    <3> QED BY <3>1, <2>1, ResumeSameLines DEF AllInit
  <2>3. CASE Running = terminal_active
    BY <1>1, <2>3 DEF CharKey, SameLines, Alive
  <2> QED BY <2>2, <2>3
<1>2. ASSUME NEW t \in Terminal, AltKey(t) PROVE SameLines
  <2>1. terminals[t].initialized /\ switchContext(t, t, FALSE)
    BY <1>2 DEF AltKey, KeyArrives, KeysAllowed, Quiet
  <2> QED BY <2>1, ResumeSameLines
<1> USE DEF SameLines, Alive, IInv, TypeOK
<1>3. CASE CtrlC
  <2>1. \A p \in Pid : /\ sig_set(InterruptTarget)[p].terminal_id = slot[p].terminal_id
                       /\ sig_set(InterruptTarget)[p].previous_id = slot[p].previous_id
    BY DEF sig_set, pcb_t
  <2> QED BY <1>3, <2>1 DEF CtrlC
<1>4. CASE CtrlS
  BY <1>4 DEF CtrlS
<1>5. CASE CtrlP
  BY <1>5 DEF CtrlP
<1>6. CASE KeyEnter
  BY <1>6 DEF KeyEnter
<1> QED BY <1>1, <1>2, <1>3, <1>4, <1>5, <1>6 DEF Keyboard

LEMMA WaiterSameLines ==
  ASSUME IInv, ReportUnmasks \/ ReportSignals \/ RestoresVideo \/ Unlocks
               \/ (\E ctrl \in BOOLEAN : CtrlChecked(ctrl)) \/ WaiterReturns
  PROVE  SameLines
<1>1. UNCHANGED <<pcb_pool, terminals, at>> /\ (slot' = slot \/ slot' = sig_set(pcb))
  BY DEF ReportUnmasks, ReportSignals, RestoresVideo, Unlocks, CtrlChecked, WaiterReturns
<1>2. \A p \in Pid : /\ slot'[p].terminal_id = slot[p].terminal_id
                     /\ slot'[p].previous_id = slot[p].previous_id
  BY <1>1, SignalSets DEF IInv, TypeOK
<1> QED BY <1>1, <1>2 DEF SameLines, Alive

\* Every step of the kernel keeps the lines and is a step of the sessions, or none.
LEMMA NextRefines ==
  ASSUME Quiet, IInv, IInv', Lines, Next
  PROVE  Lines' /\ Abstract!SessionsNext
<1>1. ASSUME SameLines PROVE Lines' /\ Abstract!SessionsNext
  BY <1>1, SameLinesStep DEF Abstract!SessionsNext
<1>2. CASE SysExecute
  BY <1>2, ExecuteStep DEF Abstract!SessionsNext
<1>3. CASE ReturnToParent
  BY <1>3, HaltStep DEF Abstract!SessionsNext
<1>4. CASE PitHandle
  <2>1. CASE PitSwitches
    <3>1. PICK t \in Terminal : /\ t = (Running + 1) % TERMINAL_COUNT
                                /\ switchContext(t, terminal_active, progress)
      BY <1>4, <2>1 DEF PitHandle
    <3>2. CASE terminals[t].initialized
      BY <1>1, <3>1, <3>2, ResumeSameLines
    <3>3. CASE ~terminals[t].initialized
      <4>1. t # 0 /\ \A u \in Terminal : u < t => terminals[u].initialized
        BY <3>1, <3>3, RoundRobin
      <4>2. ~progress
        BY <2>1 DEF PitSwitches
      <4> QED BY <3>1, <3>3, <4>1, <4>2, OpenStep DEF Abstract!SessionsNext
    <3> QED BY <3>2, <3>3
  <2>2. CASE ~PitSwitches
    <3>1. SameLines
      BY <1>4, <2>2 DEF PitHandle, SameLines, Alive
    <3> QED BY <1>1, <3>1
  <2> QED BY <2>1, <2>2
<1>5. CASE RestartShell
  BY <1>1, <1>5, RestartSameLines
<1>6. CASE Keyboard
  BY <1>1, <1>6, KeyboardSameLines
<1>7. CASE SysReturn \/ SysReadStdin \/ SysReadRtc \/ SysVidmap \/ SysHalt \/ Fault
  BY <1>1, <1>7, ProgramSameLines
<1>8. CASE ReadStdinReturns \/ ReadRtcReturns \/ ExitToUser \/ DispatchKills \/ DispatchReturns
  BY <1>1, <1>8, KernelSameLines
<1>9. CASE ReportUnmasks \/ ReportSignals \/ RestoresVideo \/ Unlocks
           \/ (\E ctrl \in BOOLEAN : CtrlChecked(ctrl)) \/ WaiterReturns
  BY <1>1, <1>9, WaiterSameLines
<1> QED BY <1>2, <1>3, <1>4, <1>5, <1>6, <1>7, <1>8, <1>9 DEF Next, Program, KernelStep

LEMMA InitRefines == ASSUME Init PROVE Lines /\ Abstract!SessionsInit
<1> USE PidFacts
<1>1. IInv
  BY InitInv
<1>2. Running = 0 /\ terminals[0].pcb = 0 /\ terminals[0].initialized
      /\ \A t \in Terminal : terminals[t].initialized => t = 0
      /\ pcb_pool[0] /\ slot[0].terminal_id = 0
  BY DEF Init, Running
<1>3. PICK z : z = <<0>>
  OBVIOUS
<1>4. z \in Seq(Pid) /\ Len(z) = 1 /\ z[1] = 0 /\ z # <<>>
  BY <1>3
<1>5. IsLine(0, z)
  <2>1. (\A i \in 1 .. 1 : i = 1) /\ \A i \in 1 .. 1 - 1 : FALSE
    OBVIOUS
  <2> QED BY <1>2, <1>4, <2>1 DEF IsLine, Alive
<1>6. Session(0) = z
  BY <1>1, <1>2, <1>4, <1>5, SessionIs DEF IInv, Tree, SessionsAreLines
<1>7. \A t \in Terminal : t # 0 => Session(t) = <<>>
  BY <1>2 DEF Session
<1>8. Lines
  BY <1>2, <1>4, <1>5 DEF Lines
<1>9. \A t \in Terminal : Session(t) = IF t = 0 THEN <<0>> ELSE <<>>
  BY <1>3, <1>6, <1>7
<1> QED BY <1>2, <1>8, <1>9 DEF Abstract!SessionsInit

\* No step at all changes no session.
LEMMA StutterRefines ==
  ASSUME IInv, IInv', Lines, UNCHANGED vars
  PROVE  Lines' /\ UNCHANGED Abstract!sessions
<1>1. SameLines
  BY DEF SameLines, Alive, vars
<1>2. Lines' /\ \E t \in Terminal : Abstract!Switch(t)
  BY <1>1, SameLinesStep
<1>3. Running' = Running
  BY DEF Running, vars
<1> QED BY <1>2, <1>3 DEF Abstract!sessions, Abstract!Switch

\* The processes of the kernel are sessions: whatever interleaving of system calls,
\* interrupts and keys, each step runs, halts, opens or switches one session and leaves
\* the others as they are.
THEOREM KernelImplementsSessions == ASSUME Quiet PROVE Spec => ImplementsSessions
<1>1. Init => Lines /\ Abstract!SessionsInit
  BY InitRefines
<1>2. IInv /\ IInv' /\ Lines /\ [Next]_vars => Lines' /\ [Abstract!SessionsNext]_(Abstract!sessions)
  BY NextRefines, StutterRefines
<1> QED BY <1>1, <1>2, Invariant, PTL DEF Spec, ImplementsSessions, Abstract!SessionsSpec
=============================================================================
