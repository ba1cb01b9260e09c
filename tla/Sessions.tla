------------------------------ MODULE Sessions ------------------------------
(***************************************************************************)
(* What the kernel promises its users: every terminal is a session, a      *)
(* stack of processes with a base shell at the bottom.  Executing a        *)
(* program puts it on the stack of the running terminal under a PID that   *)
(* nobody uses; halting it takes it off again and the process that         *)
(* executed it goes on; the base shell never leaves.  Only the process on  *)
(* top of the running terminal's stack computes.                           *)
(***************************************************************************)
EXTENDS Integers, Sequences

CONSTANTS Terminal, Pid

VARIABLES stack, running

sessions == <<stack, running>>

InUse == UNION {{stack[t][i] : i \in 1 .. Len(stack[t])} : t \in Terminal}

SessionsInit ==
  /\ stack = [t \in Terminal |-> IF t = 0 THEN <<0>> ELSE <<>>]
  /\ running = 0

\* A terminal that comes up gets the base shell of its number.
Open(t) ==
  /\ stack[t] = <<>> /\ t \notin InUse
  /\ stack' = [stack EXCEPT ![t] = <<t>>]
  /\ running' = t

Execute(p) ==
  /\ p \notin InUse
  /\ stack' = [stack EXCEPT ![running] = Append(@, p)]
  /\ UNCHANGED running

Halt ==
  /\ Len(stack[running]) > 1
  /\ stack' = [stack EXCEPT ![running] = SubSeq(@, 1, Len(@) - 1)]
  /\ UNCHANGED running

Switch(t) ==
  /\ stack[t] # <<>>
  /\ running' = t
  /\ UNCHANGED stack

SessionsNext ==
  \/ \E t \in Terminal : Open(t) \/ Switch(t)
  \/ \E p \in Pid : Execute(p)
  \/ Halt

SessionsSpec == SessionsInit /\ [][SessionsNext]_sessions

=============================================================================
