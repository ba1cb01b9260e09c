--------------------------- MODULE KernelSessions ---------------------------
(***************************************************************************)
(* The kernel implements Sessions: the stack of a terminal is the line of  *)
(* previous_id from terminals[t].pcb down to the base shell.               *)
(***************************************************************************)
EXTENDS Kernel, Sequences

\* Line[n][p]: p and its ancestors, at most n of them, eldest first.
Line[n \in 0 .. MAX_PID_COUNT] ==
  [p \in Pid |-> IF n = 0 \/ IsBaseShell(p) THEN <<p>>
                 ELSE Append(Line[n - 1][slot[p].previous_id], p)]

Session(t) ==
  IF terminals[t].initialized THEN Line[MAX_PID_COUNT][terminals[t].pcb] ELSE <<>>

Abstract == INSTANCE Sessions WITH stack <- [t \in Terminal |-> Session(t)],
                                   running <- Running

\* Every step of the kernel is a step of some session, or changes none.
ImplementsSessions == Abstract!SessionsSpec
=============================================================================
