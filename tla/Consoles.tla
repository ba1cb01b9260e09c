------------------------------ MODULE Consoles ------------------------------
(***************************************************************************)
(* What the three terminals look like to their users and programs: each is *)
(* a console of its own, its text and its cursor.  On it appear, in order, *)
(* what its programs print and draw while one of them runs, and while it   *)
(* is on the screen the echo of the keys and what the kernel reports; and  *)
(* nothing that was meant for another console.                             *)
(***************************************************************************)
CONSTANTS Terminal, Text, Drawings, Cleared, PutC(_, _)

VARIABLES console, shown, running

consoles == <<console, shown, running>>

\* Text appears on the console of the program that runs, or on the one that is shown.
Put(t, c) ==
  /\ t \in {running, shown}
  /\ console' = [console EXCEPT ![t] = PutC(@, c)]
  /\ UNCHANGED shown

\* A program draws on its own.
Paint(cells) ==
  /\ console' = [console EXCEPT ![running].cells = cells]
  /\ UNCHANGED <<shown, running>>

\* For a new shell, or by a key.
Clear(t) ==
  /\ t \in {running', shown}
  /\ console' = [console EXCEPT ![t] = Cleared]
  /\ UNCHANGED shown

Show(t) ==
  /\ shown' = t
  /\ UNCHANGED console

\* Another terminal may have its turn at any step but in the middle of a drawing.
ConsolesNext ==
  \/ \E t \in Terminal : (\E c \in Text : Put(t, c)) \/ Clear(t) \/ Show(t)
  \/ \E cells \in Drawings : Paint(cells)

ConsolesSpec == [][ConsolesNext]_consoles
=============================================================================
