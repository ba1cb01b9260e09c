---------------------------- MODULE TerminalLine ----------------------------
(***************************************************************************)
(* How a typed line gets from the keyboard to the program that reads it.   *)
(* Interrupts put keys into a buffer of keyboard.c and, at ENTER, copy it  *)
(* to a buffer of terminal.c, for which terminal_read waits.  The system   *)
(* call runs with IF = 1 and takes no lock, so that a key may arrive       *)
(* between any two of its steps.                                           *)
(***************************************************************************)
EXTENDS Integers, Sequences, SequencesExt

CONSTANTS
  Terminal,
  Char,
  NUL,
  KEYBOARD_BUFFER_SIZE,   \* terminal.h, 128
  SIZEOF_INT,             \* 4
  Requests,               \* the sizes n that programs read
  CanKill                 \* a reader can be killed

ASSUME LineAssumption ==
  /\ NUL \notin Char
  /\ KEYBOARD_BUFFER_SIZE \in Nat \ {0}
  /\ SIZEOF_INT \in 1 .. KEYBOARD_BUFFER_SIZE
  /\ Requests \subseteq Nat
  /\ CanKill \in BOOLEAN

Index == 0 .. KEYBOARD_BUFFER_SIZE - 1

VARIABLES
  terminal_active,
  echo,           \* terminals[t].echo
  keys,           \* keyboard.c: buf_local[t] up to buf_size[t]
  buf_local, buf_ready, buf_size_in,    \* terminal.c
  at,             \* the next step of the read of terminal t, "idle": none
  request, count, buf, returned,        \* its n, the n of memcpy, buf and the result
  typed,          \* the line last entered
  stale,          \* the bytes of buf_local[t] that are older than the read
  disturbed       \* keys fell between other steps of the read than its spin

terminal == <<buf_local, buf_ready, buf_size_in>>
reader == <<at, request, count, buf, returned>>
vars == <<terminal_active, echo, keys, terminal, reader, typed, stale, disturbed>>

SetFor(f, t, x) == [f EXCEPT ![t] = x]

min(m, n) == IF m <= n THEN m ELSE n

-----------------------------------------------------------------------------
(* The read.                                                                *)

Step(t, from, to) ==
  /\ at[t] = from
  /\ at' = SetFor(at, t, to)

\* terminal_read reopens the terminal.  Mutant: it goes straight to the spin.
SpinAtOnce == "spin"
Reopen == "clear"

Begin(t, n) ==
  /\ Step(t, "idle", Reopen)
  /\ echo' = SetFor(echo, t, TRUE)
  /\ request' = SetFor(request, t, n)
  /\ count' = SetFor(count, t, 0)
  /\ buf' = SetFor(buf, t, <<>>)
  /\ stale' = SetFor(stale, t, Index)
  /\ disturbed' = SetFor(disturbed, t, keys[t] # <<>>)
  /\ UNCHANGED <<terminal_active, keys, terminal, returned, typed>>

\* terminal_open, in three steps.  memset gets the size of the type of
\* KEYBOARD_BUFFER_SIZE.
Clear(t) ==
  /\ Step(t, "clear", "unready")
  /\ buf_local' = SetFor(buf_local, t,
       [i \in Index |-> IF i < SIZEOF_INT THEN NUL ELSE buf_local[t][i]])
  /\ stale' = SetFor(stale, t, {i \in stale[t] : i >= SIZEOF_INT})
  /\ UNCHANGED <<terminal_active, echo, keys, buf_ready, buf_size_in, request, count,
                 buf, returned, typed, disturbed>>

\* Mutant: the flag of the last line stays up.
StillReady(t) == buf_ready
NotReady(t) == SetFor(buf_ready, t, FALSE)

Unready(t) ==
  /\ Step(t, "unready", "unsize")
  /\ buf_ready' = NotReady(t)
  /\ UNCHANGED <<terminal_active, echo, keys, buf_local, buf_size_in, request, count,
                 buf, returned, typed, stale, disturbed>>

Unsize(t) ==
  /\ Step(t, "unsize", "spin")
  /\ buf_size_in' = SetFor(buf_size_in, t, 0)
  /\ UNCHANGED <<terminal_active, echo, keys, buf_local, buf_ready, request, count,
                 buf, returned, typed, stale, disturbed>>

\* The spin ends; then the size is read.
SpinEnds(t) ==
  /\ Step(t, "spin", "count")
  /\ buf_ready[t]
  /\ UNCHANGED <<terminal_active, echo, keys, terminal, request, count, buf, returned,
                 typed, stale, disturbed>>

\* Mutant: the size of the buffer of the program is ignored.
SizeOnly(t) == buf_size_in[t]
SizeToCopy(t) == min(buf_size_in[t], request[t])

Count(t) ==
  /\ Step(t, "count", "copy")
  /\ count' = SetFor(count, t, SizeToCopy(t))
  /\ UNCHANGED <<terminal_active, echo, keys, terminal, request, buf, returned,
                 typed, stale, disturbed>>

\* memcpy, which an interrupt may divide.
CopyByte(t) ==
  /\ at[t] = "copy" /\ Len(buf[t]) < count[t]
  /\ buf' = SetFor(buf, t, Append(buf[t], buf_local[t][Len(buf[t])]))
  /\ UNCHANGED <<terminal_active, echo, keys, terminal, at, request, count, returned,
                 typed, stale, disturbed>>

\* The size is read once more for the result.
Return(t) ==
  /\ Step(t, "copy", "echo_off")
  /\ Len(buf[t]) = count[t]
  /\ returned' = SetFor(returned, t, min(buf_size_in[t], request[t]))
  /\ UNCHANGED <<terminal_active, echo, keys, terminal, request, count, buf,
                 typed, stale, disturbed>>

EchoOff(t) ==
  /\ Step(t, "echo_off", "idle")
  /\ echo' = SetFor(echo, t, FALSE)
  /\ UNCHANGED <<terminal_active, keys, terminal, request, count, buf, returned,
                 typed, stale, disturbed>>

\* A signal ends the program, whatever it does; echo stays as it is.
Kill(t) ==
  /\ CanKill /\ at[t] # "idle"
  /\ at' = SetFor(at, t, "idle")
  /\ disturbed' = SetFor(disturbed, t, TRUE)
  /\ UNCHANGED <<terminal_active, echo, keys, terminal, request, count, buf, returned,
                 typed, stale>>

-----------------------------------------------------------------------------
(* The keys, for the terminal on the screen.                                *)

\* echo is on; at any step, though a user is expected to type into the spin.
Taken(t) ==
  /\ t = terminal_active /\ echo[t]
  /\ disturbed' = SetFor(disturbed, t, disturbed[t] \/ at[t] # "spin" \/ buf_ready[t])

KeyChar(c) ==
  LET t == terminal_active IN
  /\ Taken(t)
  /\ Len(keys[t]) < KEYBOARD_BUFFER_SIZE
  /\ keys' = SetFor(keys, t, Append(keys[t], c))
  /\ UNCHANGED <<terminal_active, echo, terminal, reader, typed, stale>>

KeyBackspace ==
  LET t == terminal_active IN
  /\ Taken(t) /\ keys[t] # <<>>
  /\ keys' = SetFor(keys, t, Front(keys[t]))
  /\ UNCHANGED <<terminal_active, echo, terminal, reader, typed, stale>>

\* What terminal t holds after copy_buffer of line s: its old bytes after the end.
Overwritten(t, s) ==
  [i \in Index |-> IF i < Len(s) THEN s[i + 1] ELSE buf_local[t][i]]

\* ENTER: copy_buffer, then keyboard_init.
KeysReset(t) == SetFor(keys, t, <<>>)

\* Mutant: an empty line wakes nobody.
ReadyUnlessEmpty(t) == SetFor(buf_ready, t, keys[t] # <<>>)
Ready(t) == SetFor(buf_ready, t, TRUE)

KeyEnter ==
  LET t == terminal_active IN
  /\ Taken(t)
  /\ buf_local' = SetFor(buf_local, t, Overwritten(t, keys[t]))
  /\ buf_size_in' = SetFor(buf_size_in, t, Len(keys[t]))
  /\ buf_ready' = Ready(t)
  /\ keys' = KeysReset(t)
  /\ typed' = SetFor(typed, t, keys[t])
  /\ stale' = SetFor(stale, t, {i \in stale[t] : i >= Len(keys[t])})
  /\ UNCHANGED <<terminal_active, echo, reader>>

\* CTRL+L drops the keys, and is always taken.
KeyClear ==
  /\ keys' = SetFor(keys, terminal_active, <<>>)
  /\ UNCHANGED <<terminal_active, echo, terminal, reader, typed, stale, disturbed>>

\* ALT+F keys.
KeySwitch(t) ==
  /\ terminal_active' = t
  /\ UNCHANGED <<echo, keys, terminal, reader, typed, stale, disturbed>>

-----------------------------------------------------------------------------
\* After terminal_open(NULL) and keyboard_init in kernel.c.
Init ==
  /\ terminal_active \in Terminal
  /\ echo = [t \in Terminal |-> FALSE]
  /\ keys = [t \in Terminal |-> <<>>]
  /\ buf_local = [t \in Terminal |-> [i \in Index |-> NUL]]
  /\ buf_ready = [t \in Terminal |-> FALSE]
  /\ buf_size_in = [t \in Terminal |-> 0]
  /\ at = [t \in Terminal |-> "idle"]
  /\ request = [t \in Terminal |-> 0]
  /\ count = [t \in Terminal |-> 0]
  /\ buf = [t \in Terminal |-> <<>>]
  /\ returned = [t \in Terminal |-> 0]
  /\ typed = [t \in Terminal |-> <<>>]
  /\ stale = [t \in Terminal |-> {}]
  /\ disturbed = [t \in Terminal |-> FALSE]

\* The steps of a read that has begun.
Reading(t) ==
  \/ Clear(t) \/ Unready(t) \/ Unsize(t) \/ SpinEnds(t) \/ Count(t) \/ CopyByte(t)
  \/ Return(t) \/ EchoOff(t)

Next ==
  \/ \E t \in Terminal : \/ Reading(t) \/ Kill(t) \/ KeySwitch(t)
                         \/ \E n \in Requests : Begin(t, n)
  \/ \E c \in Char : KeyChar(c)
  \/ KeyBackspace \/ KeyEnter \/ KeyClear

Spec == Init /\ [][Next]_vars

\* A read that can go on does, and a user who visits every terminal enters a line
\* every now and then.
FairSpec ==
  /\ Spec
  /\ \A t \in Terminal : /\ WF_vars(Reading(t)) /\ WF_vars(KeySwitch(t))
                         /\ SF_vars(KeyEnter /\ terminal_active = t)

-----------------------------------------------------------------------------
TypeOK ==
  /\ terminal_active \in Terminal
  /\ \A t \in Terminal :
       /\ echo[t] \in BOOLEAN /\ buf_ready[t] \in BOOLEAN
       /\ keys[t] \in Seq(Char) /\ Len(keys[t]) <= KEYBOARD_BUFFER_SIZE
       /\ buf_local[t] \in [Index -> Char \cup {NUL}]
       /\ buf_size_in[t] \in 0 .. KEYBOARD_BUFFER_SIZE
       /\ at[t] \in {"idle", "clear", "unready", "unsize", "spin", "count", "copy", "echo_off"}
       /\ request[t] \in Requests \cup {0}
       /\ count[t] \in 0 .. request[t]
       /\ buf[t] \in Seq(Char) /\ Len(buf[t]) <= request[t]
       /\ returned[t] \in Nat
       /\ stale[t] \subseteq Index
       /\ disturbed[t] \in BOOLEAN

\* A read during whose other steps no key falls returns the line typed, up to the
\* size asked for, and the number of its characters, whatever came before it.
ReadsTypedLine ==
  \A t \in Terminal : at[t] = "echo_off" /\ ~disturbed[t] =>
    /\ buf[t] = SubSeq(typed[t], 1, min(Len(typed[t]), request[t]))
    /\ returned[t] = Len(buf[t])

\* However keys, switches and kills fall between its steps, a read copies no byte
\* of a line that was entered before it began, though terminal_open leaves most of
\* them in the buffer.
NothingStale ==
  \A t \in Terminal : at[t] = "copy" => \A i \in stale[t] : i \notin Len(buf[t]) .. count[t] - 1

\* A read of a terminal where the user enters lines returns.
ReadReturns == \A t \in Terminal : (at[t] = "spin") ~> (at[t] = "idle")
=============================================================================
