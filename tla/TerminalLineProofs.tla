-------------------------- MODULE TerminalLineProofs --------------------------
(***************************************************************************)
(* Proofs about TerminalLine, for all sets of terminals and of characters, *)
(* every size of the buffers and every size that a program asks for.       *)
(***************************************************************************)
EXTENDS TerminalLine, SequenceTheorems, TLAPS

Steps == {"idle", "clear", "unready", "unsize", "spin", "count", "copy", "echo_off"}
Line == {s \in Seq(Char) : Len(s) <= KEYBOARD_BUFFER_SIZE}
Size == 0 .. KEYBOARD_BUFFER_SIZE

Typed ==
  /\ terminal_active \in Terminal
  /\ echo \in [Terminal -> BOOLEAN] /\ buf_ready \in [Terminal -> BOOLEAN]
  /\ keys \in [Terminal -> Line] /\ typed \in [Terminal -> Line]
  /\ buf_local \in [Terminal -> [Index -> Char \cup {NUL}]]
  /\ buf_size_in \in [Terminal -> Size]
  /\ at \in [Terminal -> Steps]
  /\ request \in [Terminal -> Requests \cup {0}]
  /\ count \in [Terminal -> Size]
  /\ buf \in [Terminal -> Line]
  /\ returned \in [Terminal -> Nat]
  /\ stale \in [Terminal -> SUBSET Index]
  /\ disturbed \in [Terminal -> BOOLEAN]

\* What has been copied is within what is to be copied, and that within the request.
Within(t) ==
  /\ Len(buf[t]) <= count[t] /\ count[t] <= request[t]
  /\ at[t] \in {"clear", "unready", "unsize", "spin", "count"} => buf[t] = <<>>

\* The first n bytes are characters that were entered since the read began.
New(t, n) == \A i \in Index : i < n => buf_local[t][i] \in Char /\ i \notin stale[t]

\* From `unsize' on the size is that of a line entered since, or 0.
Entered(t) ==
  /\ at[t] \in {"spin", "count"} => New(t, buf_size_in[t])
  /\ at[t] = "copy" => New(t, count[t])

\* terminal t holds the line that was typed last, of which the program has the start.
Holds(t) ==
  /\ buf_size_in[t] = Len(typed[t])
  /\ \A i \in 1 .. Len(typed[t]) : buf_local[t][i - 1] = typed[t][i]
Copied(t) == \A i \in 1 .. Len(buf[t]) : buf[t][i] = typed[t][i]

Undisturbed(t) ==
  ~disturbed[t] =>
    /\ at[t] = "unsize" => ~buf_ready[t]
    /\ (at[t] = "spin" /\ buf_ready[t]) \/ at[t] = "count" => Holds(t)
    /\ at[t] = "copy" => /\ Holds(t) /\ Copied(t)
                         /\ count[t] = min(Len(typed[t]), request[t])
    /\ at[t] = "echo_off" => /\ Copied(t) /\ returned[t] = Len(buf[t])
                             /\ Len(buf[t]) = min(Len(typed[t]), request[t])

Good(t) == Within(t) /\ Entered(t) /\ Undisturbed(t)
IInv == Typed /\ \A t \in Terminal : Good(t)
-----------------------------------------------------------------------------
\* The first n of a sequence.
LEMMA Prefix ==
  ASSUME NEW S, NEW s \in Seq(S), NEW n \in 0 .. Len(s)
  PROVE  /\ SubSeq(s, 1, n) \in Seq(S) /\ Len(SubSeq(s, 1, n)) = n
         /\ \A i \in 1 .. n : SubSeq(s, 1, n)[i] = s[i]
<1>1. \A i \in 1 .. n : s[i] \in S
  BY ElementOfSeq
<1> QED BY <1>1, SubSeqProperties

LEMMA InRange ==
  ASSUME Typed, NEW t \in Terminal
  PROVE  buf_size_in[t] \in Size /\ request[t] \in Nat /\ KEYBOARD_BUFFER_SIZE \in Nat
<1>1. buf_size_in[t] \in Size /\ request[t] \in Requests \cup {0}
  BY DEF Typed
<1>2. Requests \subseteq Nat /\ KEYBOARD_BUFFER_SIZE \in Nat
  BY LineAssumption
<1>3. 0 \in Nat
  OBVIOUS
<1>4. request[t] \in Nat
  BY <1>1, <1>2, <1>3, Zenon
<1> QED BY <1>1, <1>2, <1>4

\* What happens to one terminal leaves the others as they are.
LEMMA Kept ==
  ASSUME NEW u, Good(u),
         at'[u] = at[u], request'[u] = request[u], count'[u] = count[u], buf'[u] = buf[u],
         returned'[u] = returned[u], buf_local'[u] = buf_local[u],
         buf_ready'[u] = buf_ready[u], buf_size_in'[u] = buf_size_in[u],
         typed'[u] = typed[u], stale'[u] = stale[u], disturbed'[u] = disturbed[u]
  PROVE  Good(u)'
<1>1. Within(u)'
  BY DEF Good, Within
<1>2. Entered(u)'
  BY DEF Good, Entered, New
<1>3. Undisturbed(u)'
  BY DEF Good, Undisturbed, Holds, Copied, min
<1> QED BY <1>1, <1>2, <1>3 DEF Good

LEMMA BeginInv ==
  ASSUME IInv, NEW t \in Terminal, NEW n \in Requests, Begin(t, n)
  PROVE  IInv'
<1>1. <<>> \in Line /\ Len(<<>>) = 0 /\ 0 \in Size
  BY EmptySeq, LineAssumption DEF Line, Size
<1>2. n \in Nat
  BY LineAssumption
<1>3. Typed'
  BY <1>1, <1>2 DEF IInv, Typed, SetFor, Step, terminal, reader, Begin, Reopen, Steps
<1>4. ASSUME NEW u \in Terminal, u # t PROVE Good(u)'
  BY <1>1, <1>2, <1>4, Kept DEF IInv, Typed, SetFor, Step, terminal, reader, Begin
<1>5. Good(t)'
  <2>1. Within(t)'
    <3>1. count'[t] = 0 /\ request'[t] = n /\ buf'[t] = <<>>
      BY DEF IInv, Typed, SetFor, Begin
    <3> QED BY <1>1, <1>2, <3>1 DEF Within
  <2>2. Entered(t)'
    BY <1>1, <1>2 DEF IInv, Good, Entered, New, Typed, SetFor, Step, terminal, reader,
           Begin, Reopen, Steps
  <2>3. Undisturbed(t)'
    BY <1>1, <1>2 DEF IInv, Good, Undisturbed, Holds, Copied, min, Typed, SetFor, Step,
           terminal, reader, Begin, Reopen, Steps
  <2> QED BY <2>1, <2>2, <2>3 DEF Good
<1> QED BY <1>3, <1>4, <1>5 DEF IInv

LEMMA ClearInv ==
  ASSUME IInv, NEW t \in Terminal, Clear(t)
  PROVE  IInv'
<1>1. Typed'
  BY DEF IInv, Typed, SetFor, Step, terminal, reader, Clear, Steps, Index
<1>2. ASSUME NEW u \in Terminal, u # t PROVE Good(u)'
  BY <1>2, Kept DEF IInv, Typed, SetFor, Step, terminal, reader, Clear
<1>3. Good(t)'
  <2>1. Within(t)'
    BY DEF IInv, Good, Within, Typed, SetFor, Step, terminal, reader, Clear, Steps, Index
  <2>2. Entered(t)'
    BY DEF IInv, Good, Entered, New, Typed, SetFor, Step, terminal, reader, Clear,
           Steps, Index
  <2>3. Undisturbed(t)'
    BY DEF IInv, Good, Undisturbed, Holds, Copied, min, Typed, SetFor, Step, terminal,
           reader, Clear, Steps, Index
  <2> QED BY <2>1, <2>2, <2>3 DEF Good
<1> QED BY <1>1, <1>2, <1>3 DEF IInv

LEMMA UnreadyInv ==
  ASSUME IInv, NEW t \in Terminal, Unready(t)
  PROVE  IInv'
<1>1. Typed'
  BY DEF IInv, Typed, SetFor, Step, terminal, reader, Unready, NotReady, Steps
<1>2. ASSUME NEW u \in Terminal, u # t PROVE Good(u)'
  BY <1>2, Kept DEF IInv, Typed, SetFor, Step, terminal, reader, Unready, NotReady
<1>3. Good(t)'
  <2>1. Within(t)'
    BY DEF IInv, Good, Within, Typed, SetFor, Step, terminal, reader, Unready, NotReady,
           Steps
  <2>2. Entered(t)'
    BY DEF IInv, Good, Entered, New, Typed, SetFor, Step, terminal, reader, Unready,
           NotReady, Steps
  <2>3. Undisturbed(t)'
    BY DEF IInv, Good, Undisturbed, Holds, Copied, min, Typed, SetFor, Step, terminal,
           reader, Unready, NotReady, Steps
  <2> QED BY <2>1, <2>2, <2>3 DEF Good
<1> QED BY <1>1, <1>2, <1>3 DEF IInv

LEMMA UnsizeInv ==
  ASSUME IInv, NEW t \in Terminal, Unsize(t)
  PROVE  IInv'
<1>1. 0 \in Size
  BY LineAssumption DEF Size
<1>2. Typed'
  BY <1>1 DEF IInv, Typed, SetFor, Step, terminal, reader, Unsize, Steps
<1>3. ASSUME NEW u \in Terminal, u # t PROVE Good(u)'
  BY <1>1, <1>3, Kept DEF IInv, Typed, SetFor, Step, terminal, reader, Unsize
<1>4. Good(t)'
  <2>1. Within(t)'
    BY <1>1 DEF IInv, Good, Within, Typed, SetFor, Step, terminal, reader, Unsize, Steps
  <2>2. Entered(t)'
    BY <1>1, LineAssumption
    DEF IInv, Good, Entered, New, Index, Typed, SetFor, Step, terminal, reader, Unsize
  <2>3. Undisturbed(t)'
    BY <1>1 DEF IInv, Good, Undisturbed, Holds, Copied, min, Typed, SetFor, Step,
           terminal, reader, Unsize, Steps
  <2> QED BY <2>1, <2>2, <2>3 DEF Good
<1> QED BY <1>2, <1>3, <1>4 DEF IInv

LEMMA SpinEndsInv ==
  ASSUME IInv, NEW t \in Terminal, SpinEnds(t)
  PROVE  IInv'
<1>1. Typed'
  BY DEF IInv, Typed, SetFor, Step, terminal, reader, SpinEnds, Steps
<1>2. ASSUME NEW u \in Terminal, u # t PROVE Good(u)'
  BY <1>2, Kept DEF IInv, Typed, SetFor, Step, terminal, reader, SpinEnds
<1>3. Good(t)'
  <2>1. Within(t)'
    BY DEF IInv, Good, Within, Typed, SetFor, Step, terminal, reader, SpinEnds, Steps
  <2>2. Entered(t)'
    BY DEF IInv, Good, Entered, New, Typed, SetFor, Step, terminal, reader, SpinEnds,
           Steps
  <2>3. Undisturbed(t)'
    BY DEF IInv, Good, Undisturbed, Holds, Copied, min, Typed, SetFor, Step, terminal,
           reader, SpinEnds, Steps
  <2> QED BY <2>1, <2>2, <2>3 DEF Good
<1> QED BY <1>1, <1>2, <1>3 DEF IInv

LEMMA CountInv ==
  ASSUME IInv, NEW t \in Terminal, Count(t)
  PROVE  IInv'
<1>1. buf_size_in[t] \in Size /\ request[t] \in Nat
  BY InRange DEF IInv
<1>2. PICK n \in Size : /\ n = min(buf_size_in[t], request[t]) /\ n <= request[t]
                     /\ n <= buf_size_in[t]
  <2>1. /\ min(buf_size_in[t], request[t]) \in Size
        /\ min(buf_size_in[t], request[t]) <= request[t]
        /\ min(buf_size_in[t], request[t]) <= buf_size_in[t]
    BY <1>1, LineAssumption DEF Size, min
  <2> QED BY <2>1
<1>3. /\ at[t] = "count" /\ at' = [at EXCEPT ![t] = "copy"]
      /\ count' = [count EXCEPT ![t] = n] /\ buf' = buf
  BY <1>2 DEF Count, SizeToCopy, SetFor, Step, terminal
<1>4. count'[t] = n /\ at'[t] = "copy" /\ buf'[t] = buf[t] /\ buf[t] = <<>>
  BY <1>3 DEF IInv, Typed, Good, Within
<1>5. Typed'
  BY <1>2, <1>3 DEF IInv, Typed, Count, Steps, terminal
<1>6. ASSUME NEW u \in Terminal, u # t PROVE Good(u)'
  BY <1>1, <1>2, <1>3, <1>4, <1>6, Kept DEF IInv, Typed, SetFor, Step, terminal, reader,
         Count
<1>7. Good(t)'
  <2>1. Within(t)'
    BY <1>2, <1>4, EmptySeq DEF Within, Count, Size
  <2>2. Entered(t)'
    BY <1>1, <1>2, <1>3, <1>4 DEF IInv, Good, Entered, New, Index, Size, Count, terminal
  <2>3. Undisturbed(t)'
    <3>1. UNCHANGED <<buf_local, buf_size_in, typed, request, disturbed>>
      BY DEF Count, terminal
    <3>2. ASSUME ~disturbed[t] PROVE Holds(t)
      BY <1>3, <3>2 DEF IInv, Good, Undisturbed
    <3>3. ASSUME ~disturbed[t] PROVE Holds(t)' /\ count'[t] = min(Len(typed[t]), request[t])
      BY <1>2, <1>4, <3>1, <3>2, <3>3 DEF Holds
    <3>4. Copied(t)'
      BY <1>4, EmptySeq DEF Copied
    <3> QED BY <1>4, <3>1, <3>3, <3>4 DEF Undisturbed
  <2> QED BY <2>1, <2>2, <2>3 DEF Good
<1> QED BY <1>5, <1>6, <1>7 DEF IInv

LEMMA CopyByteInv ==
  ASSUME IInv, NEW t \in Terminal, CopyByte(t)
  PROVE  IInv'
<1>1. /\ at[t] = "copy" /\ Len(buf[t]) \in Nat /\ Len(buf[t]) < count[t]
      /\ buf[t] \in Seq(Char) /\ count[t] \in Size
  BY LenProperties DEF IInv, Typed, Line, CopyByte
<1>2. Len(buf[t]) \in Index
  BY <1>1, LineAssumption DEF Index, Size
<1>3. PICK c \in Char : c = buf_local[t][Len(buf[t])]
  BY <1>1, <1>2 DEF IInv, Good, Entered, New
<1>4. /\ buf' = [buf EXCEPT ![t] = Append(buf[t], c)]
      /\ Append(buf[t], c) \in Seq(Char) /\ Len(Append(buf[t], c)) = Len(buf[t]) + 1
      /\ \A i \in 1 .. Len(buf[t]) : Append(buf[t], c)[i] = buf[t][i]
      /\ Append(buf[t], c)[Len(buf[t]) + 1] = c
  BY <1>1, <1>3, AppendProperties DEF CopyByte, SetFor
<1>5. PICK b : b = Append(buf[t], c)
  OBVIOUS
<1>6. /\ b \in Line /\ Len(b) = Len(buf[t]) + 1 /\ buf'[t] = b /\ b[Len(buf[t]) + 1] = c
      /\ \A i \in 1 .. Len(buf[t]) : b[i] = buf[t][i]
      /\ buf' = [buf EXCEPT ![t] = b]
  <2>1. b \in Seq(Char) /\ Len(b) = Len(buf[t]) + 1 /\ Len(b) <= KEYBOARD_BUFFER_SIZE
    BY <1>1, <1>4, <1>5, LineAssumption DEF Size
  <2>2. buf' = [buf EXCEPT ![t] = b] /\ buf'[t] = b
    BY <1>4, <1>5 DEF IInv, Typed
  <2> QED BY <1>4, <1>5, <2>1, <2>2 DEF Line
<1>7. Typed'
  BY <1>6 DEF IInv, Typed, CopyByte, terminal
<1>8. ASSUME NEW u \in Terminal, u # t PROVE Good(u)'
  BY <1>6, <1>8, Kept DEF IInv, Typed, SetFor, Step, terminal, reader, CopyByte
<1>9. Good(t)'
  <2>1. Within(t)'
    BY <1>1, <1>6 DEF IInv, Good, Within, CopyByte, Size
  <2>2. Entered(t)'
    BY <1>1, <1>2, <1>3, <1>4, <1>5, <1>6 DEF IInv, Good, Entered, New, Typed, SetFor,
           Step, terminal, reader, CopyByte
  <2>3. Undisturbed(t)'
    <3>1. /\ UNCHANGED <<at, count, request, typed, buf_local, buf_size_in, disturbed>>
      BY DEF CopyByte, terminal
    <3>2. ASSUME ~disturbed[t] PROVE Holds(t)' /\ count[t] = min(Len(typed[t]), request[t])
      BY <1>1, <3>1, <3>2 DEF IInv, Good, Undisturbed, Holds
    <3>3. ASSUME ~disturbed[t], NEW i \in 1 .. Len(b) PROVE b[i] = typed[t][i]
      <4>1. CASE i \in 1 .. Len(buf[t])
        BY <1>1, <1>6, <3>3, <4>1 DEF IInv, Good, Undisturbed, Copied
      <4>2. CASE i = Len(buf[t]) + 1
        <5>1. i \in 1 .. Len(typed[t]) /\ i - 1 = Len(buf[t])
          BY <1>1, <3>2, <3>3, <4>2, LineAssumption, LenProperties
             DEF IInv, Typed, Line, Size, min
        <5>2. Holds(t)
          BY <1>1, <3>3 DEF IInv, Good, Undisturbed
        <5> QED BY <1>3, <1>6, <4>2, <5>1, <5>2 DEF Holds
      <4> QED BY <1>1, <1>6, <4>1, <4>2
    <3> QED BY <1>1, <1>6, <3>1, <3>2, <3>3 DEF Undisturbed, Copied
  <2> QED BY <2>1, <2>2, <2>3 DEF Good
<1> QED BY <1>7, <1>8, <1>9 DEF IInv

LEMMA ReturnInv ==
  ASSUME IInv, NEW t \in Terminal, Return(t)
  PROVE  IInv'
<1>1. min(buf_size_in[t], request[t]) \in Nat
  BY InRange DEF IInv, Size, min
<1>2. Typed'
  BY <1>1 DEF IInv, Typed, SetFor, Step, terminal, reader, Return, Steps
<1>3. ASSUME NEW u \in Terminal, u # t PROVE Good(u)'
  BY <1>1, <1>3, Kept DEF IInv, Typed, SetFor, Step, terminal, reader, Return
<1>4. Good(t)'
  <2>1. Within(t)'
    BY <1>1 DEF IInv, Good, Within, Typed, SetFor, Step, terminal, reader, Return, Steps
  <2>2. Entered(t)'
    BY <1>1 DEF IInv, Good, Entered, New, Typed, SetFor, Step, terminal, reader, Return,
           Steps
  <2>3. Undisturbed(t)'
    BY <1>1 DEF IInv, Good, Undisturbed, Holds, Copied, min, Typed, SetFor, Step,
           terminal, reader, Return, Steps
  <2> QED BY <2>1, <2>2, <2>3 DEF Good
<1> QED BY <1>2, <1>3, <1>4 DEF IInv

LEMMA EchoOffInv ==
  ASSUME IInv, NEW t \in Terminal, EchoOff(t)
  PROVE  IInv'
<1>1. Typed'
  BY DEF IInv, Typed, SetFor, Step, terminal, reader, EchoOff, Steps
<1>2. ASSUME NEW u \in Terminal, u # t PROVE Good(u)'
  BY <1>2, Kept DEF IInv, Typed, SetFor, Step, terminal, reader, EchoOff
<1>3. Good(t)'
  <2>1. Within(t)'
    BY DEF IInv, Good, Within, Typed, SetFor, Step, terminal, reader, EchoOff, Steps
  <2>2. Entered(t)'
    BY DEF IInv, Good, Entered, New, Typed, SetFor, Step, terminal, reader, EchoOff, Steps
  <2>3. Undisturbed(t)'
    BY DEF IInv, Good, Undisturbed, Holds, Copied, min, Typed, SetFor, Step, terminal,
           reader, EchoOff, Steps
  <2> QED BY <2>1, <2>2, <2>3 DEF Good
<1> QED BY <1>1, <1>2, <1>3 DEF IInv

LEMMA KillInv ==
  ASSUME IInv, NEW t \in Terminal, Kill(t)
  PROVE  IInv'
<1>1. Typed'
  BY DEF IInv, Typed, SetFor, Step, terminal, reader, Kill, Steps
<1>2. ASSUME NEW u \in Terminal, u # t PROVE Good(u)'
  BY <1>2, Kept DEF IInv, Typed, SetFor, Step, terminal, reader, Kill
<1>3. Good(t)'
  <2>1. Within(t)'
    BY DEF IInv, Good, Within, Typed, SetFor, Step, terminal, reader, Kill, Steps
  <2>2. Entered(t)'
    BY DEF IInv, Good, Entered, New, Typed, SetFor, Step, terminal, reader, Kill, Steps
  <2>3. Undisturbed(t)'
    BY DEF IInv, Good, Undisturbed, Holds, Copied, min, Typed, SetFor, Step, terminal,
           reader, Kill, Steps
  <2> QED BY <2>1, <2>2, <2>3 DEF Good
<1> QED BY <1>1, <1>2, <1>3 DEF IInv

LEMMA KeyCharInv ==
  ASSUME IInv, NEW c \in Char, KeyChar(c)
  PROVE  IInv'
<1>1. PICK t \in Terminal : t = terminal_active
  BY DEF IInv, Typed
<1>2. PICK s \in Line : s = Append(keys[t], c)
  <2>1. keys[t] \in Seq(Char) /\ Len(keys[t]) < KEYBOARD_BUFFER_SIZE
    BY <1>1 DEF IInv, Typed, Line, KeyChar
  <2>2. Append(keys[t], c) \in Seq(Char) /\ Len(Append(keys[t], c)) = Len(keys[t]) + 1
    BY <2>1, AppendProperties
  <2>3. Append(keys[t], c) \in Line
    BY <2>1, <2>2, LenProperties, LineAssumption DEF Line
  <2> QED BY <2>3
<1>3. Typed'
  BY <1>1, <1>2 DEF IInv, Typed, SetFor, Step, terminal, reader, KeyChar, Taken
<1>4. ASSUME NEW u \in Terminal, u # t PROVE Good(u)'
  BY <1>1, <1>2, <1>4, Kept DEF IInv, Typed, SetFor, Step, terminal, reader, KeyChar,
         Taken
<1>5. Good(t)'
  <2>1. Within(t)'
    BY <1>1, <1>2 DEF IInv, Good, Within, Typed, SetFor, Step, terminal, reader,
           KeyChar, Taken
  <2>2. Entered(t)'
    BY <1>1, <1>2 DEF IInv, Good, Entered, New, Typed, SetFor, Step, terminal, reader,
           KeyChar, Taken
  <2>3. Undisturbed(t)'
    BY <1>1, <1>2 DEF IInv, Good, Undisturbed, Holds, Copied, min, Typed, SetFor, Step,
           terminal, reader, KeyChar, Taken
  <2> QED BY <2>1, <2>2, <2>3 DEF Good
<1> QED BY <1>3, <1>4, <1>5 DEF IInv

LEMMA KeyBackspaceInv ==
  ASSUME IInv, KeyBackspace
  PROVE  IInv'
<1>1. PICK t \in Terminal : t = terminal_active
  BY DEF IInv, Typed
<1>2. PICK s \in Line : s = Front(keys[t])
  <2>1. keys[t] \in Seq(Char) /\ Len(keys[t]) <= KEYBOARD_BUFFER_SIZE /\ keys[t] # <<>>
    BY <1>1 DEF IInv, Typed, Line, KeyBackspace
  <2>2. Len(keys[t]) \in Nat \ {0} /\ \A i \in 1 .. Len(keys[t]) : keys[t][i] \in Char
    BY <2>1, EmptySeq, ElementOfSeq, LenProperties
  <2>3. /\ SubSeq(keys[t], 1, Len(keys[t]) - 1) \in Seq(Char)
        /\ Len(SubSeq(keys[t], 1, Len(keys[t]) - 1)) = Len(keys[t]) - 1
    BY <2>1, <2>2, SubSeqProperties
  <2>4. SubSeq(keys[t], 1, Len(keys[t]) - 1) \in Line
    BY <2>1, <2>2, <2>3, LineAssumption DEF Line
  <2> QED BY <2>4 DEF Front
<1>3. Typed'
  BY <1>1, <1>2 DEF IInv, Typed, SetFor, Step, terminal, reader, KeyBackspace, Taken
<1>4. ASSUME NEW u \in Terminal, u # t PROVE Good(u)'
  BY <1>1, <1>2, <1>4, Kept DEF IInv, Typed, SetFor, Step, terminal, reader,
         KeyBackspace, Taken
<1>5. Good(t)'
  <2>1. Within(t)'
    BY <1>1, <1>2 DEF IInv, Good, Within, Typed, SetFor, Step, terminal, reader,
           KeyBackspace, Taken
  <2>2. Entered(t)'
    BY <1>1, <1>2 DEF IInv, Good, Entered, New, Typed, SetFor, Step, terminal, reader,
           KeyBackspace, Taken
  <2>3. Undisturbed(t)'
    BY <1>1, <1>2 DEF IInv, Good, Undisturbed, Holds, Copied, min, Typed, SetFor, Step,
           terminal, reader, KeyBackspace, Taken
  <2> QED BY <2>1, <2>2, <2>3 DEF Good
<1> QED BY <1>3, <1>4, <1>5 DEF IInv

LEMMA KeyEnterInv ==
  ASSUME IInv, KeyEnter
  PROVE  IInv'
<1>1. PICK t \in Terminal : t = terminal_active
  BY DEF IInv, Typed
<1>2. <<>> \in Line /\ Len(<<>>) = 0 /\ 0 \in Size
  BY EmptySeq, LineAssumption DEF Line, Size
<1>3. /\ keys[t] \in Seq(Char) /\ Len(keys[t]) \in Size
      /\ \A i \in 1 .. Len(keys[t]) : keys[t][i] \in Char /\ i - 1 \in Index
  <2>1. /\ keys[t] \in Seq(Char)
        /\ Len(keys[t]) \in Nat /\ Len(keys[t]) <= KEYBOARD_BUFFER_SIZE
    BY LenProperties DEF IInv, Typed, Line
  <2>2. Len(keys[t]) \in Size /\ \A i \in 1 .. Len(keys[t]) : i - 1 \in Index
    BY <2>1, LineAssumption DEF Size, Index
  <2> QED BY <2>1, <2>2, ElementOfSeq
<1>4. PICK l \in [Index -> Char \cup {NUL}] :
        /\ l = Overwritten(t, keys[t])
        /\ \A i \in Index : l[i] = IF i < Len(keys[t]) THEN keys[t][i + 1] ELSE buf_local[t][i]
  <2>1. \A i \in Index : i < Len(keys[t]) => keys[t][i + 1] \in Char
    BY <1>3 DEF Index, Size
  <2>2. /\ Overwritten(t, keys[t]) \in [Index -> Char \cup {NUL}]
        /\ \A i \in Index : Overwritten(t, keys[t])[i]
             = IF i < Len(keys[t]) THEN keys[t][i + 1] ELSE buf_local[t][i]
    BY <2>1 DEF Overwritten, IInv, Typed
  <2> QED BY <2>2
<1>5. /\ buf_local' = [buf_local EXCEPT ![t] = l] /\ keys' = [keys EXCEPT ![t] = <<>>]
      /\ buf_size_in' = [buf_size_in EXCEPT ![t] = Len(keys[t])]
      /\ buf_ready' = [buf_ready EXCEPT ![t] = TRUE]
      /\ typed' = [typed EXCEPT ![t] = keys[t]]
      /\ stale' = [stale EXCEPT ![t] = {i \in stale[t] : i >= Len(keys[t])}]
      /\ disturbed' = [disturbed EXCEPT ![t] = disturbed[t] \/ at[t] # "spin" \/ buf_ready[t]]
  BY <1>1, <1>4 DEF KeyEnter, Ready, KeysReset, SetFor, Taken
<1>6. Typed'
  <2>1. keys[t] \in Line
    BY DEF IInv, Typed
  <2>2. echo' = echo /\ terminal_active' = terminal_active /\ reader' = reader
    BY DEF KeyEnter
  <2>3. disturbed' \in [Terminal -> BOOLEAN] /\ buf_ready' \in [Terminal -> BOOLEAN]
    BY <1>5 DEF IInv, Typed
  <2>4. /\ buf_local' \in [Terminal -> [Index -> Char \cup {NUL}]]
        /\ keys' \in [Terminal -> Line] /\ typed' \in [Terminal -> Line]
        /\ buf_size_in' \in [Terminal -> Size] /\ stale' \in [Terminal -> SUBSET Index]
    BY <1>2, <1>3, <1>4, <1>5, <2>1 DEF IInv, Typed
  <2> QED BY <2>2, <2>3, <2>4 DEF IInv, Typed, reader
<1>7. ASSUME NEW u \in Terminal, u # t PROVE Good(u)'
  BY <1>1, <1>2, <1>3, <1>4, <1>5, <1>7, Kept, ZenonT(30) DEF IInv, Typed, SetFor, Step, terminal,
         reader, KeyEnter
<1>8. Good(t)'
  <2>1. Within(t)'
    BY <1>1, <1>2, <1>3, <1>4, <1>5 DEF IInv, Good, Within, Typed, SetFor, Step,
           terminal, reader, KeyEnter, Taken, Ready, KeysReset, Overwritten, Line, Size,
           Index
  <2>2. Entered(t)'
    BY <1>1, <1>2, <1>3, <1>4, <1>5 DEF IInv, Good, Entered, New, Typed, SetFor, Step,
           terminal, reader, KeyEnter, Taken, Ready, KeysReset, Overwritten, Line, Size,
           Index
  <2>3. Undisturbed(t)'
    <3>1. /\ buf_local'[t] = l /\ buf_size_in'[t] = Len(keys[t]) /\ typed'[t] = keys[t]
          /\ at'[t] = at[t]
      BY <1>5 DEF IInv, Typed, KeyEnter, reader
    <3>2. Holds(t)'
      BY <1>3, <1>4, <3>1 DEF Holds
    <3>3. disturbed'[t] \/ at[t] = "spin"
      BY <1>5 DEF IInv, Typed
    <3> QED BY <3>1, <3>2, <3>3 DEF Undisturbed
  <2> QED BY <2>1, <2>2, <2>3 DEF Good
<1> QED BY <1>6, <1>7, <1>8 DEF IInv

LEMMA KeyClearInv ==
  ASSUME IInv, KeyClear
  PROVE  IInv'
<1>1. Typed'
  <2>1. <<>> \in Line
    BY EmptySeq, LineAssumption DEF Line
  <2> QED BY <2>1 DEF IInv, Typed, SetFor, KeyClear, terminal, reader
<1>2. ASSUME NEW u \in Terminal PROVE Good(u)'
  BY Kept DEF IInv, KeyClear, terminal, reader
<1> QED BY <1>1, <1>2 DEF IInv

LEMMA KeySwitchInv ==
  ASSUME IInv, NEW t \in Terminal, KeySwitch(t) \/ UNCHANGED vars
  PROVE  IInv'
<1>1. Typed'
  BY DEF IInv, Typed, KeySwitch, vars, terminal, reader
<1>2. ASSUME NEW u \in Terminal PROVE Good(u)'
  BY Kept DEF IInv, KeySwitch, vars, terminal, reader
<1> QED BY <1>1, <1>2 DEF IInv

LEMMA Started == Init => IInv
<1> SUFFICES ASSUME Init PROVE IInv
  OBVIOUS
<1>1. <<>> \in Line /\ Len(<<>>) = 0 /\ 0 \in Size
  BY EmptySeq, LineAssumption DEF Line, Size
<1>2. Typed
  BY <1>1 DEF Init, Typed, Steps
<1>3. ASSUME NEW t \in Terminal PROVE Good(t)
  BY <1>1, <1>3 DEF Init, Good, Within, Entered, Undisturbed
<1> QED BY <1>2, <1>3 DEF IInv

LEMMA Inductive ==
  ASSUME IInv, [Next]_vars
  PROVE  IInv'
<1>1. ASSUME NEW t \in Terminal, Reading(t) PROVE IInv'
  BY <1>1, ClearInv, UnreadyInv, UnsizeInv, SpinEndsInv, CountInv, CopyByteInv, ReturnInv,
     EchoOffInv DEF Reading
<1>2. ASSUME NEW t \in Terminal, Kill(t) PROVE IInv'
  BY <1>2, KillInv
<1>3. ASSUME NEW t \in Terminal, KeySwitch(t) PROVE IInv'
  BY <1>3, KeySwitchInv
<1>4. ASSUME NEW t \in Terminal, NEW n \in Requests, Begin(t, n) PROVE IInv'
  BY <1>4, BeginInv
<1>5. ASSUME NEW c \in Char, KeyChar(c) PROVE IInv'
  BY <1>5, KeyCharInv
<1>6. CASE KeyBackspace
  BY <1>6, KeyBackspaceInv
<1>7. CASE KeyEnter
  BY <1>7, KeyEnterInv
<1>8. CASE KeyClear
  BY <1>8, KeyClearInv
<1>9. CASE UNCHANGED vars
  BY <1>9, KeySwitchInv DEF IInv, Typed
<1> QED BY <1>1, <1>2, <1>3, <1>4, <1>5, <1>6, <1>7, <1>8, <1>9 DEF Next

\* The invariant holds throughout.
THEOREM Invariant == Spec => []IInv
<1>1. IInv /\ [Next]_vars => IInv'
  BY Inductive
<1> QED BY Started, <1>1, PTL DEF Spec
-----------------------------------------------------------------------------
(* The properties that the run lines checks.                                 *)

\* Types, and: what a read has copied are characters, no more of them than the program
\* asked for.
THEOREM TypeCorrect == Spec => []TypeOK
<1>1. IInv => TypeOK
  <2> SUFFICES ASSUME IInv PROVE TypeOK
    OBVIOUS
  <2>1. terminal_active \in Terminal
    BY DEF IInv, Typed
  <2>2. ASSUME NEW t \in Terminal
        PROVE  /\ count[t] \in 0 .. request[t] /\ Len(buf[t]) <= request[t]
               /\ buf_size_in[t] \in 0 .. KEYBOARD_BUFFER_SIZE
    <3>1. /\ Len(buf[t]) \in Nat /\ request[t] \in Nat /\ count[t] \in Nat
          /\ buf_size_in[t] \in 0 .. KEYBOARD_BUFFER_SIZE
      <4>1. buf[t] \in Seq(Char) /\ count[t] \in Size
        BY DEF IInv, Typed, Line
      <4> QED BY <4>1, LenProperties, InRange, LineAssumption DEF IInv, Size
    <3>2. Len(buf[t]) <= count[t] /\ count[t] <= request[t]
      BY DEF IInv, Good, Within
    <3> QED BY <3>1, <3>2
  <2>3. ASSUME NEW t \in Terminal
        PROVE  /\ echo[t] \in BOOLEAN /\ buf_ready[t] \in BOOLEAN /\ disturbed[t] \in BOOLEAN
               /\ keys[t] \in Line /\ buf_local[t] \in [Index -> Char \cup {NUL}]
               /\ at[t] \in Steps /\ request[t] \in Requests \cup {0}
               /\ buf[t] \in Line /\ returned[t] \in Nat /\ stale[t] \subseteq Index
    BY DEF IInv, Typed
  <2> QED BY <2>1, <2>2, <2>3 DEF TypeOK, Line, Steps
<1> QED BY <1>1, Invariant, PTL

\* However keys, switches and kills fall between its steps, a read copies no byte of a
\* line that was entered before it began.
THEOREM NeverStale == Spec => []NothingStale
<1>1. IInv => NothingStale
  <2> SUFFICES ASSUME IInv, NEW t \in Terminal, at[t] = "copy", NEW i \in stale[t]
               PROVE  i \notin Len(buf[t]) .. count[t] - 1
    BY DEF NothingStale
  <2>1. i \in Index /\ count[t] \in Size /\ Len(buf[t]) \in Nat
    BY LenProperties DEF IInv, Typed, Line
  <2>2. ~(i < count[t])
    BY <2>1 DEF IInv, Good, Entered, New
  <2> QED BY <2>1, <2>2, LineAssumption DEF Index, Size
<1> QED BY <1>1, Invariant, PTL

\* A read during whose other steps no key falls returns the line typed.
THEOREM TypedLineRead == Spec => []ReadsTypedLine
<1>1. IInv => ReadsTypedLine
  <2> SUFFICES ASSUME IInv, NEW t \in Terminal, at[t] = "echo_off", ~disturbed[t]
               PROVE  /\ buf[t] = SubSeq(typed[t], 1, min(Len(typed[t]), request[t]))
                      /\ returned[t] = Len(buf[t])
    BY DEF ReadsTypedLine
  <2>1. PICK n : n = min(Len(typed[t]), request[t])
    OBVIOUS
  <2>2. /\ buf[t] \in Seq(Char) /\ typed[t] \in Seq(Char)
        /\ Len(typed[t]) \in Nat /\ request[t] \in Nat
    BY LenProperties, InRange DEF IInv, Typed, Line
  <2>3. n \in 0 .. Len(typed[t])
    BY <2>1, <2>2 DEF min
  <2>4. /\ Len(buf[t]) = n /\ returned[t] = Len(buf[t])
        /\ \A i \in 1 .. n : buf[t][i] = typed[t][i]
    BY <2>1 DEF IInv, Good, Undisturbed, Copied
  <2>5. /\ SubSeq(typed[t], 1, n) \in Seq(Char) /\ Len(SubSeq(typed[t], 1, n)) = n
        /\ \A i \in 1 .. n : SubSeq(typed[t], 1, n)[i] = typed[t][i]
    BY <2>2, <2>3, Prefix
  <2>6. PICK s : s = SubSeq(typed[t], 1, n)
    OBVIOUS
  <2>7. buf[t] = s
    BY <2>2, <2>4, <2>5, <2>6, SeqEqual
  <2> QED BY <2>1, <2>4, <2>6, <2>7
<1> QED BY <1>1, Invariant, PTL
===============================================================================
