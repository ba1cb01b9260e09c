------------------------------ MODULE Commands -------------------------------
(***************************************************************************)
(* The command line: how ece391shell.c takes it from the terminal, how     *)
(* sys_execute splits it into the name of a program and its arguments, and *)
(* how sys_getargs hands these out (syscalls.c).                           *)
(***************************************************************************)
EXTENDS Integers, Sequences, SequencesExt

Space == " "
Newline == "nl"
NUL == "NUL"

IsSpace(c) == c = Space
IsOther(c) == c # Space

\* The place of the first character with Test, past the end if there is none.
FirstOf(s, Test(_)) == LET i == SelectInSeq(s, Test) IN IF i = 0 THEN Len(s) + 1 ELSE i

\* sys_execute skips spaces, takes the name up to the next space, skips spaces, and
\* cuts the spaces off the end of the rest.  Mutant: the end is left as it is.
SkipSpaces(s) == SubSeq(s, FirstOf(s, IsOther), Len(s))
prog_name(command) ==
  LET s == SkipSpaces(command) IN SubSeq(s, 1, FirstOf(s, IsSpace) - 1)

EndKept(s) == s
EndTrimmed(s) == SubSeq(s, 1, SelectLastInSeq(s, IsOther))

arg_buffer_of(command) ==
  LET s == SkipSpaces(command)
  IN  EndTrimmed(SkipSpaces(SubSeq(s, Len(prog_name(command)) + 1, Len(s))))

\* sys_getargs: the arguments, if there are any and the buffer holds them with a NUL.
HasArgs(arg_buffer, nbytes) == arg_buffer # <<>> /\ Len(arg_buffer) + 1 <= nbytes

\* The shell drops the newline that ends a line.
WithoutNewline(line) ==
  IF line # <<>> /\ Last(line) = Newline THEN Front(line) ELSE line

-----------------------------------------------------------------------------
(* The reference: the line is the name and the arguments, between spaces.    *)

Spaces(n) == [i \in 1 .. n |-> Space]

IsSplit(command, name, args) ==
  \E lead, gap, trail \in 0 .. Len(command) :
    /\ command = Spaces(lead) \o name \o Spaces(gap) \o args \o Spaces(trail)
    /\ Space \notin Range(name)
    /\ name = <<>> => args = <<>>
    /\ args # <<>> => gap > 0 /\ args[1] # Space /\ Last(args) # Space
=============================================================================
