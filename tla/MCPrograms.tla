------------------------------ MODULE MCPrograms ------------------------------
(***************************************************************************)
(* Programs on an image with the directory, the RTC, cat, ls, grep, fish,  *)
(* a shell that does anything, a text of three blocks of four bytes, out   *)
(* of order, and one without a last newline.  The names of the texts are   *)
(* as long as a name may be.                                               *)
(***************************************************************************)
EXTENDS Programs, TLC

MCcat == <<"c", "t">>
MCls == <<"l", "s">>
MCgrep == <<"g", "r">>
MCfish == <<"f", "i">>
MCshell == <<"s", "h">>
MCrtc == <<"r">>
Wide == <<"t", "x", "t">>
Narrow == <<"t", "y", "t">>

Entry1(name, type, inode) == [file_name |-> name, file_type |-> type, inode_number |-> inode]

MCdentries ==
  <<Entry1(Dir, "dir", 0), Entry1(MCcat, "file", 1), Entry1(MCls, "file", 1),
    Entry1(MCshell, "file", 1), Entry1(MCrtc, "rtc", 0), Entry1(Wide, "file", 2),
    Entry1(MCgrep, "file", 1), Entry1(MCfish, "file", 1), Entry1(Narrow, "file", 3)>>
MCinodes ==
  0 :> [size |-> 0, blocks |-> <<>>] @@
  1 :> [size |-> 4, blocks |-> <<1>>] @@
  2 :> [size |-> 10, blocks |-> <<4, 0, 2>>] @@
  3 :> [size |-> 5, blocks |-> <<3, 5>>]
Block(a, b, c, d) == 0 :> a @@ 1 :> b @@ 2 :> c @@ 3 :> d

\* Wide: "ab", "a a", "bb".  Narrow: "a", "", "ab" and no newline.
MCblocks ==
  4 :> Block("a", "b", "nl", "a") @@ 0 :> Block(" ", "a", "nl", "b") @@
  2 :> Block("b", "nl", "b", "b") @@
  3 :> Block("a", "nl", "nl", "a") @@ 5 :> Block("b", "a", "a", "a") @@
  1 :> Block("b", "E", "L", "F")
MCELF == <<"E", "L", "F">>
MCStacks == {MCELF, <<"a", "a", "a">>}

End == <<"nl">>
MCLines ==
  {End, <<" ">> \o End, <<"e", "x", "i", "t">> \o End,
   <<" ">> \o MCls \o End, MCls \o <<" ", "a">> \o End, MCfish \o End, MCshell \o End,
   MCshell \o <<"x">> \o End, MCrtc \o End,
   MCcat \o <<" ", " ">> \o Wide \o <<" ", " ">> \o End, MCcat \o <<" ">> \o Narrow \o End,
   MCcat \o <<" ">> \o Dir \o End, MCcat \o <<" ">> \o MCrtc \o End, MCcat \o End,
   MCcat \o <<" ", "t", " ", "a">>,
   MCgrep \o <<" ", "a", "b">> \o End, MCgrep \o <<" ", "a", " ", "a", " ">> \o End,
   MCgrep \o <<" ", "b">> \o End, MCgrep \o <<" ", "a">> \o End}
MCFrames == <<Wide, Narrow>>
MCOpenable == {Dir, MCrtc, Wide}
=============================================================================
