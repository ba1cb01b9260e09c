------------------------------ MODULE Programs -------------------------------
(***************************************************************************)
(* User programs on top of the descriptor calls: ece391cat.c, ece391ls.c,  *)
(* ece391grep.c and the two pictures of fish.c, each as its loop of calls, *)
(* started from a command line; every other name is a program that makes   *)
(* any calls whatever.  Between two calls a program changes only its own   *)
(* memory, so a call and what follows it up to the next one is one step.   *)
(***************************************************************************)
EXTENDS FileDescriptors, FiniteSets, FiniteSetsExt

CONSTANTS
  Cat, Ls, Grep, Fish,   \* the entries of these programs
  Rtc,                   \* the entry of the RTC
  Frames,                \* fish.c: the two files of pictures
  FISH_RATE,             \* 32
  BUFSIZE,               \* 1024, of a read of cat and of the buffer of grep
  Garbage,               \* what the memory of a new program may be filled with
  Openable               \* the entries that a program that does anything opens

Dir == <<".">>   \* the directory, by its name

\* A directory has a name that starts with a dot, by which grep knows it; an image of
\* createfs has the one directory `.'.
ASSUME ProgramsAssumption ==
  /\ {Cat, Ls, Grep, Fish, Rtc} \subseteq Name
  /\ Cat \notin {Ls, Grep, Fish} /\ Ls \notin {Grep, Fish} /\ Grep # Fish
  /\ read_dentry_by_name(Dir).file_type = "dir"
  /\ \A e \in Range(dentries) : e.file_type = "dir" => e.file_name[1] = "."
  /\ Len(Frames) = 2 /\ \A k \in 1 .. 2 : read_dentry_by_name(Frames[k]).file_type = "file"
  /\ FD_COUNT > 4
  /\ FISH_RATE \in Int /\ BUFSIZE \in Nat \ {0}
  /\ Openable \subseteq Name

VARIABLES client, output
pvars == <<vars, client, output>>

\* The memory of a client: where it is, its descriptors, and per program grep's
\* buffer, with the name and the number of bytes of the file it searches, and the
\* row and column, the characters and the ends of fish's two files.
Client(g) ==
  [pc |-> "main", fd |-> -1, fd0 |-> -1, fd1 |-> -1,
   data |-> [i \in 0 .. BUFSIZE |-> g], name |-> <<>>, last |-> 0,
   row |-> 0, col |-> 0, c |-> <<"0", "0">>, eof |-> <<FALSE, FALSE>>]

IsClient == program \in {Cat, Ls, Grep, Fish}
At(p, pc) == program = p /\ client.pc = pc

Start ==
  /\ \E typed \in Lines, stack \in Stacks : SysExecute(typed, stack)
  /\ \E g \in Garbage : client' = Client(g)
  /\ output' = <<>>

\* A program halts, or is killed.
Halt ==
  /\ SysHalt
  /\ client' = Client(NUL)
  /\ output' = <<>>

Moves(c, out) == client' = c /\ output' = output \o out

\* main returns, without another call.
Done(out) ==
  /\ Moves([client EXCEPT !.pc = "done"], out)
  /\ UNCHANGED vars

\* The call that opens `name', after which the client is at pc with the result in
\* `field'; or it gives up, with a message.
Opens(name, field, pc, message) ==
  LET r == sys_open(file_descriptor, name) IN
  \/ SysOpen(name) /\ Moves([client EXCEPT ![field] = r.ret, !.pc = pc], <<>>)
  \/ r.ret = -1 /\ Done(message)

-----------------------------------------------------------------------------
(* cat and ls.                                                               *)

CatMain ==
  /\ At(Cat, "main")
  /\ IF HasArgs(arg_buffer, BUFSIZE) THEN Opens(arg_buffer, "fd", "loop", <<"file not found">>)
     ELSE Done(<<"could not read arguments">>)

CatReads ==
  /\ At(Cat, "loop")
  /\ SysRead(client.fd, BUFSIZE)
  /\ LET r == sys_read(file_descriptor, client.fd, BUFSIZE)
     IN  Moves([client EXCEPT !.pc = IF r.ret = 0 THEN "done" ELSE "loop"], r.data)

LsMain == At(Ls, "main") /\ Opens(Dir, "fd", "loop", <<"directory open failed">>)

LsReads ==
  /\ At(Ls, "loop")
  /\ SysRead(client.fd, FILENAME_LEN)
  /\ LET r == sys_read(file_descriptor, client.fd, FILENAME_LEN)
     IN  Moves([client EXCEPT !.pc = IF r.ret = 0 THEN "done" ELSE "loop"], r.data)

-----------------------------------------------------------------------------
(* grep: do_one_file for each entry whose name does not start with a dot.    *)

GrepMain ==
  /\ At(Grep, "main")
  /\ IF HasArgs(arg_buffer, BUFSIZE)
     THEN Opens(Dir, "fd", "entry", <<"directory open failed">>)
     ELSE Done(<<"could not read arguments">>)

GrepEntry ==
  /\ At(Grep, "entry")
  /\ SysRead(client.fd, FILENAME_LEN)
  /\ LET r == sys_read(file_descriptor, client.fd, FILENAME_LEN) IN
     IF r.ret = 0 THEN Moves([client EXCEPT !.pc = "done"], <<>>)
     ELSE IF r.data[1][1] = "." THEN Moves(client, <<>>)
     ELSE Moves([client EXCEPT !.name = r.data[1], !.pc = "file"], <<>>)

GrepOpens ==
  At(Grep, "file") /\ Opens(client.name, "fd1", "search", <<"file open failed">>)

\* The buffer once n bytes have been added at its end.
Filled(data, last, bytes) ==
  [i \in 0 .. BUFSIZE |->
     IF i \in last .. last + Len(bytes) - 1 THEN bytes[i - last + 1] ELSE data[i]]

\* A line, or the piece of one, from `from' to before `to', a NUL after it.
Piece(d, from, to) == [i \in 1 .. to - from |-> d[from + i - 1]]
IsNUL(c) == c = NUL
UpToNUL(s) == SubSeq(s, 1, FirstOf(s, IsNUL) - 1)
Holds(s, pattern) ==
  \E i \in 0 .. Len(s) - Len(pattern) : SubSeq(s, i + 1, i + Len(pattern)) = pattern

\* The start of the piece behind the last newline of the first n bytes, and whether
\* it is kept until more of its line has been read.  Mutant: it never is.
TailStart(d, n) ==
  LET ends == {i \in 0 .. n - 1 : d[i] = Newline}
  IN  IF ends = {} THEN 0 ELSE Max(ends) + 1
NeverKept(d, n, cnt) == FALSE
TailKept(d, n, cnt) ==
  LET start == TailStart(d, n)
  IN  start < n /\ d[n] # Newline /\ cnt # 0 /\ start # 0

\* The parts one after the other, from the first up to each of them.
Joined(parts) ==
  LET joined[i \in 0 .. Len(parts)] == IF i = 0 THEN <<>> ELSE joined[i - 1] \o parts[i]
  IN  joined

\* Where the scan ends, and whether a line ends at i, up to there; a line that does
\* is printed if it contains the pattern.
ScanStop(d, n, cnt) == IF TailKept(d, n, cnt) THEN TailStart(d, n) ELSE n
EndsLine(d, stop, i) == IF i < stop THEN d[i] = Newline ELSE d[stop - 1] # Newline
Match(d, stop, i, name, pattern) ==
  LET piece == Piece(d, TailStart(d, i), i)
  IN  IF EndsLine(d, stop, i) /\ Holds(piece, pattern) THEN <<<<name, UpToNUL(piece)>>>>
      ELSE <<>>

\* What the scan of n bytes prints.
Matches(d, n, cnt, name, pattern) ==
  LET stop == ScanStop(d, n, cnt)
  IN  IF n = 0 THEN <<>>
      ELSE Joined([i \in 1 .. stop + 1 |-> Match(d, stop, i - 1, name, pattern)])[stop + 1]

\* The scan leaves NULs for newlines; a piece that is kept goes to the front.
Scanned(d, n, cnt) ==
  LET start == TailStart(d, n)
      end == IF start < n \/ n = 0 THEN n ELSE n - 1
      marked == [i \in 0 .. BUFSIZE |->
                   IF i = end \/ (i < n /\ d[i] = Newline) THEN NUL ELSE d[i]]
      tail == UpToNUL(Piece(marked, start, n)) \o <<NUL>>
  IN  IF TailKept(d, n, cnt)
      THEN [data |-> [i \in 0 .. BUFSIZE |-> IF i < Len(tail) THEN tail[i + 1] ELSE marked[i]],
            last |-> n - start]
      ELSE [data |-> marked, last |-> 0]

GrepReads ==
  /\ At(Grep, "search")
  /\ SysRead(client.fd1, BUFSIZE - client.last)
  /\ LET r == sys_read(file_descriptor, client.fd1, BUFSIZE - client.last)
         d == Filled(client.data, client.last, r.data)
         n == client.last + r.ret
         s == Scanned(d, n, r.ret)
     IN  Moves([client EXCEPT !.data = s.data, !.last = s.last,
                              !.pc = IF r.ret = 0 THEN "close" ELSE "search"],
               Matches(d, n, r.ret, client.name, arg_buffer))

GrepCloses ==
  /\ At(Grep, "close")
  /\ SysClose(client.fd1)
  /\ Moves([client EXCEPT !.pc = "entry", !.last = 0], <<>>)

-----------------------------------------------------------------------------
(* fish.c: add_frames reads two pictures in step, a character at a time; then *)
(* the RTC gets its rate, and is closed at the end.                           *)

FishMain == At(Fish, "main") /\ Opens(Rtc, "fd", "first", <<>>)
FishFirst == At(Fish, "first") /\ Opens(Frames[1], "fd0", "second", <<>>)
FishSecond == At(Fish, "second") /\ Opens(Frames[2], "fd1", "read1", <<>>)

\* File k: the next character unless it is at the end of its line already.
FishReads(k) ==
  LET fd == IF k = 1 THEN client.fd0 ELSE client.fd1
      r == sys_read(file_descriptor, fd, 1)
      next == IF k = 1 THEN "read2" ELSE "cell"
  IN  /\ At(Fish, IF k = 1 THEN "read1" ELSE "read2")
      /\ IF client.c[k] = Newline
         THEN UNCHANGED vars /\ Moves([client EXCEPT !.pc = next], <<>>)
         ELSE /\ SysRead(fd, 1)
              /\ Moves([client EXCEPT !.pc = next,
                          !.c[k] = IF r.ret = 0 THEN Newline ELSE r.data[1],
                          !.eof[k] = @ \/ r.ret = 0], <<>>)

\* A cell of the picture, with its two characters.
Shown(c) == IF c = Newline THEN Space ELSE c

FishCell ==
  /\ At(Fish, "cell") /\ client.c # <<Newline, Newline>>
  /\ UNCHANGED vars
  /\ Moves([client EXCEPT !.pc = "read1", !.col = @ + 1],
           IF \A k \in 1 .. 2 : Shown(client.c[k]) = Space THEN <<>>
           ELSE <<[row |-> client.row, col |-> client.col,
                   on |-> Shown(client.c[1]), off |-> Shown(client.c[2])]>>)

\* The end of both lines.  A file at its end is closed, and stays at the end of a line.
FishRow ==
  /\ At(Fish, "cell") /\ client.c = <<Newline, Newline>>
  /\ LET fds == {fd \in FD : \/ client.eof[1] /\ fd = client.fd0
                             \/ client.eof[2] /\ fd = client.fd1}
     IN  /\ file_descriptor' = [fd \in FD |-> IF fd \in fds THEN Empty ELSE file_descriptor[fd]]
         /\ opened' = [fd \in FD |-> IF fd \in fds THEN NoDentry ELSE opened[fd]]
         /\ got' = [fd \in FD |-> IF fd \in fds THEN <<>> ELSE got[fd]]
  /\ UNCHANGED <<line, program, arg_buffer>>
  /\ Moves([client EXCEPT !.row = @ + 1, !.col = 0,
              !.c = [k \in 1 .. 2 |-> IF client.eof[k] THEN Newline ELSE "0"],
              !.pc = IF client.eof = <<TRUE, TRUE>> THEN "rate" ELSE "read1"], <<>>)

FishRate ==
  /\ At(Fish, "rate")
  /\ SysWrite(client.fd, FISH_RATE)
  /\ Moves([client EXCEPT !.pc = "close"], <<>>)

FishCloses ==
  /\ At(Fish, "close")
  /\ SysClose(client.fd)
  /\ Moves([client EXCEPT !.pc = "done"], <<>>)

-----------------------------------------------------------------------------
AnyProgram ==
  /\ Runs /\ ~IsClient
  /\ \/ \E name \in Openable : SysOpen(name)
     \/ \E fd \in FD : \/ SysClose(fd)
                       \/ \E n \in Lengths : SysRead(fd, n)
                       \/ \E f \in Frequencies : SysWrite(fd, f)
  /\ UNCHANGED <<client, output>>

ClientStep ==
  \/ CatMain \/ CatReads \/ LsMain \/ LsReads
  \/ GrepMain \/ GrepEntry \/ GrepOpens \/ GrepReads \/ GrepCloses
  \/ FishMain \/ FishFirst \/ FishSecond \/ FishReads(1) \/ FishReads(2) \/ FishCell
  \/ FishRow \/ FishRate \/ FishCloses

PInit == Init /\ client = Client(NUL) /\ output = <<>>
PNext == Start \/ Halt \/ AnyProgram \/ ClientStep
Spec == PInit /\ [][PNext]_pvars

-----------------------------------------------------------------------------
(* What the programs are for.                                                *)

\* The lines of a text; what follows the last newline is one, unless it is empty.
LineEnds(text) ==
  {i \in DOMAIN text : text[i] = Newline}
    \cup (IF text = <<>> \/ Last(text) = Newline THEN {} ELSE {Len(text) + 1})
LineOf(text, end) ==
  SubSeq(text, Max({0} \cup {i \in 1 .. end - 1 : text[i] = Newline}) + 1, end - 1)

Text(name) ==
  LET dentry == read_dentry_by_name(name)
  IN  IF dentry.file_type = "file" THEN Concatenation(dentry.inode_number) ELSE <<>>

\* A file that grep promises to search: without NULs, its lines shorter than the buffer.
IsText(name) ==
  /\ NUL \notin Range(Text(name))
  /\ \A end \in LineEnds(Text(name)) : Len(LineOf(Text(name), end)) < BUFSIZE

\* What grep is to show of a text, by the ends of its lines, and what was shown of it.
Hits(name, pattern) ==
  [end \in 1 .. Len(Text(name)) + 1 |->
     IF end \in LineEnds(Text(name)) /\ Holds(LineOf(Text(name), end), pattern)
     THEN <<<<name, LineOf(Text(name), end)>>>> ELSE <<>>]
ShownOf(out, name) ==
  Joined([k \in 1 .. Len(out) |-> IF out[k][1] = name THEN <<out[k]>> ELSE <<>>])[Len(out)]

AllNames == [i \in DOMAIN dentries |-> dentries[i].file_name]

CatShows(args) ==
  LET dentry == read_dentry_by_name(args)
      given == args # <<>> /\ Len(args) < BUFSIZE
  IN  output = CASE ~given -> <<"could not read arguments">>
                 [] given /\ ~Found(dentry) -> <<"file not found">>
                 [] given /\ dentry.file_type = "dir" -> AllNames
                 [] given /\ dentry.file_type \in {"file", "rtc"} -> Text(args)

GrepShows(args) ==
  IF args = <<>> \/ Len(args) >= BUFSIZE THEN output = <<"could not read arguments">>
  ELSE \A name \in Name :
         IsText(name) /\ name[1] # "." =>
           ShownOf(output, name) = Joined(Hits(name, args))[Len(Text(name)) + 1]

\* Where a text has its character i: the newlines before it are its row, the characters
\* since the last of them its column.
RowOf(text, i) == Cardinality({j \in 1 .. i - 1 : text[j] = Newline})
ColOf(text, i) == Cardinality({j \in 1 .. i - 1 : \A l \in j .. i - 1 : text[l] # Newline})

\* The cells of two pictures, one over the other.
CharAt(text, row, col) ==
  LET here == {i \in DOMAIN text : text[i] # Newline /\ RowOf(text, i) = row
                                                     /\ ColOf(text, i) = col}
  IN  IF here = {} THEN Space ELSE text[CHOOSE i \in here : TRUE]

FishShows ==
  LET picture == [k \in 1 .. 2 |-> Text(Frames[k])]
      size == Len(picture[1]) + Len(picture[2])
      cell(row, col) == [row |-> row, col |-> col, on |-> CharAt(picture[1], row, col),
                         off |-> CharAt(picture[2], row, col)]
  IN  Range(output) = {p \in {cell(row, col) : row \in 0 .. size, col \in 0 .. size} :
                         <<p.on, p.off>> # <<Space, Space>>}

\* Whatever the line that was typed, with whatever spaces: cat runs on the arguments
\* that it gives and shows the whole file, whatever the block and buffer sizes; ls
\* shows every name; fish shows both pictures, also when one of them is longer.
FilesShown ==
  client.pc = "done" /\ program \in {Cat, Ls, Fish} =>
    \E i, j \in 0 .. Len(line) :
      LET args == SubSeq(line, i + 1, j)
      IN  /\ IsSplit(line, program, args)
          /\ program = Cat => CatShows(args)
          /\ program = Ls => output = AllNames
          /\ program = Fish => FishShows

\* grep shows exactly the lines of every text that hold the pattern, also those that
\* two reads deliver in pieces.
PatternsShown ==
  client.pc = "done" /\ program = Grep =>
    \E i, j \in 0 .. Len(line) :
      LET args == SubSeq(line, i + 1, j)
      IN  IsSplit(line, program, args) /\ GrepShows(args)

-----------------------------------------------------------------------------
(* The tests of ece391syserr.c that are about descriptors.                   *)

AllFail(calls) == \A r \in calls : r.ret = -1

err_bad_fd(t, fd) ==
  AllFail({sys_read(t, fd, 31), sys_write(t, fd, 0, 31), sys_close(t, fd)})

\* Opening all descriptors and one more: how many of the calls fail.
err_open_lots(t) ==
  LET after[k \in 0 .. FD_COUNT - 1] ==
        IF k = 0 THEN t ELSE sys_open(after[k - 1], Dir).table
  IN  Cardinality({k \in 0 .. FD_COUNT - 2 : sys_open(after[k], Dir).ret = -1})

\* A name with a character more, one less, or none at all.
err_open(t) ==
  AllFail({sys_open(t, name) :
             name \in ({Append(n, Last(n)) : n \in Name} \cup {Front(n) : n \in Name}) \ Name})

err_stdin_out(t) == AllFail({sys_write(t, 0, 0, 31), sys_read(t, STDOUT, 31)})

\* The tests pass in every state that a program can bring its descriptors to, and
\* those that expect a new process in every state without open files.
SyserrPasses ==
  /\ err_bad_fd(file_descriptor, -1) /\ err_bad_fd(file_descriptor, FD_COUNT)
  /\ err_open(file_descriptor) /\ err_stdin_out(file_descriptor)
  /\ AllFail({sys_close(file_descriptor, 0), sys_close(file_descriptor, STDOUT)})
  /\ FreeFDs(file_descriptor) = FD =>
       /\ err_open_lots(file_descriptor) = 1
       /\ \A fd \in FD : err_bad_fd(file_descriptor, fd)
=============================================================================
