-------------------------- MODULE FileDescriptors ---------------------------
(***************************************************************************)
(* The file descriptor table of a process (syscalls.c): what sys_open,     *)
(* sys_close, sys_read and sys_write return and make of the table, for     *)
(* files, directories and the RTC; sys_execute and sys_halt, between which *)
(* a program lives; and a program that makes any calls whatever.           *)
(* Descriptors 0 and 1 are the subject of TerminalLine and Screen.         *)
(***************************************************************************)
EXTENDS FileSystem, Commands

CONSTANTS
  FD_COUNT,        \* 8
  Lengths,         \* the nbytes that programs pass
  Frequencies,     \* what programs write to the RTC
  RTC_MIN, RTC_MAX,    \* 2 and 1024
  ELF,             \* bytes 1 to 3 of an executable
  Stacks,          \* what check_executable may find on its stack
  Lines            \* what is typed at the shell, up to and with the newline

ASSUME DescriptorAssumption ==
  /\ FD_COUNT \in Nat /\ FD_COUNT > 3
  /\ Lengths \subseteq Nat
  /\ Frequencies \subseteq Int
  /\ RTC_MIN \in Nat \ {0} /\ RTC_MAX \in Nat /\ 2 \in RTC_MIN .. RTC_MAX
  /\ Len(ELF) = 3
  /\ \A stack \in Stacks : Len(stack) = 3
  /\ \A typed \in Lines : typed \in Seq(Range(typed))

STDOUT == 1
FD == 2 .. FD_COUNT - 1

VARIABLES
  line,                \* the command line that was typed
  program,             \* the file that runs, NoName after a halt
  arg_buffer,          \* its arguments
  file_descriptor,     \* flags, inode, file_position
  opened,              \* the entry that was opened, for the properties
  got                  \* all that was read since

vars == <<line, program, arg_buffer, file_descriptor, opened, got>>

Empty == [flags |-> "empty", inode |-> 0, file_position |-> 0]
Runs == program # NoName

-----------------------------------------------------------------------------
(* The calls, as functions of a table t: what they return, the data they     *)
(* deliver, and the table they leave.  ret is -1 for an error.               *)

Fails(t) == [ret |-> -1, data |-> <<>>, table |-> t]

IsOpen(t, fd) == fd \in FD /\ t[fd].flags # "empty"
FreeFDs(t) == {fd \in FD : ~IsOpen(t, fd)}

\* The entry that sys_open fills in: of a file its inode, of the RTC a frequency
\* of 2 Hz.  Mutant: the inode of the RTC is that of its directory entry.
EntryByInode(dentry) == [flags |-> dentry.file_type, inode |-> dentry.inode_number,
                         file_position |-> 0]
Entry(dentry) ==
  [flags |-> dentry.file_type,
   inode |-> CASE dentry.file_type = "rtc" -> 2
               [] dentry.file_type = "dir" -> 0
               [] OTHER -> dentry.inode_number,
   file_position |-> 0]

\* sys_open takes the first free descriptor.
sys_open(t, name) ==
  LET dentry == read_dentry_by_name(name)
      fd == CHOOSE f \in FreeFDs(t) : \A g \in FreeFDs(t) : f <= g
  IN  IF name = NoName \/ ~Found(dentry) \/ FreeFDs(t) = {} THEN Fails(t)
      ELSE [ret |-> fd, data |-> <<>>, table |-> [t EXCEPT ![fd] = Entry(dentry)]]

\* sys_close does not call the close of the file.
sys_close(t, fd) ==
  IF ~IsOpen(t, fd) THEN Fails(t)
  ELSE [ret |-> 0, data |-> <<>>, table |-> [t EXCEPT ![fd] = Empty]]

\* A directory: the next entry; the result is n, or 0 past the last one.  Mutant:
\* the position moves even when 0 is returned.
PositionAlways(ret) == 1
PositionStep(ret) == IF ret = 0 THEN 0 ELSE 1

\* n bytes of a name; past FILENAME_LEN they are of the stack, and left out here.
dir_read(t, fd, n) ==
  LET dentry == read_dentry_by_index(t[fd].file_position)
      ret == IF Found(dentry) THEN n ELSE 0
  IN  [ret |-> ret,
       data |-> IF ret = 0 THEN <<>> ELSE <<dentry.file_name>>,
       table |-> [t EXCEPT ![fd].file_position = @ + PositionStep(ret)]]

\* A file: the inode is passed in 8 bits, the position moves by the result.
file_read(t, fd, n) ==
  LET data == read_data(t[fd].inode % INODE_LIMIT, t[fd].file_position, n)
  IN  [ret |-> Len(data), data |-> data,
       table |-> [t EXCEPT ![fd].file_position = @ + Len(data)]]

\* sys_read of anything but the standard input; the RTC delivers nothing, later.
sys_read(t, fd, n) ==
  IF ~IsOpen(t, fd) \/ n < 0 THEN Fails(t)
  ELSE CASE t[fd].flags = "rtc"  -> [ret |-> 0, data |-> <<>>, table |-> t]
         [] t[fd].flags = "dir"  -> dir_read(t, fd, n)
         [] t[fd].flags = "file" -> file_read(t, fd, n)

\* rtc_write: a power of two within the range.
ValidFrequency(f) == \E k \in 0 .. 15 : f = 2^k /\ RTC_MIN <= f /\ f <= RTC_MAX

\* sys_write of the number f: the RTC keeps it as its frequency, in the inode; files
\* and directories refuse all writes, the standard output takes any n bytes.
sys_write(t, fd, f, n) ==
  CASE n < 0 -> Fails(t)
    [] fd = STDOUT -> [ret |-> n, data |-> <<>>, table |-> t]
    [] IsOpen(t, fd) /\ t[fd].flags = "rtc" /\ ValidFrequency(f) ->
         [ret |-> 0, data |-> <<>>, table |-> [t EXCEPT ![fd].inode = f]]
    [] OTHER -> Fails(t)

-----------------------------------------------------------------------------
\* sys_execute of a file, in a PCB whose table is of an earlier process.  Mutant:
\* the table stays as it is.
TableKept == file_descriptor
TableOfNewProcess == [fd \in FD |-> [file_descriptor[fd] EXCEPT !.flags = "empty"]]

\* The shell passes on what is not empty or its own.
Exit == <<"exit">>
IsCommand(typed) == typed # <<>> /\ typed # Exit

SysExecute(typed, stack) ==
  LET command == WithoutNewline(typed)
      dentry == read_dentry_by_name(prog_name(command))
  IN  /\ ~Runs /\ IsCommand(command)
      /\ prog_name(command) # <<>>
      /\ Found(dentry)
      /\ check_executable(dentry, stack, ELF)
      /\ line' = command
      /\ program' = dentry.file_name
      /\ arg_buffer' = arg_buffer_of(command)
      /\ file_descriptor' = TableOfNewProcess
      /\ UNCHANGED <<opened, got>>

\* sys_halt closes all but the last descriptor.
SysHalt ==
  /\ Runs
  /\ line' = <<>> /\ program' = NoName /\ arg_buffer' = <<>>
  /\ file_descriptor' =
       [fd \in FD |-> IF fd = FD_COUNT - 1 THEN file_descriptor[fd] ELSE Empty]
  /\ opened' = [fd \in FD |-> NoDentry]
  /\ got' = [fd \in FD |-> <<>>]

\* A call by the program that runs.
Call(r) == file_descriptor' = r.table /\ UNCHANGED <<line, program, arg_buffer>>

SysOpen(name) ==
  LET r == sys_open(file_descriptor, name) IN
  /\ r.ret # -1
  /\ Call(r)
  /\ opened' = [opened EXCEPT ![r.ret] = read_dentry_by_name(name)]
  /\ got' = [got EXCEPT ![r.ret] = <<>>]

SysClose(fd) ==
  LET r == sys_close(file_descriptor, fd) IN
  /\ r.ret # -1
  /\ Call(r)
  /\ opened' = [opened EXCEPT ![fd] = NoDentry]
  /\ got' = [got EXCEPT ![fd] = <<>>]

SysRead(fd, n) ==
  LET r == sys_read(file_descriptor, fd, n) IN
  /\ r.ret # -1
  /\ Call(r)
  /\ got' = IF fd \in FD THEN [got EXCEPT ![fd] = @ \o r.data] ELSE got
  /\ UNCHANGED opened

SysWrite(fd, f) ==
  LET r == sys_write(file_descriptor, fd, f, 4) IN
  /\ r.ret # -1
  /\ Call(r)
  /\ UNCHANGED <<opened, got>>

-----------------------------------------------------------------------------
Init ==
  /\ line = <<>> /\ program = NoName /\ arg_buffer = <<>>
  /\ file_descriptor = [fd \in FD |-> Empty]
  /\ opened = [fd \in FD |-> NoDentry]
  /\ got = [fd \in FD |-> <<>>]

TypeOK ==
  /\ program \in Name \cup {NoName}
  /\ \A fd \in FD :
       /\ file_descriptor[fd].flags \in Type \cup {"empty"}
       /\ file_descriptor[fd].inode \in Nat
       /\ file_descriptor[fd].file_position \in Nat

Open(fd, type) == Runs /\ file_descriptor[fd].flags = type

\* However reads of several descriptors, also of the same file, follow each other
\* and whatever sizes they ask for, each descriptor delivers its file from the
\* start, no byte twice and none left out, and a directory its entries in order,
\* each one once.
StreamsFile(fd) ==
  LET text == Contents(opened[fd].inode_number) IN
  Len(got[fd]) <= Len(text) /\ got[fd] = SubSeq(text, 1, Len(got[fd]))

ListsDirectory(fd) == got[fd] = [i \in 1 .. Len(got[fd]) |-> dentries[i].file_name]

FilesStream ==
  \A fd \in FD :
    /\ Open(fd, "file") => StreamsFile(fd)
    /\ Open(fd, "dir") => ListsDirectory(fd)
    /\ Open(fd, "file") \/ Open(fd, "dir") =>
         file_descriptor[fd].file_position = Len(got[fd])

\* rtc_read divides by the frequency of its descriptor: always a legal one.
RtcFrequencyValid ==
  \A fd \in FD : Open(fd, "rtc") => ValidFrequency(file_descriptor[fd].inode)

\* A program starts without open files, though the halt before it leaves the last
\* descriptor open.
StartsWithoutFiles ==
  [][~Runs /\ Runs' => \A fd \in FD : ~IsOpen(file_descriptor, fd)']_vars
=============================================================================
