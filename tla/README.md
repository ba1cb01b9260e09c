# A verification of the 391OS-36 kernel

The kernel in `src/student-distrib` is a small x86 operating system: one CPU,
three terminals that share one keyboard and one screen, a pool of six
processes, a round robin driven by the PIT, signals, and a read-only file
system.  This directory holds TLA+ models of it, TLC configurations that check
them, and proofs that TLAPS checks.

1. [The system and its parts](#the-system-and-its-parts)
2. [What is hard](#what-is-hard)
3. [The modules](#the-modules)
4. [The runs](#the-runs)
5. [Fairness](#fairness)
6. [The proofs](#the-proofs)
7. [What is only model-checked](#what-is-only-model-checked)
8. [Where code and comments differ](#where-code-and-comments-differ)
9. [What is not modelled](#what-is-not-modelled)
10. [The plan](#the-plan)

## The system and its parts

| part | state it keeps | operations |
|---|---|---|
| processes (`syscalls.c`) | `pcb`, `pcb_pool`, the PCBs, `progress` | `sys_execute`, `sys_halt`, `sys_read`, `sys_write`, `sys_open`, `sys_close`, `sys_getargs`, `sys_vidmap`, `sys_set_handler`, `sys_sigreturn`, `find_next_pid` |
| scheduler (`scheduler.c`, `pit.c`) | `terminals[]`, `scheduler_enable` | `pit_handle`, `switchContext`, `switchVidMem`, `switchTerminalInit` |
| keyboard (`keyboard.c`) | line buffers, modifiers, `keyboard_wait_flag` | `keyboard_handle`, `keyboard_put_active`, `keyboard_wait`, `keyboard_clear_and_wait` |
| terminal driver (`terminal.c`) | `buf_local`, `buf_ready`, `buf_size_in` | `terminal_open`, `terminal_read`, `terminal_write`, `copy_buffer` |
| signals (`signals.c`, `linkage.S`) | `sig_pending`, `sig_mask`, handlers, `sig_stackshot` | `sig_set`, `sig_dispatch`, `sig_handle`, `sys_sigreturn` |
| exceptions (`exceptions.c`) | none | `unified_exception_handler` |
| RTC (`rtc.c`) | `vrtc_counter`, `vrtc_alarm` | `rtc_handle`, `rtc_read`, `rtc_write` |
| interrupts (`i8259.c`, `idt.c`, `interrupts.c`, `linkage.S`) | the chips' masks, requests and in-service bits, IF | `i8259_init`, `enable_irq`, `send_eoi`, the gates and wrappers |
| paging (`paging.c`) | page directory and tables | map and unmap of program and vidmap pages |
| screen output (`lib.c`) | `screen_x`, `screen_y`, VRAM, `video_mem` | `putc`, `clear` |
| user programs (`src/syscalls`, `src/fish`) | their own memory | `main` of the shell, cat, ls, grep, fish, the tests of syserr |
| file system (`file_system.c`) | a read-only image | `read_dentry_by_name`, `read_dentry_by_index`, `read_data`, `check_executable` |
| boot (`kernel.c`) | everything, once | the initialisers, then `switchTerminalInit(0)` |

How they interact.  There is one CPU and no kernel thread: everything runs on
the kernel stack of some process, in a system call, an interrupt or an
exception.  The PIT interrupt and the keyboard interrupt call `switchContext`,
which parks the running process inside that very interrupt and returns from
another one's.  The keyboard writes into buffers that `terminal_read` polls
with interrupts on.  `keyboard_wait`, under the process manager and the
exception handler, waits inside a handler with interrupts on.  `sig_set` marks
a PCB from any interrupt, and `sig_dispatch`, at the end of each way back to
user code, acts on the mark of whoever runs by then: the default handler is
`sys_halt`, on the stack of the victim.  One flag, `progress`, keeps the PIT
from switching in the middle of the long operations.

What makes each part correct:

- processes: the PIDs of a terminal form one chain of callers down to its
  shell; only the end of the chain runs, and a halt returns to the right one.
- scheduler: PCB, program page, kernel stack, video frame and vidmap page
  always belong together and to the terminal that runs; nobody starves.
- `progress`: raised exactly while something must not be switched out.
- keyboard and terminal driver: a read returns one line as it was typed, never
  an older one, and the screen shows what is in the buffer.
- signals: a kill reaches the process in front before it computes again; a
  handler does not disturb what it interrupts, and runs alone.
- screen: three terminals on one frame buffer look like three consoles, and
  each console like a sheet of paper.
- interrupts and RTC: no handler leaves its interrupt in service when it goes
  elsewhere, and a virtual RTC keeps its own time for each terminal.
- file system and descriptors: every descriptor streams its file without gap
  or repetition.
- user programs: from the line that was typed to what is shown, cat, ls, grep
  and fish do what they are for, on any block and buffer size.

## What is hard

Interrupts are off in kernel code, so most handlers are atomic, and a test at
the keyboard exercises them one at a time.  The hard behaviours are where that
is not so: system calls that execute `sti` (`sys_read`), the waits for ENTER
inside handlers, the last instructions of a system call, exceptions and their
kills, and a process parked in the middle of an interrupt.  The `hazards` of
`PROJECT.json` list them at their lines with the properties that watch each.
Nothing is persistent and there is no network: crashes, lost messages and
recovery do not occur in this system, and of the losses only a dropped PIT
tick and an overwritten line.

## The modules

    Sessions <----- KernelSessions ----> Kernel <---- KernelProofs
    Consoles <----- Display <---- DisplayProofs, MCDisplay
    Interrupts <--- InterruptsProofs
    Signals <------ SignalsProofs
    TerminalLine <- TerminalLineProofs
    Screen <------- ScreenProofs
    NatLemmas <---- KernelProofs, ScreenProofs, FilesProofs
    FileSystem, Commands <--- FileDescriptors <--- Programs <--- MCPrograms, FilesProofs

**Kernel** is the core: processes, terminals, scheduling, keys, exceptions and
kills.  A PCB is named by its PID and lives in `slot`, so that a halted one can
be read, as the code does.  `at` says where each process is (in user code, in a
spin, in `sys_execute` until its child halts, in the exception handler's wait,
in `sys_halt`, ...) and stands for its kernel stack; `tss_esp0` and
`program_page` are the PIDs whose stack and page are loaded.  `irq_off` says
that the CPU is in kernel code with IF = 0.  A handler is one action; an
interrupt ends with `irq_off` set, after which `DispatchKills` or
`DispatchReturns` is what `sig_dispatch` does for whoever runs by then.
The process manager and the exception handler execute `sti` and wait, so they are
steps between which interrupts come: `waiter` is the stage of the handler on top of
a process.  The ENTER interrupt only lowers `keyboard_wait_flag` (`KeyEnter`); the
handler then unmasks and sends its signal (after an exception), puts back the
`video_mem` that it keeps in `vram_ptr_backup`, clears `progress`, looks at CTRL
(the process manager's SYSKILL), and goes to `sig_dispatch`, all with IF = 1 and each
only when its process has the CPU.
`sys_halt` is two actions, because on the exception path and in the process
manager it runs with interrupts on: `HaltBegins` (lock taken, PID free) and
`RestartShell` or `ReturnToParent`.  `switchContext` covers saving, mapping
and the choice of the frame, and either resumes the terminal or, the first
time, starts its shell as `switchTerminalInit` does.

Four constants restrict the environment:

- `EarlyKeys`, whether keys are pressed before each terminal has its shell (TRUE in
  `early_shells` only);
- `KeysInHalt`, whether an echoed key falls into a `sys_halt` that runs with IF = 1;
- `KeysInRestore`, whether one falls between the ENTER that ends a wait and the end
  of the restore: the test at `keyboard.c:138` does not look at `progress`, so it
  clears the flag and may call `switchContext` under the handler;
- `KillsInRestore`, whether an interrupt falls between the signal of an exception and
  the end of its restore: its `sig_dispatch` kills the process right there.

`processes` has the last two TRUE, `locks` has them FALSE.  What the others of these
values lead to is described [below](#where-code-and-comments-differ).

**Sessions** is what Kernel promises: every terminal is a stack of processes;
executing pushes, halting pops, the shell at the bottom stays.
**KernelSessions** maps `previous_id` chains to stacks.

**Display** is the same kernel seen from the screen: the VRAM and the backup
pages with their contents, the shared coordinates and the saved ones,
`video_mem`, the frame under the page through which a program draws by itself
(`vidmap_page`), and the local copies that the waiting handlers keep (`backup`,
`extra`).  What `putc` does is a parameter.  A handler that waits (`handler`) has the
same steps as in Kernel (`stage`): ENTER, the picture (process manager only), the
coordinates, `video_mem`, `progress`.  **Consoles** is its abstract specification, a
console for each terminal; the refinement mapping says where each console's text and
cursor are at any moment, in each of these stages; only the running process and the
keyboard print.  That holds as long as no key is echoed in the middle of a restore
(`Calm`, `KeysInRestore` FALSE).  A process that is killed there is Kernel's, and
a key in the middle of the `memcpy` itself is left out.

**Screen** is `putc` on one console, with the keyboard's echo and erasure of
the line being typed.  The reference is a typewriter on paper without end, of
which the screen is a window; it knows its place on the paper and the row at the
top of the screen, and says nothing of how a screen is scrolled.  `Events` names two things the default excludes:
a tab over the end of the last row and a message in the middle of a line
(see [below](#where-code-and-comments-differ)).

**TerminalLine** is a read of standard input, in the steps between which a key
may fall: echo on, the three assignments of `terminal_open`, the end of the
spin, the size, each byte of `memcpy`, the size again, echo off.  ENTER,
characters, backspace, CTRL+L, kills and terminal switches may come between
any two.  `stale` marks the bytes that are older than the read, and
`disturbed` the reads during whose other steps a key fell.

**Signals** is one process and its signals: the order of signals in `sig_set`,
the mask, the dispatch on the way out of system calls, interrupts and
exceptions, custom handlers and `sys_sigreturn`.  The kernel stack is explicit:
`kstack` is its memory and `depth` how much is in use.  A handler starts with
`depth` 0 while the frames that it interrupted are still in memory, and what it
calls overwrites them, exactly the hazard that `sig_stackshot` is there for.
The time in which other processes run is the "away" part of an interrupt.  An
interrupt falls on a wait or a dispatch with IF = 1, and may itself be interrupted
once CTRL+P or CTRL+H has executed `sti` in it: `MaxDepth` bounds the entries that
are live at a time.  `sig_stackshot` has 27 words (`SHOT_BYTES`) and
a size of one byte: `StackBytes` is what the live entries take, `ENTRY_BYTES` each
with `InnerBytes` of C frames between two.  A copy that is too long runs on into
`file_descriptor` (`spilled`), and beyond 255 bytes its size is cut
(`sig_stacksize`).  A call that uses a descriptor after that (`CallSpilled`) and a
`sys_sigreturn` from a copy that was cut, or with none at all (`SigreturnCut`), may
do anything and end the model's program as "undefined".  A stray `sys_sigreturn`,
outside of a handler, is not checked for by the code: it takes the program back to
where the last handler began (`Replayed`).  After an exception the line is unmasked
(`ExceptionUnmasks`) and the exception signalled (`ExceptionSignals`) in two steps with
IF = 1; an alarm between the two is dispatched, and its handler runs first.  A
`sig_dispatch` is three steps: the signal is read (`Dispatch`), its handler is
chosen and the line masked (`DispatchCustom`, `DispatchDefault`), the default
handler kills or is done (`DefaultKills`, `DefaultReturns`).  After a wait and on
the exception path it runs with IF = 1, and an interrupt may fall between any
two of them and do a dispatch of its own.

**Interrupts** is the way of an interrupt: a device raises its line
(`pending`), the 8259 lets it through by priority (`Requests`), the gate clears
IF (`serving`), the handler sends its EOI (`in_service`) and returns, switches,
starts a shell or waits for ENTER.  Programs appear only as far as interrupts
see them.  On top of it is what the RTC interrupt is for: the counter of each
terminal, that `rtc_read` sets and spins on, and its alarm.  The counters are
floats, multiples of 1/4 and so exact; the module counts in quarters.  Each
turn of the spin is two steps, as in the compiled code: the counter is pushed
on the x87 stack (`fpu`), and what is on top is popped and compared.  The
constant `PreemptCompare` says whether the CPU may go elsewhere between the
two.  The environment is restricted by `ShellsInTime`, that every terminal has
its shell before the first alarm, which comes after ten seconds.  The scheduler
stays enabled here; CTRL+S is Kernel's.

**FileSystem** holds the lookups, `read_data` and `check_executable` over an
image given as constants, and two references: the contents of a file byte by
byte, which `FilesStream` uses, and as the concatenation of its blocks, which
the programs are held against.
**Commands** is the way of a command line: the newline that the shell drops,
the name and the arguments that `sys_execute` finds, what `sys_getargs` hands
out, and, as the reference, what it means that a line splits into a name and
arguments.  **FileDescriptors** is the descriptor table of a process: open,
close, read and write of files, directories and the RTC, as functions of a
table, and `sys_execute` and `sys_halt` around them, which use a PCB again.

**Programs** runs user programs on these calls: cat, ls, grep and the pictures
of fish, each as its loop of calls with its own memory (`client`) and what it
shows (`output`); any other program makes any calls.  A call and the
computation up to the next one is one step, since nobody else sees a program's
memory.  The memory of a new program is filled with `Garbage`, as nothing
clears it.  What a program shows is compared when it is done, in two properties:
`FilesShown` for cat, ls and fish, `PatternsShown` for grep.  The references are
what the programs are for, written over the contents of the files: the text, the
names, the lines that hold a pattern, the cells of two pictures laid over each
other, where a character's row is the number of newlines before it and its column
the number of characters since the last one.  grep promises nothing of a file with
NULs or with a line as long as its buffer (`IsText`), or of a name that starts with a dot,
which it takes for a directory.  The tests of `ece391syserr.c`
that concern descriptors appear as operators on a table (`err_bad_fd`,
`err_open_lots`, ...), so that they can be asked in every reachable state and
not only at the start of a program.

**NatLemmas** has what several proofs need of the natural numbers: least elements,
induction, sequences of steps, recursive functions, quotients and remainders.

Each definition carries the source's name where there is one; the `map` of
`PROJECT.json` gives the lines.  A definition that a comment calls a mutant is
the same definition with a plausible mistake, used to show that the property
it is listed with can fail; it is part of no specification.

## The runs

| run | module, cfg | distinct states | what it shows |
|---|---|---|---|
| `processes` | KernelSessions, `KernelProcesses.cfg` | 1 024 462 | chains, fronts, pages and stacks, whatever comes in the middle of a restore; refinement of Sessions |
| `locks` | Kernel, `KernelLocks.cfg` | 1 812 228 | `progress`, preemption, kills, video routing, echo |
| `fair` | Kernel, `KernelFair.cfg` | 3 092 | no terminal starves; a line reaches its reader |
| `display` | MCDisplay, `Display.cfg` | 467 046 | three consoles on one screen; refinement of Consoles |
| `screen` | Screen, `Screen.cfg` | 674 680 | the screen is a window on paper; the line is before the cursor |
| `lines` | TerminalLine, `Lines.cfg` | 61 755 | reads return the line typed, nothing stale, and they do return |
| `files` | MCPrograms, `FilesStreams.cfg` | 65 425 | descriptors stream; directories list; RTC frequencies legal; programs show what they are for; the descriptor tests pass |
| `signals` | Signals, `Signals.cfg` | 1 468 544 | handlers are transparent as far as their stacks are kept, alone, ordered, and the mask fits |
| `interrupts` | Interrupts, `Interrupts.cfg` | 688 546 | nothing stays in service; virtual RTCs keep time |
| `early_shells` | Kernel, `KernelEarlyShells.cfg` | violation | why the proofs assume `~EarlyKeys` |
| `exception_status` | Signals, `SignalsStatus.cfg` | violation | 256 is never reported |
| `rtc_early` | Interrupts, `InterruptsRead.cfg` | violation | a read that returns before its period, by a switch inside a compare |

Bounds, and why they are enough:

- `processes`: two terminals and four PIDs.  Two shells leave two PIDs, so a
  child and a grandchild exist on one terminal, or a child on each, and the
  pool can be full; that is every shape a chain can have next to a neighbour
  that competes for PIDs.  The process manager and CTRL+S, which neither start
  nor end a process by themselves, are left to `locks`.
- `locks`: all inputs, two terminals, three PIDs.  One PID beyond the shells
  suffices: the properties are about the process that runs, the one on the
  screen, and a switch between them.  The proofs cover every size.
- `fair`: characters and ALT+F keys only, since these are what competes with
  the PIT for the CPU.
- `display`: three terminals, so that the running terminal, the one on the
  screen and the next in turn can all be different; a console of one cell with
  three contents and two cursor positions, in which every text changes both, and
  one drawing.  Initial frames are arbitrary.
- `screen`: 2 rows of 4 columns, tabs of 2, a line buffer of 3, and paper for
  5 rows: wraps, scrolls by wrap and by newline, tabs across rows, backspaces
  over a row start and at the top left corner all occur.
- `lines`: one terminal, since every array of the two files is indexed by
  terminal and only `terminal_active` is shared, which Kernel covers; a buffer
  of 2 with 1 byte cleared by `terminal_open`, requests of 0, 1 and 3, below
  and above the buffer size; two characters.
- `files`: blocks of 4 bytes, buffers of 5, so that reads and blocks never
  fall together; a text of 10 bytes in three blocks out of order and one of 5
  without a newline at its end, whose rows differ in number and length; 3
  descriptors, one of them the last; requests of 0 to 11.  The lines typed have
  spaces at every place, no arguments, unknown and unmarked files, the name of
  a program with a letter more, and `exit`.  grep finds its pattern in lines that
  two reads deliver, and at the end of its buffer.
- `signals`: an exception and an alarm may have handlers and CTRL+C has the default
  one, so that a dispatch may do each of the three things; two different results, so
  that a wrong one is seen.  Three entries are live at most: a call that waits, the
  process manager on top of it, and an interrupt of that.  So there is an entry
  that is neither the first nor the last; the proofs are for any `MaxDepth`.  With 64 bytes
  between two entries one entry fits into `sig_stackshot`, two overrun
  `file_descriptor`, and three are cut, which are all the cases.

- `interrupts`: two terminals, so that reads overlap and one is switched out;
  frequencies of 1024, 512 and 256 Hz, whose periods are 1, 2 and 3 interrupts
  because 7 quarters are counted off at each; an alarm every second interrupt
  instead of every 5852nd, so that alarms come before, with and after the end
  of a read.

Deadlock is checked in all runs.

## Fairness

Only `fair` and `lines` assume any.

*Kernel.*  WF of `KernelStep`: the CPU executes.  WF of `Program`: a program
that has the CPU makes a system call sooner or later.  The code really needs
this: user programs inherit IF = 0 from `sys_execute`, so a program that
computes without calls keeps the CPU for ever and `EveryTerminalRuns` is then
false.  SF of a PIT tick that would switch: the PIC latches IRQ 0, so a tick
that comes while IF = 0 is taken as soon as it is set, and IF is set again and
again.  SF, for each terminal, of leaving a spin whose condition holds: a time
slice is far longer than one turn of the loop.  No key need ever be pressed.

*TerminalLine.*  WF of the steps of a read, for the same reasons; WF of
switching to a terminal and SF of ENTER there: the user comes by and enters
lines.  Without that no read needs to return.  ENTER once is not enough, as a
line that is finished between two steps of `terminal_open` is dropped.

## The proofs

Six modules hold the proofs of the components.  Every listed theorem is about all
values of the constants that the module's assumption admits; these assumptions are
what the headers and the shipped image provide:

- Kernel: there are at least as many PIDs as terminals, three or six in the code;
- Display: `PutC` maps consoles to consoles;
- Interrupts, Signals, TerminalLine: the sets of frequencies, signals and requests
  are of the right types;
- Screen: rows and columns are positive, and the paper has a screenful of rows;
- FileSystem, FileDescriptors, Programs: names in the directory are different and
  every file has the blocks that its size needs, as `createfs` makes them; lines are
  sequences; the programs are different entries, `.` is the directory, only names
  with a leading dot are directories, and fish's pictures are files; a table has five descriptors or more, eight in the code.

Where a theorem needs more, it says so in its hypothesis (`Quiet`, `Calm`,
`~KeysInRestore`, `Undisturbed`, `Newline \notin Garbage`).
The provers do not instantiate the library's theorems of induction, whose parameter
is an operator.  `NatLemmas` states induction over a set of numbers instead
(`Induction`, from the least element that would be missing, `LeastNat`), and from it
that a recursive function obeys its recursion (`Recursion`, `Iterate`).  The models
are written for this: what would be a fold or a recursive operator is a recursive
function over `0 .. n`, as in `Concatenation` and `err_open_lots`.

`KernelProofs` proves, for every `TERMINAL_COUNT` and every `MAX_PID_COUNT`
not below it, `TypeOK` and all the safety invariants that `processes` and `locks`
check.
All assume `Quiet`, that `EarlyKeys` and `KeysInHalt` are FALSE; the run
`early_shells` shows that the invariants need the first, and what the second excludes
is described [below](#where-code-and-comments-differ).  Most of them hold whatever
comes in the middle of a restore.  Three do not: `LockIsOwned` and `CriticalRunsOn`
assume `~KeysInRestore`, as a key there clears a lock that is held, and `VideoIsRouted`
assumes `Calm`, that neither keys nor kills come there.

The invariants are not inductive one by one.  `IInv` is the conjunction of

- `TypeOK`;
- `Boot`: terminals come up in the order of the round robin, and until all are
  up only shells that have just started exist;
- `Lock`: who holds `progress`, when `keyboard_wait_flag` is up, what a process
  in a spin, at a stage of a wait or in `sys_halt` implies for `irq_off` and for being
  the one that runs (`ProgressOwned`, `CriticalNotPreempted`, `KillBeforeUser` follow);
  that a waiter holds `progress` and is not switched out is for `~KeysInRestore`;
- `Tree`: fronts, shells, waiting parents, and `OnlyChild`, that a parent has
  one child (`FrontIsOwn`, `BaseShellPids`, `ParentWaits`, `OneChild` follow);
- `StackAndPageOwn`, `KillsAreForFront`, and `Display` (`VidmapOwned`, `ReaderEchoes`,
  and for `Calm` `VideoRouted`).

One cannot do without the other: a halt returns to the right parent because of
`Tree`, `Tree` survives a switch because nobody in `sys_halt` is switched out,
which is `Lock`, and `Lock` holds because a PIT tick finds `progress` raised.

There is a lemma per action (`SysExecuteInv`, ..., `PitHandleInv`).  Actions
that leave the process tree alone go through `ProcessesKept`.  A context
switch is `SavedFacts` (saving changes nothing that the invariant sees) followed
by `ResumeInv` or `StartTerminalInv`.  `NextPid` shows from `LeastNat` that
`find_next_pid` returns a free PID, which during `Boot` is the terminal's own
(`NextPidIs`); `ParentFacts` collects what is known of the parent of a
halting process.

On top of `IInv`, `KernelImplementsSessions` proves the refinement that `processes`
checks.  The mapping follows `previous_id` from the front process to the shell.
`IInv` does not exclude that parents of parents go in a circle, in which the mapping
would say nothing, so the invariant of the second half is `Lines`: from the front of
every terminal a sequence of PIDs (`IsLine`) leads to its shell, each the parent of
the one before.  `LineLength` bounds it by the number of PIDs, `SessionIs` shows that
the mapping is that sequence, `ExecuteStep`, `HaltStep` and `OpenStep` that these
three push, pop and open one session, and `SameLinesStep` that everything else leaves
all sessions alone; `NextRefines` puts them together, and the stutters of Sessions
are the steps that are left.

`DisplayProofs` is for every number of terminals and every `PutC` that maps consoles
to consoles.  `TypeOK`, and that drawings go to where their terminal is kept
(`DrawingsRouted`), hold whatever keys come in the middle of a restore.  `Routed`, and
that Display implements Consoles (`SharingIsInvisible`), are proved for `Calm`.
`DInv` adds what holds before all terminals are up (`Boot`) and, for `Calm`, that
a handler at any stage belongs to the running terminal and has the lock (`Held`).
Each action is shown to print on one console, clear one, show one, or change
none, console by console and part by part (`PutByParts`, `ClearByParts`,
`SameByParts`): the cursor and the text of a console come from different
variables.

`InterruptsProofs` proves `TypeOK` and all that `interrupts` checks, for every number of
terminals, every set of frequencies and every alarm threshold.
`NothingInService` holds whatever the constants; the other three assume
`Undisturbed`, that a compare follows its load, and `rtc_early` shows that they
need it.  The inductive invariant adds to the properties

- `Service`: what is in service is exactly what `serving` says, so that a
  handler that leaves for good has nothing of its own behind it;
- `Compares`: the x87 stack holds one value while the running process is about
  to compare and none otherwise, and that value is positive unless the
  process's own counter is used up;
- `Counters`: a reader's counter is its period less 7 quarters for each
  interrupt waited, for as long as that is positive.

That the counter falls between load and compare does no harm then: the value
that was loaded is the larger one, and the read spins once more.

`SignalsProofs` proves all that `signals` checks, for every set `Custom` of signals
with handlers, every set of results, every depth of nesting and every size of the
frames.  Like the run it assumes that handlers
cause no exceptions (`Quiet`): an exception in a handler opens the mask.  `IInv`
adds to the properties

- `Nesting`: there are at most `MaxDepth` live frames, the first an entry from user
  code and the others interrupts.  While one of them holds the mask none on top of it
  acts on a signal, and none at all acts while a custom handler runs, so that the mask
  of one dispatch is not opened by another;
- `Saved`: what `sig_stackshot` holds is such a stack too, of which nothing holds
  the mask: `sys_sigreturn` may open it, also long after the handler;
- `Exceptional`: where an exception is between the fault and its handler: it waits
  for ENTER or is not signalled yet, or it is pending, or is what one of the live
  dispatches acts on.  The handler that may run meanwhile has the exception handler's
  own frame in its copy, at the step that signals;
- `Results_`: the call under way has its result in its own frame, or in the copy
  of it; when it is the frame that dispatched, in `sig_eax`.

`PushStep`, `BecomesStep` and `PopStep` say what the three ways to change the kernel
stack leave of it; each action has a lemma on top of these.

`TerminalLineProofs` proves the three invariants of `lines`, for all terminals,
characters, buffer sizes and requests.  `IInv` adds to the types, terminal by
terminal,

- `Within`: what has been copied is within what is to be copied, and that within
  the request;
- `Entered`: from `unsize` on the size is 0 or that of a line entered since, so
  that all bytes below it are new, whichever of them `terminal_open` cleared;
- `Undisturbed`: what the buffer, the size and the copy hold at each step of a
  read that no key disturbs.

`ScreenProofs` proves the three invariants of `screen`, for every size of the screen,
the tabs, the line buffer and the paper.  `WindowOnPaper` compares what is on the
screen, and that is not inductive: a scroll brings a row to the screen that was not
there.  `OnPaper` says more, that the paper behind the typewriter is blank, and that
the cursor is where the typewriter is.  `Writes`, `EndsLine` and `Erases` show it for
the three ways in which `putc` changes cells, before the scroll, and `Settles` for the
scroll; `OneChar` is `putc` as a whole, and `Message` and `Backspaces` are `puts` and the
erasure of a line, for messages of every length.  `LineAtCursor` rests on `Spells`:
the characters of the line, each with its number of cells, are on the paper directly
before the typewriter.  It is proved on the paper (`SpellsMore`, `SpellsLess`), where
nothing scrolls, and carried to the screen by `PaperLine`.

`FilesProofs` proves all of `files`, for every image, every size
of the table and of grep's buffer, and every program of Programs, those that make any
calls included.  `ReadData` is the arithmetic of
blocks: the split of offset and index that `read_data` makes is that of their
sum (`Split`, from the uniqueness of quotient and remainder), and no byte comes
from behind the last block.  `IInv` says of each open descriptor (`StreamOf`)
whose entry it is, that its position is the number of bytes or names that it
has delivered, and that those are the first ones.  `ClientTyped`, that the
bytes which grep keeps are a number, is needed because grep asks for what is
left of its buffer.

`CatLsAndFishShow` goes from the line that was typed to what was shown.  `CommandIsSplit`
cuts any line into leading spaces, name, spaces, arguments and trailing spaces and
shows that the scans and the trim of `sys_execute` find exactly these, the empty
ones included.  `ContentsAreBlocks` shows that the two references for a file are one:
its bytes through quotient and remainder, and its blocks one behind the other.
`FInv` adds to `IInv` that the program and its arguments are those of the line
(`Parsed`), and about cat and ls in their loops (`Shows`) that the descriptor is open on
the file named, and that what was shown so far is what it has delivered.  A read that
returns 0 ends the loop, and by `ReadAll` a stream that delivers nothing has
delivered everything.

For fish the invariant is `Draws`.  Places are in the order of a typewriter
(`Earlier`), and characters come in that order (`PlacesOrdered`, from `NextPlace`).
Each of the two descriptors is `InStep` with the row and column: its next character,
or the one it holds, is the one there (`AheadOf`, `HeldOf`), or its line has ended at
or before that column (`PastOf`); and what has been `Drawn` is what the two pictures
have earlier.  `HeldShows` then gives the cell that is drawn, `PastMoves` the next row,
also for a file that has ended and been closed, and at the end of both `EndedBefore`
says that no cell is left.  Three descriptors are needed, and the first two must not be
taken for one another, which is why `Draws` follows the free ones from `main` on.

For grep it is `Greps`, on top of `FInv`.  The reference `Hits` is one part per place
of the text, empty where no line ends or the line does not hold the pattern; what a scan
of the buffer prints (`Matches`) is written the same way, and `Joined` puts the parts of
either one behind the other, so that the two are compared part by part (`MatchesShift`).
`PieceIsLine` says that the piece before a place of the buffer is the line before that
place of the text, as long as the buffer starts where a line does.  `HeldFrom` is that
condition as an invariant: the lines up to some place are searched, a line starts there
or the text ends, and the buffer holds what was read since.  `ScanGoesOn` shows that a
read and its scan keep it, with the hits up to the new place printed: a piece that is
kept goes to the front (`ScannedFacts`), and one that is not is the end of the text, since
a buffer full of no newline would be a line that is too long (`LongLine`).  `Searched`
says of the names before the one that is searched that everything is shown, and of
those behind it nothing, for which the names of an image have to be distinct.
`GrepShowsLines` assumes that `Garbage` has no newline: with one the property is false,
as said below.

`SyserrTestsPass` needs `IInv` alone: in any table of that type a descriptor that is not
open fails, and opening one more than fit fails once and at the last.

## What is only model-checked

- Liveness (`EveryTerminalRuns`, `LineReachesReader`, `ReadReturns`): TLAPS
  handles neither ENABLED nor fairness.
- The three violations, of course, and what TLC shows with other constants: the
  theorems hold under `Quiet`, `Calm` and `Undisturbed`, which the counterexamples
  break.

## Where code and comments differ

Checked by the violation runs: `early_shells`, `exception_status` and
`rtc_early` (see the findings of `PROJECT.json`).

Shown by TLC with another value of a constant, in no run of their own:

- `progress` is no owner's.  An echoed key that comes after the ENTER of a wait and
  before the end of its restore is taken, since `keyboard.c:138` looks at
  `keyboard_wait_flag` only, clears it, and may switch the handler out.  Kernel with
  `locks`' constants and `KeysInRestore = TRUE` violates `ProgressOwned`,
  `CriticalNotPreempted` and, since the handler later puts back a `video_mem` of the
  time before an ALT+F key (`keyboard.c:558`, `exceptions.c:192`), `VideoRouted`: "We map
  the video_mem to actual VRAM if and only if the target terminal ID matches the
  terminal ID of next process" (`scheduler.c:156`).  What is seen on the screen is
  Display's with `KeysInRestore = TRUE`, which violates `ImplementsConsoles`: the key is
  printed on the process manager's page, the terminal on the screen goes on with that
  page as its text, and the handler's `memcpy` (`keyboard.c:553`) later puts the old
  picture over whatever is shown by then.  In `processes`, where `KeysInRestore` is
  TRUE, the processes themselves, their stacks and pages are right all the same.
- `unified_exception_handler` signals the exception (`exceptions.c:175`, `:179`) before
  it puts back `video_mem` (`:192`), with IF = 1.  An interrupt in between kills the
  process there, `video_mem` stays the VRAM, and its terminal goes on printing to the
  screen from the background.  Kernel with `locks`' constants and
  `KillsInRestore = TRUE` violates `VideoRouted`.
- "Save kernel stack" (`signals.c:94`) copies all that is between `ebp` and `tss_esp` to
  `sig_stackshot`, 27 words (`signals.h:68`), with a size of one byte.  A handler that
  starts from an interrupt nested in a system call that waits has two entries to save:
  the copy overwrites `file_descriptor`, and beyond 255 bytes it is cut.  Signals
  with `signals`' constants violates `StackshotFits`; `CallsReturnTheirs` says what
  holds until an overrun descriptor or a cut copy is used.
- `progress` is a flag and not a count.  An echoed key that falls into a `sys_halt` that runs
  with IF = 1 (after an exception, or under the process manager) clears it
  (`keyboard.c:505`); a PIT tick then switches the halting process out, whose
  PID is free already and may be given to another.  Kernel with
  `KeysInHalt = TRUE` violates `FreePidsUnused`.
- An exception inside a custom handler lowers the mask (`exceptions.c:172`), so
  a second handler starts over the saved context of the first, although
  `sig_dispatch` exits "if it is handling".  Signals with
  `HandlerFaults = TRUE` violates `HandlersDoNotNest`.
- `grep` decides whether it keeps the end of its buffer by `data[last]`
  (`ece391grep.c:33`), a byte past what it has read.  If that byte of its stack
  happens to be a newline, a line that two reads deliver is searched in two
  pieces.  Programs with `Garbage = {"nl"}` violates `PatternsShown`; without a
  newline in `Garbage` it is proved (`GrepShowsLines`).

Shown by the model itself, as behaviour that its properties allow:

- `sys_vidmap` maps the page only if the caller's terminal is on the screen
  (`syscalls.c:662`); in the background it returns success with no page.  The
  second part of `VidmapOwned` shows that the switch that brings its terminal to
  the screen makes up for it.
- A custom handler may run twice for one signal: an interrupt between the two
  steps of a `sig_dispatch` with IF = 1 dispatches the signal that the outer one
  has read already (`signals.c:54`).
- What arrives while a default handler runs is dropped, also when no signal was
  pending: `sig_dispatch` masks the line for NULLSIG too (`signals.c:138`).

Met while modelling and described here only:

- `echo` is not reset when a reader is killed (`syscalls.c:535`), so a later
  RTC read does not decline it as the notes of `sys_read` say.  `ReaderEchoes` is about
  the other direction, that a reader has its echo, and would not catch it; nor does
  the refinement of Sessions, which says nothing of echo.
- ALT+F2 before the second terminal has come up shows it while its new shell
  prints to the backup page (`scheduler.c:159`).
- A tab that wraps at the last row leaves the cursor in column 0 after the
  scroll, and erasing it eats the row above (`lib.c:351`); CTRL+S, CTRL+V, CTRL+C and
  the report of an exception in the middle of a line keep it in the buffer below
  their message.  With
  `Events = {"bottom_tab"}` or `{"message"}` TLC shows `LineAtCursor` violated.
- `terminal_read` takes the minimum twice (`terminal.c:86`, `:88`); a second
  ENTER in between makes the result the length of another line.
- `terminal_open` clears `sizeof(KEYBOARD_BUFFER_SIZE)` = 4 bytes of the
  buffer; `NothingStale` shows that no read notices.
- A second ENTER before the first line has been read overwrites it (BUG 37).
- `check_executable` ignores how much `read_data` returned: for `.` and `rtc`,
  whose inode 0 is empty in the shipped image, it compares what is on the
  stack.  FileDescriptors models that stack as arbitrary.
- The kernel's 4 MB page is opened to user code by a custom handler and closed by
  its return (`signals.c:127`, `syscalls.c:700`), for all processes at once: of
  two handlers on two terminals the second to end finds it closed and faults.
- An interrupt nested in kernel code has no user ESP on its frame, yet the linkage
  collects one for the handler to run on.

## What is not modelled

- That `rtc_read` ends: Interrupts has the counters without fairness, Kernel
  lets a spin in `rtc_read` end at any time, and Signals lets an alarm arrive at
  any time.
- The overflow of the x87 stack, and x87 code of user programs.
- An interrupt inside a `putc` that runs with IF = 1, or inside the `memcpy` of a
  restore.
- A second process manager on the same kernel stack, in the instructions that a
  handler has left after it has cleared `progress`.
- A handler for a negative signal: `sys_set_handler` refuses numbers above 4 only, and
  writes in front of the table.
- The order of the initialisers in `kernel.c`; keys before the first shell.
- Page tables as data; Kernel has which page is mapped, not how.
- Scancodes and modifiers, colours, printf, the text of messages, sound.  The
  name of a command is cut at the length of a PCB's `command`, which only messages
  and the process manager show.
- GDT and TSS set-up, the descriptors of the IDT, multiboot: static tables.
- Of the user programs: the blinking of fish, which needs the RTC's time, hello,
  counter, pingpong, sigtest (Signals lets a program do all that it does), and the
  tests of `ece391syserr.c` about vidmap and call numbers, which are one check
  each.  `ece391emulate.c` runs programs on a host.  `tests.c`; the host tools.

## The plan

Done in this order, the most important behaviour first: Kernel with its
invariants and proofs; Sessions and the refinement; Display, Consoles and their
proofs; Screen; TerminalLine and its proofs; FileSystem, FileDescriptors and
their proofs; Signals and its proofs; Interrupts and its proofs; Commands and
Programs; dispatches that are interrupted; drawing through the vidmap page; the
proofs of the refinement of Sessions, of Screen, and of cat, ls, fish and grep from the
line typed to what they show.

Next:

1. *Interrupts*: liveness, that a read ends and that an alarm comes once per
   period, on a model without the x87 stack so that it stays small; the
   frequency of a descriptor together with the read that divides by it.
2. *Signals*: two processes, so that the US bit of the kernel's page comes in.
3. *Boot*: from the first `sti` on, with keys, ticks and alarms before the
   first shell and before each terminal's.
4. *Paging*: the two directories that change (program, vidmap), and the TLB as a
   cache that a missed flush leaves stale.

Runs to come share the configurations above where they can: a module of the
plan takes over the run of the module that it extends.
