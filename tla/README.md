# A TLA+ verification of the hieunix kernel

hieunix is a small x86 teaching kernel: one processor, three terminals, at most
six processes, a read-only file system, a keyboard, a mouse, a real-time clock.
The code is `src/student-distrib`. This directory holds TLA+ models of its
parts, TLC configurations that check them, and proofs checked by TLAPS.
The user programs in
`src/syscalls` are clients of the kernel; those that lean on it most are modelled too.
`PROJECT.json` lists runs, properties, mutants, theorems, findings, hazards, and
the source lines behind every definition.

## 1. The system

| Part | State | Operations | Hard because | Must hold |
|---|---|---|---|---|
| Processes: `execute`, `halt` (`syscalls.c`) | PCB table, PCB fields, kernel stacks, `tss.esp0` | `execute`, `halt`, `vidmap`, exception handlers | `halt` runs with interrupts on; the terminal on the screen changes between two system calls | address space and kernel stack fit the running program; no PCB or page is lost; `execute` returns when its child ends, with its status |
| Pages (`page.c`) | taken flags, the 128 MB entry, the video page | `add_prog_page`, `set_prog_page`, `free_prog_page`, `set_video_page` | `execute` fails after it has reserved a page | the mapped page is reserved |
| Scheduler (`sched.c`) | run queue `term_curr_pcb` | `do_handle_pit` | interrupts anything with interrupts on | every terminal runs again and again |
| Terminal switch (`lib.c`) | `current_active_terminal` | `change_video_mem` | races with calls that read it | no step of the kernel leaves the screen mapped for a background program |
| Line input (`terminal.c`) | a line per terminal, one Enter buffer and flags, modifiers | keyboard handler, `terminal_read`, `clear_buffer` | the handler interrupts `terminal_read` and `clear_buffer` between any two bytes | a read returns the line of its own terminal, once; and does return |
| Real-time clock (`rtc.c`), mask of line 8 (`i8259.c`) | chip registers behind an index port, interrupt mask, one flag | `rtc_open`, `rtc_write`, `rtc_read`, `rtc_close`, handler | two port accesses per register; the flag is shared | the rate asked for is set; the interrupt stays unmasked; a reader is released |
| Directory (`fs.c`) | `dir_buf`, `dir_length`, positions | `dir_open`, `dir_read`, `dir_close` | one buffer for all processes, rewritten with interrupts on | a listing has the names, in order, once |
| Files and descriptors (`fs.c`, `syscalls.c`) | descriptor table of a PCB, positions | `open`, `close`, `read`, `write`, `initialize_pcb` | block boundaries; tables reused by the next program | bytes in order, once; no descriptor inherited |
| Console output (`lib.c`) | screen, a page and a cursor per terminal | `putc`, `terminal_putc`, `scroll_up`, `put_backspace`, `clear` | programs write with interrupts on, also in the background | the screen shows the page of its terminal; nothing is lost, left over, or written by another |
| Mouse (`mouse.c`) | packet phase, pointer, selection, marked cells | `mouse_init`, handler, `draw`, `select` | three interrupts make a packet; keyboard and mouse share one port; signed bytes | handler and mouse agree where a packet begins; the pointer follows the movements; a drag shows what is selected |
| Interrupt controller (`i8259.c`) | masks of two chips, requests, lines in service | `enable_irq`, `disable_irq`, `send_eoi` | the mask variable is changed and sent in two steps, by system calls and handlers | no device waits for ever; mask and variable agree |
| Commands (`syscalls.c`, `ece391shell.c`) | the shell's line, argument buffer of a PCB | `parse`, `getargs`, status of `halt` | a buffer reused by the next program; eight bits of a status | arguments are what was typed; only a missing command is reported missing |
| User programs (`src/syscalls`) | descriptors, a buffer carried from read to read | `ls`, `cat`, `grep`, `syserr` | lines that lie across reads; descriptors left open | all of a file is shown, every line found once, the tests pass |
| Strings and numbers (`lib.c`, `ece391support.c`) | none | `memcpy`, `memmove`, `memset`, `strncpy`, `strncmp`, `itoa`, `printf`, ... | alignment, overlap, extreme numbers | writes go exactly where they should; equal strings compare equal; numbers show their value |

Parts meet as follows. System calls enter through `syscall_entry.S` and run with
interrupts enabled, except for `execute`, which starts with `cli`. Interrupt
handlers are behind interrupt gates and run to their end. So a handler is one
step of a model, and a system call is cut at every point where an interrupt in
between can be noticed. The timer handler switches kernel stacks, so any two
system calls of different terminals interleave. Shared state is what the table
names: the run queue, `current_active_terminal`, `enter_buffer`, `dir_buf`, the
clock's index port and its flag, the masks of the interrupt controllers, the
keyboard controller's output buffer.

## 2. Modules

| Module | Models |
|---|---|
| `Kernel` | processes, pages, scheduler, terminal switch, exceptions |
| `Sessions` | abstract: every terminal has a stack of programs, each waiting for the one it called |
| `Terminal` | keyboard, click, `terminal_read`, `clear_buffer` |
| `Pic` | both interrupt controllers and `i8259.c`, as operators |
| `Rtc` | clock driver and chip, over `Pic` |
| `Mouse` | mouse driver, boot of the mouse, the keyboard controller, what the keyboard handler does to the mouse's marks, over `Pic` |
| `Directory` | `dir_open` and `dir_read` of several processes |
| `Image` | the file system image: `read_dentry_by_name`, `read_data` |
| `Files` | descriptor table and the calls on it, over `Image` |
| `Programs` | `ls`, `cat`, `grep`, `syserr`, over `Files` and `Strings` |
| `Command` | shell loop, `parse`, `getargs`, `halt`'s status |
| `Strings` | string, memory and number routines as operators |
| `StringCalls` | calls of `Strings` against what callers rely on |
| `Screen` | console output, the copying of a terminal switch |
| `MCKernel`, `MCTerminal`, `MCRtc`, `MCDirectory`, `MCScreen` | instances for TLC |
| `MCDevices` | instances of `Mouse` and `Rtc`: a behaviour is one of either |
| `MCFileSystem` | `Files` and `Programs` on one descriptor table and one image, and instances of `Directory`, `Command` and `StringCalls`, which share no state: a behaviour is one of them |
| `KernelProofs`, `TerminalProofs`, `DevicesProofs`, `FilesProofs`, `ProgramsProofs`, `FileSystemProofs`, `ScreenProofs` | theorems |
| `LoopLemmas` | induction and recursion, for the proofs about loops |

Definitions have the names of the functions they model. A definition marked
`MUTANT` (or `Mutant`) is a deliberately wrong version of the one after it; it
is part of no specification and exists to show that a property can fail.

**Kernel.** A slot is a PCB with the kernel stack in the same 8 KB. `run` is the
slot the stack pointer is in, which is what `get_pcb` computes; `pc[s]` is where
slot `s` resumes. `execute` is one action (it runs under `cli` to its `iret`).
`halt` is cut into its critical section, freeing the page, mapping the parent's,
releasing the PCB, storing the status, and jumping to `ret_here`; a root's halt
ends by executing a new shell. `Lost` stands for a processor on a stack without
a valid frame, and for the loop in which an exception handler stops when `halt`
returns to it: it appears only in the racing runs.

*Specifications.* `Spec` allows everything. Two races in the code break the
process structure, and each has an environment condition that excludes it:
`HaltUninterrupted` (no interrupt inside `halt`) and `Foreground` (a program
calls `execute` while its terminal is on the screen; so does a terminal's first
process that ends, by `halt` or by an exception, because `halt` then calls
`execute("shell")` on its stack). No condition restricts `vidmap`: a background
program may map the screen, as `syscalls.c:655` lets it. `CalmSpec` has both
conditions; `PreemptSpec` and `BackgroundSpec` drop one each. In all three the
debug exception, whose handler stops the machine, is left out.

**Terminal.** The keyboard handler is one action per branch. `terminal_read`
copies a byte per step, of a line and of the row that a click submits, and so
does `clear_buffer`. `RowLength` is the row's 32 bytes. `sent` and `typed` are
history. `KeyboardSpec` leaves out the mouse. `PacedSpec` is a user who presses
keys while no program is inside a read or clear that the key would disturb, and
presses Enter only when no other terminal's line is unread; `UnreadSpec` drops
this last clause.

**Pic.** A pair of controllers is a record of sets of lines: the driver's mask
variables, what the chips were told, latched requests, requests in service.
`CanDeliver` has the priorities with the slave's lines at line 2's place.

**Rtc.** The chip is external and is modelled as the driver uses it: an index
register, A and B as bytes, C as the pending flag that a read clears and without
which there is no further interrupt. The table `Code` lists the accesses of
`rtc_open` and `rtc_write`: those to a port and those to the mask variable, which
`disable_irq` and `enable_irq` change first and send afterwards. Handlers of the
clock and of the mouse run in between. `Spec` allows every interleaving;
`SerialSpec` has one process at a time inside `rtc_open` and `rtc_write` and one
waiting in `rtc_read`; `TimelySpec` moreover has no clock interrupt between the
two halves of `disable_irq`. Frequencies are accepted and set as the code does,
by their first byte, and `asked`, which is history, has the frequency itself.

**Mouse.** Keyboard, mouse and the controller's own answers share one output
buffer, and a byte raises line 1 or 12 as the configuration byte says. Boot polls
(`command`, `mouse_read`) with interrupts off and the mouse reports as soon as it
is told to. An interrupt's acknowledgement and its handler's body are two steps.
The handler throws the first byte away (`mouse_cycle` 0), then takes three to a
packet. `lit` is the set of cells with the mouse's attribute. A terminal switch
may end in `execute`, which leaves the keyboard handler behind (`suspended`)
until the timer returns to it (`resume_handler`). `ideal` is history: where the
movements lead. `regular` is history too: no byte came before the first
interrupt and no movement was too large for a byte; the properties are about
regular behaviours, and the model follows irregular ones until the driver
has gone astray.

**Directory.** A step is one `strncpy`, one run of the clearing loop, one update
of `dir_length`, one byte of `dir_read` or one test for the end. `SerialSpec`
lets nobody call `dir_open` while another process is inside `dir_open` or
`dir_read`; reads overlap freely, and positions survive another's `dir_open`.

**Files.** The table is the process's own, so calls are atomic. Programs follow
each other in one PCB: `halt` closes nothing and `initialize_pcb` resets.
`read_data` is the loop of the code as a recursive function; positions are taken
modulo `WORD` because a failed read adds -1 to an unsigned number.

**Programs.** Each program is a sequence of system calls of `Files` with its tests
in between; several programs run one after another in one control block. `grep`
keeps the code's buffer: the rest of a line is moved to the front, `ece391_strcpy`
and `ece391_strncmp` are those of `Strings`, and the byte behind the buffer, which
the code tests and never writes, is any of `Residues`. A program's write follows
its read in the same step, since nothing else touches what is written.

**Command.** A line is a sequence of characters, with its newline unless it filled
the buffer. `execute` keeps `MAX_BUFFER_SIZE` characters of it, `parse` writes the
argument buffer over what an earlier program left there, `getargs` clears the
program's buffer and copies. Whether a program is loaded, and into which control
block, is `Kernel`'s matter: here `execute_error` may always happen.

**Strings, StringCalls.** A memory is a function from addresses to bytes. `memcpy`
is cut as the code is, into bytes up to an aligned address, words, and the
remaining bytes, and each part copies forward; numbers are modulo `UINT`.
`printf` is a scan over the format with the code's states. `StringCalls` is no
model of code but a client: each action is a call, on any range, and the memory
the call found is kept for comparison.

**Screen.** Video memory is one array as in the machine, the screen first and a
page per terminal behind it, so that an index out of a page falls where it would
fall. Handlers are one step each and operate on a record of memory and cursors;
`terminal_putc` and the `scroll_up` it calls are cut between their accesses: a
newline is the row, the test with the scroll, and the column, each a step of its
own (`putc_newline`, `newline_row`, `newline_column`). Only the cursor's advance
behind a character is one step. The count of the
input line is emptied by `halt`, whatever made the program end (`clear_buffer`),
and by a `terminal_read` that is given a clicked row (`read_row`).
`expected` is history: an ideal terminal, made of rows of characters, that is
fed with the same characters and keys. A program may fault, which shows a message
on a cleared screen, or, after a page fault, whose handler clears nothing, behind
what is there. `Spec` allows everything. `CalmSpec`
has four conditions, each of which excludes one way in which the code goes
wrong: handlers write while the shown terminal's program is outside
`terminal_putc` (`Quiet`), nobody backs out of the top left corner (`Corner`),
nobody switches during a scroll (`StillSwitch`), and programs in the background
do not reach the last row (`ShownCall`). `BackgroundSpec` drops the last.

## 3. What TLC checks

| Run | Instance | Shows |
|---|---|---|
| `kernel_calm` | 3 terminals, 3 PCBs, `FairCalmSpec` | types, `MappedPageReserved`, `AddressSpace`, `RunQueue`, `NoLeak`, `NoWaitCycle`, `BackgroundOffScreen`, `ExecuteReturns`; refinement of `Sessions`; the round-robin reaches every terminal |
| `terminal_any` | 1 terminal, buffer 2, clicks | types; a read returns |
| `terminal_paced` | 2 terminals, buffer 2, reads of 1 and 3 | a read returns, wherever the screen has gone, with its own terminal's line; no remains of an earlier line |
| `devices`: mouse | a screen of 2 by 2, 2 terminals, movements right and down, left and up, too small, and one too large: for eight bits in one direction, for nine in the other | `PacketsInStep`, `PointerFollows`, `DrawsSelection`; bytes are taken from the controller (`BytesTaken`) |
| `devices`: clock | 2 processes asking for 3 Hz (illegal), 8, 260 (looked at as 4) and 512 (legal, refused), `TimelySpec` | `LineOpen`, `RateHonoured`, `StoreHitsRegister`; a reader returns while others reprogram the clock |
| `file_system`: files | 5 descriptors; an image of 63 texts, a file over 3 blocks that are not in order, a damaged file | `DescriptorsAreOpened`; `ReadsConsecutive` |
| `file_system`: listing | 2 processes, 3 names of 2 bytes, room for 4, `SerialSpec` | `ListedInOrder`; `FitsUpToHalf`: the third round of `dir_open` clears behind the buffer, the first two do not |
| `file_system`: session | all 63 texts of letters and newlines of up to 5 bytes, buffers of 4, 2 patterns, 3 residues | `PrintsWhole`, `LinesFound`, `SelfTestsPass` |
| `file_system`: command | lines of 2 letters and blanks, buffers of 5, getargs of 1, 3 and 7 | `ArgumentsArrive`, `MissingReported` |
| `file_system`: library | memories of 10 bytes, every range; every number of 8 bits in every conversion | `WritesExactly`, `ComparesAsStrings`, `FormatsInOrder` |
| `screen_calm` | 2 terminals of 2 rows and 2 columns, lines of 2 | types (a cursor stays on the screen), `Mirror`, `Faithful` |

The bounds are chosen for the cases: two terminals are needed for a background
one, three for a round that skips one; three PCBs for a parent, a child and a
process elsewhere, or a chain of three; a buffer of two bytes has an empty, a
partial and a full line, and reads of one and three are shorter and longer than
it; blocks of two bytes and reads of up to three meet every boundary; of the
frequencies two are rejected, one of them legal, and one is set as another; a screen of 2 by 2 has a pointer at every edge; memories of ten bytes have a
range with a lead, a word and a rest at every alignment; texts of five bytes and
buffers of four have lines that end before, at and behind the buffer's end, and
lines that take two reads; two rows and columns have a wrap, a scroll and both
at once, and the half row behind a page stands for the code's 48 cells. Keys that
race with `clear_buffer`, and the races of `Kernel`, are left to the proofs of
`TailClear`, `TypeOK` and `MappedPageReserved`, which need none of the
conditions of these runs. `TypeOK`'s range of a cursor has one row and one column
behind the screen: those are what a newline and a character leave until the
scroll they call for is over.

Six runs show the code against one of its comments (`findings` in
`PROJECT.json` quotes them):

| Run | What the code does |
|---|---|
| `kernel_preempted_halt` | a terminal's first shell halts; Alt+Fn, behind the end of `halt`'s critical section, starts the other terminal's shell on the halting process's stack; no queue holds that process any more and its PCB stays taken |
| `kernel_background_execute` | `execute` of a background program attaches the child to the terminal on the screen and returns before the child ends |
| `terminal_crossed_lines` | Enter on a second terminal overwrites a line that is not yet read |
| `screen_background_scroll` | scrolling a terminal that is not shown leaves its last row and blanks a cell elsewhere |
| `rtc_lost_mask` | in `rtc_open`, a clock interrupt between the halves of `disable_irq` takes the mask away; the next one selects register C just before the last `outb`, which C ignores: `rtc_open` returns 0 and the clock runs at 1024 Hz, not at 2 |
| `directory_race` | `dir_open` resets `dir_length` under a listing of another process, which ends early |

The same races have other outcomes, which the models contain and these traces do
not show: a tick inside `halt` may resume the queued parent, or `rtc_write` may
lose its store, or a name may go to the wrong place in the list.

The models also contain the following, which the properties are worded around
and no run singles out:

* an exception's status 256 becomes 0 (`syscalls.c:282`; `ExecuteReturns` says
  modulo 256), so the shell never says "program terminated by exception"
  (`ece391shell.c:29`; `Command!halt`);
* `vidmap` maps the screen for a program in the background as well
  (`syscalls.c:655`), which has it until the next interrupt
  (`BackgroundOffScreen` names `vidmap` as the one step that may do so);
* when the `execute("shell")` of a root's `halt` fails, `halt` returns: to the
  program that called it, or to the exception handler, which stops the machine
  (`x86_idt.S:81`; `halt_returns`);
* a key pressed while `mouse_init` waits for the configuration byte is taken for
  it and written back (`mouse.c:46`), after which the keyboard may raise no more
  interrupts; the handler drops the byte of the first interrupt, whatever it is
  (`mouse.c:147`), and a key before it shifts all packets; a movement beyond a
  signed byte is read with the wrong sign; all three are the irregular behaviours;
* moving the pointer unmarks its old cell without asking whether the selection
  marked it, so cells may stay marked or lose their mark (`mouse.c:218`;
  `DrawsSelection` is about a drag from a clean screen);
* `memmove` to a higher address leaves the direction flag set (`lib.c:601`); the
  other string instructions of `lib.c` clear it first;
* `grep` shows nothing of the last file, since the directory's last name is lost,
  and splits a line at its buffer's end if the byte behind the buffer happens to
  be a newline (`ece391grep.c:33`; `LinesFound` names the residue);
* a `printf` format that ends in `%` is read on behind its NUL (`lib.c:121`), which
  no caller's does; the model's formats do not either;
* `terminal_read` writes and returns up to `nbytes + 1` bytes (`terminal.c:498`);
* backspace on an empty line clears the last byte of the previous terminal's
  line (`terminal.c:305`), on terminal 0 a byte of the padding that the shipped
  image has in front of the lines;
* a rejected `rtc_write` leaves IRQ 8 masked (`rtc.c:160`; `LineOpen` and
  `ReadReturns` name the exception), and 256, 512 and 1024 Hz are rejected
  because one byte is looked at (`rtc.c:151`);
* two processes programming the clock select each other's register, and two
  waiting take each other's tick: outside `SerialSpec`;
* the `dir_read` that copies the last name returns 0, so `ls` does not show it
  (`fs.c:206`), although `fs.c:135` and `fs.c:181` promise all names.
  `ListedInOrder` and `PrintsWhole` accept a listing with and without the last
  name, so they hold of this code and would hold of a corrected one;
* the loop that pads a name in `dir_buf` clears later bytes, behind `dir_buf` with
  more than 31 files (`fs.c:163`; `FitsUpToHalf` says exactly from which round
  on; what lies there is not modelled);
* a name of 32 bytes is copied with its NUL into a field of 32 (`fs.c:321`;
  `Directory!copy_name`);
* a failed `file_read` moves the position by -1 (`fs.c:93`);
* a switch between the two `memmove`s of `scroll_up` scrolls the screen twice
  (`lib.c:637`), a key echoed inside `terminal_putc` of the same terminal is
  overwritten (`lib.c:302`), and Backspace in the top left corner, which is
  reached because an exception other than a page fault clears the screen and not
  the line, takes the cursor off the screen (`lib.c:351`).

### Fairness

* `kernel_calm`: weak fairness of the steps of `halt` and of the boot shell, as
  the processor goes on executing; strong fairness of the timer, because the
  8259 keeps the request pending while interrupts are off.
* `terminal_any`, `terminal_paced`: weak fairness of each program's next step
  inside `terminal_read`. The scheduler is round-robin, which is what
  `EveryTerminalRuns` of `kernel_calm` shows.
* `devices`, clock: weak fairness of the chip's tick and of each process's next
  step, strong fairness of the handler, because the request stays latched while
  the line is masked and the process that masks it goes on. Nothing is assumed
  about processes beginning a call.
* `devices`, mouse: weak fairness of boot's next step, of the controller handing
  over a byte it has, of the acknowledgement of each line, and of a handler that
  was acknowledged. Nothing is assumed about keys, movements, or a suspended
  handler coming back.

## 4. What is proved

All theorems hold for every value of the constants under the `ASSUME`s of the
modules, which TLC evaluates on every instance:

* counts are positive, sentinels differ from what they stand beside;
* `StringsAssumption`: a number has as many hexadecimal digits as fit its width,
  `UINT` being a power of 16, 16^8 in the code;
* `FilesAssumption`: the image is well formed, that is, a file's entry has an
  inode, an inode has blocks for its length, positions and lengths are unsigned;
* `InstancesAssumption`: there are names, the first of them shorter than its field,
  and at most as many as `dir_buf` has room for, which is `NamesFit`;
  buffers are not empty, blank and NUL are not letters; every memory of the
  library's instance is made of bytes and ends in a NUL, and fills are numbers;
  formats are well formed (`FormatsWellFormed`): no character between two
  conversions is a `%`, which would begin another conversion, arguments shown as
  numbers fit the machine's width, and the address of a string is one of the memory;
* `ProgramsAssumption`: the directory begins with its own name, the names that the
  tests expect to be missing are, patterns are not empty and have no newline and no
  NUL, which a command line cannot hand over, and `grep`'s buffer is not empty;
* `MouseAssumption`: a screen of at most 96 columns and rows and movements of nine
  bits, as the mouse reports them; the code's screen is 80 by 25;
* `FrequenciesAssumption`: frequencies are numbers, accepted or not;
* `RowAssumption`: the row a click submits is not empty and fits the Enter buffer;
* `ScreenAssumption`: a page has room for the screen, and a newline is neither a
  blank nor a printed character.

Each theorem rests on an inductive invariant, whose parts TLC checked on the
instance of the run first.

* `KernelProofs!TypeCorrect`, `MappedPageStaysReserved`: for `Spec`, with every
  race. The invariant `TypeInv` adds to the types that a page which is mapped is
  marked.
* `KernelProofs`, for `CalmSpec`: `AddressSpace`, `RunQueue`, `NoLeak`,
  `BackgroundOffScreen`, `ExecuteReturns` and `NoWaitCycle` from `CalmInv`. It
  is needed because each property depends on the others: that `halt` restores
  the right stack needs that a parent is live, inside `execute`, on the same
  terminal and has one child (`InvFamily`), which needs that processes in user
  mode are exactly the run queue's (`InvQueue`), which needs to know what each
  step of `halt` has already undone (`InvHalt`). `NoWaitCycle` follows because
  `execute` takes an unused PCB: a new process is nobody's parent.
* `KernelProofs!KernelImplementsSessions`: each step of `CalmSpec` maps
  to a step of `Sessions` or to none. A process inside `halt` counts as live
  until the jump, when its caller resumes.
* `TerminalProofs`: types for `Spec`, and `TailClear` for `KeyboardSpec`. The
  invariant follows `clear_buffer`'s index, since keys arrive between its bytes.
* `TerminalProofs!ReadOwnLineHolds`: `PacedInv` says that the shared buffer
  belongs to at most one terminal (`HeldOnce`), holds that terminal's line
  padded with NULs, and that a read's copied bytes are its first ones.
* `DevicesProofs`, the clock under `TimelySpec`: `LineOpen`, `RateHonoured` and
  `StoreHitsRegister` from `ClockInv`. One process is inside `rtc_open` or
  `rtc_write`. The invariant says of each place in them what that process may
  rely on: from where to where the line is masked in the variable and where on
  the chip, which register is selected, whether the byte it carries is still the
  register's. The handler of the mouse writes the slave's mask at any of these
  places; it does no harm because mask and chip differ in line 8 only.
* `DevicesProofs`, the mouse: types of both devices, `PacketsInStep`, `PointerFollows` and
  `DrawsSelection` from `MouseInv`. The handler never asks whose byte it reads.
  That it is the mouse's needs that boot leaves one byte's interrupt behind and no
  byte (`BootOK`, `FirstOK`), and then, while a packet arrives, that the
  output buffer, the queue, the latched lines and the phase agree. `PointerFollows`
  adds that the bytes still on their way, the byte the handler has kept and the
  pointer together make up the movement. All are stated
  for `DevicesSpec`, which is what the run checks.
* `FilesProofs!DescriptorsAreOpenedHolds`: the invariant adds the shape of the
  table and that no descriptor below 2 counts as opened. What `read_data`
  returns is left open.
* `FilesProofs!ReadsConsecutiveHolds`: `read_data` returns the bytes of the file
  from the position on, by induction over the bytes it has copied, which keep
  block and offset at the next byte. The
  property, and the proof, leave out files with a damaged block (`Sound`), whose
  failed reads move the position.
* `FileSystemProofs!ListedInOrderHolds`, `FitsUpToHalfHolds`: `dir_open` writes names
  side by side and clears what is behind each, as far as the names so far are
  long, so that round k ends at twice k names and leaves a buffer with room for
  fewer; `ListingInv` says how far the
  buffer is the list of names at each place of `dir_open`, and that what a
  `dir_read` has copied is the piece of the list at its position.
* `FileSystemProofs!ArgumentsArriveHolds`, `MissingReportedHolds`: `CommandInv` says
  that while a program runs the control block has the argument `parse` cut out
  of the line, with its NUL, whatever an earlier program left behind it, and whether
  `getargs` has been asked. `ArgumentsArrive` says both what a program gets and when
  it is refused: just if nothing was typed behind the name, or its buffer is not
  longer than that. Eight bits are never -1, so only a missing command is reported missing.
* `ProgramsProofs!PrintsWholeHolds`, `SelfTestsPassHolds`: `SessionInv` says at each place
  of `ls`, `cat` and `syserr` which descriptors are open, on what and at which
  position, and that what has been written is what lies before that position.
  `cat` shows all of a sound file and `ls` the names in order, with at most the last
  one missing (the code leaves it out); every test of
  `syserr` gets the answer it expects, whatever ran before it in the same control
  block. For `grep` it has `SearchOK`: what is
  carried over to the next read fits the buffer, so that the read asks for no
  negative number of bytes.
* `ProgramsProofs!LinesFoundHolds`: `GrepOK` is invariant beside `SessionInv`
  (`SearchInvariant`). Between two reads (`Progress`) what is carried in the buffer
  is the piece of the file in front of the position, it begins a line, and what has
  been shown is every line with the pattern that ends before it. Within one
  buffer the invariant is `Waiting`: which line of the file begins at the place
  reached, and that the buffer still agrees with the file from there on.
  `SearchRounds` lets the code's loop be followed a line at a time, and a
  line's search by `ece391_strncmp` finds the pattern just if the line has it. The
  theorem is about sound files that have no NUL, whose lines fit the buffer with
  their newline, and the residue behind the buffer is no newline; without
  the last condition it is false, as section 3 says.
* `FileSystemProofs!DescriptorsOfPrograms`, `ReadsOfPrograms`, `PrintsOfPrograms`,
  `LinesOfPrograms`, `TestsOfPrograms`, `TypesOKHolds`: the same for `FileSystemSpec`, in which calls come
  either from a program or in any order (`TableInv`), which is what the run checks.
* `FileSystemProofs!WritesExactlyHolds`: after any call (`LibraryInv`), the bytes of
  the range are what the caller relies on and all others are as before. Each loop is
  by induction over the bytes it has moved: a forward loop never reads what it has
  overwritten if the ranges are apart or the target lies in front (`ForwardMoves`),
  a backward one if it lies behind (`BackwardMoves`); words are moved as their four bytes
  (`WordsMove`); and the lengths of `memcpy`'s three loops add up to the call's.
* `FileSystemProofs!ComparesAsStringsHolds`: `strncmp` returns 0 just if the strings are
  equal as far as they are compared, because the place where it stops lies behind
  neither string's end (`FirstStop`).
* `FileSystemProofs!FormatsInOrderHolds`: numbers and formats. `itoa` divides until
  nothing is left (`LowFirst`) and turns the digits round; by induction over the
  digits these are the quotients by powers of the base (`LowFirstDigits`), so
  that they make up `Numeral`, in every base from 2 on. `PaddedHex` adds zeros up to
  `HEX_DIGITS` because a number is below 16^`HEX_DIGITS`; the least negative number
  is its own counterpart, which is shown right because it is taken as an unsigned one. `printf`
  is a fold over the characters of the format (`Scanned`), and the proof goes over
  the format's pieces: behind the text of a piece the scan is between conversions,
  has used this piece's argument and no other, and has added what it shows
  (`PieceReached`).
* `ScreenProofs`: `TypeOK`, `Mirror` and `Faithful` for `CalmSpec` from `ScreenInv`.
  `Placed(t)` says, for each place of a program in `terminal_putc` and
  `scroll_up`, how far its terminal's page is behind the ideal terminal (a
  character not yet stored, a row not yet moved, a cell of the last row not yet
  blanked), and `Seen` how far the screen is behind the page. The messages of
  exceptions, of any length, and the blanking of a row are by induction.

Induction over data. An induction rule takes a predicate as a parameter, which the
provers cannot instantiate. `LoopLemmas` states it about sets instead:
`AllNat` says that a set with 0 that is closed under adding 1 contains the
naturals, and `Recursion` that a function defined by recursion exists. Both
follow from `LeastNat`, which is the well-foundedness of the naturals. A loop of
the code is a recursive function in the model, so that these lemmas apply to it.

Only model-checked:

* the liveness properties (`ReadReturns`, `BytesTaken`, `EveryTerminalRuns` and
  their like), for which TLAPS has no means to reason about fairness;
* the specifications with fewer conditions than the theorems name
  (`UnreadSpec`, `BackgroundSpec` and the like), whose violations the runs show.

## 5. What is not modelled

* Of boot, the tables: segment descriptors, the IDT, the multiboot header
  (`x86_desc.S`, `x86_desc.h`, `boot.S`) are constant data. What `entry`
  initializes is the initial state of `Kernel`, `Mouse` and `Rtc`.
* The range check on a system call's number and the registers that
  `syscall_entry.S` saves.
* `run_prog` of the mouse is the click of `Terminal`; which text a click selects is
  not followed there.
* `hello`, `testprint`, `counter`, `pingpong` and `fish` only print or draw;
  `sigtest` uses signals, which the kernel refuses; `ece391emulate.c` runs system
  calls under Linux.
* `debug.c` is not called, `temp/` holds superseded copies that are not compiled,
  and the host tools are binaries.
* Strings longer than a buffer given to `execute` by a program other than the
  shell, which `parse` copies without a bound.

`PROJECT.json` gives the reason for each.

## 6. Plan

Every invariant and action property that a passing run checks is stated by a
theorem. What would come next:

1. The part of `Mirror` and of the cursor's range that survives in
   `BackgroundSpec`.
2. One module of `Terminal` and `Screen` together, so that the hazards that no
   property covers yet (`PROJECT.json`) can be stated across both.
