# Verification of `2025_systemprogramming`

The repository is the work of a systems programming course: nine labs of C
programs, one of which (lab 3) is the xv6 kernel for RISC-V with two system
calls added. This directory holds TLA+ models of the parts whose correctness
depends on order (locks, sleeping and waking, traps, process life and death,
crashes, shared rings, memory that runs out), TLC configurations that check them on small instances, and
proofs, checked by TLAPS, of the most important properties for every size.

`PROJECT.json` lists the components, the runs, the mutants that each property
is shown to catch, the source lines behind every definition, the findings, the
hazards and the theorems.

## The system

| part | state | operations | interacts with | what is hard |
|---|---|---|---|---|
| xv6 scheduler, spin and sleep locks (`proc.c`, `spinlock.c`, `sleeplock.c`) | process states, channels, `c->proc`, lock holders | `sleep`, `wakeup`, `yield`, `sched`, `scheduler`, `acquiresleep`, `releasesleep`, `kill` | everything that blocks | lost wakeups; a process that is RUNNABLE while still on its stack; locks handed over through `swtch()` |
| xv6 processes (`proc.c`, `trap.c`, `user/init.c`) | the process table, parents, pids, `killed` | `fork`, `exit`, `wait`, `kill`, `reparent` | scheduler, files, memory | a parent and a child that exit together; reuse of slots; kill racing with sleep |
| system call counter (`syscall.c`, `sysproc.c`) | `syscall_count` | `syscall`, `sys_getsyscallcount` | process table | state of a slot that outlives its process |
| traps and the clock (`trap.c`, `trampoline.S`, `kernelvec.S`, `sys_sleep`) | trap registers of a hart, trapframe, `ticks` | `usertrap`, `usertrapret`, `kerneltrap`, `devintr`, `clockintr` | scheduler, devices | nested traps, preemption inside a trap, a thread that moves to another hart, the wrap of `ticks` |
| log (`log.c`) | in-memory header, `outstanding`, `committing`; header, log and home blocks on disk | `begin_op`, `log_write`, `end_op`, `commit`, recovery | buffer cache, disk | crashes between block writes; group commit; log space |
| pipe (`pipe.c`) | ring, two counters, two open flags | `pipewrite`, `piperead`, `pipeclose` | file table, scheduler | wrap-around, end of stream, kill, free after last use |
| buffer cache (`bio.c`) | buffers, refcnt, LRU list | `bread`, `bwrite`, `brelse`, `bpin` | log, disk driver | one buffer per block, recycling |
| disk driver (`virtio_disk.c`) | descriptors, two rings | `virtio_disk_rw`, interrupt | buffer cache, device | completion in any order, running out of descriptors |
| inodes, directories, file calls (`fs.c`, `sysfile.c`) | inode table, link and reference counts, bitmap | `iget`, `iput`, `create`, `link`, `unlink`, ... | log, buffer cache | last reference against last link; reuse of an inode; failure half way; directories that are removed while in use |
| file table (`file.c`) | references, descriptors | `filealloc`, `filedup`, `fileclose` | pipes, inodes | counts across fork and exit |
| console, UART (`console.c`, `uart.c`) | input line ring, transmit ring | interrupts, `consoleread`, `uartputc` | scheduler | full rings, line editing |
| memory (`kalloc.c`, `vm.c`, `exec.c`) | free list, page tables | `kalloc`, `uvmcopy`, `uvmalloc`, `exec` | processes | failure half way |
| the shell of xv6 (`user/sh.c`) | a command tree; processes and descriptors | parser, `runcmd` | pipes, fork, files | ends of pipes that stay open; failure half way through a pipeline |
| wc_mt, wc_mt_overlap (lab 8) | blocks; a ring of chunks | threads | pthreads | words across boundaries; end of production |
| webserver-mt (lab 9) | a ring of descriptors, a pool | `enqueue`, `dequeue`, `handle_request` | pthreads, sockets | signals, reuse of descriptors |
| mini-shell 1-3 (lab 7), psh (lab 6) | jobs, variables, `fg_pid` | commands, signals | fork, waitpid | signals between two statements; pids that are reused |
| snake, move, editor (lab 5), typer, pw_input (lab 4) | game or line state | key presses, signals | terminal | handlers that share state with `main()` |
| utmplib, cp2, who (lab 1), ls3, cpdr (lab 2) | a read buffer | I/O | files | little |

What makes each part correct, in a sentence, is the comment over its
properties; the hazards in `PROJECT.json` say which line each property is for.

## Modules

| module | models | refines | proofs |
|---|---|---|---|
| `Xv6SleepLock` | sleep lock, sleep/wakeup, scheduler, yield, kill | `Xv6Mutex` | `Xv6ProcProofs` |
| `Xv6Proc` | fork, exit, wait, kill, init | | `Xv6ProcProofs` |
| `Xv6Trap` | traps, the scheduler they interrupt, the clock, `sys_sleep()` | | `Xv6TrapProofs` |
| `Xv6Syscall` | the counter of lab 3 | | `Xv6TrapProofs` |
| `Xv6Log` | log, pinning, eviction, crash, recovery | `AtomicDisk` | `Xv6LogProofs` |
| `Xv6Disk` | buffer cache, disk driver and device | `BlockStore` | `Xv6DeviceProofs` |
| `Xv6Fs` | inodes, directories, blocks and the calls on them | | `Xv6FsProofs` (references, locks), `Xv6FsBlocksProofs` (blocks, copies) |
| `Xv6Pipe` | pipe with fork, close, kill, exit | `ByteStream` | `Xv6PipeProofs` |
| `Xv6Console` | console, transmit ring, UART | `Tty` | `Xv6DeviceProofs` |
| `Xv6Vm` | page allocator, page tables, fork, exec, sbrk, exit | `AddrSpace` | |
| `Xv6Sh` | parser and processes of `sh.c` | | |
| `WcOverlap`, `WcMt` (with `WordCount`) | the two word counters | | |
| `WebServerMt` | ring, pool, descriptors | | `LabProofs` |
| `MiniShell` | the three mini-shells and their children | | `LabProofs` |

`Xv6ProcTable` has the slots and fields that `Xv6Proc` and `Xv6SleepLock` share. Each of
the others is instantiated by an `MC...` module with one or two `.cfg` files, but for
`Xv6Proc`, which has a `.cfg` only. `MCXv6SleepLock` and `MCMiniShell` give an instance
names of its own, so that `Xv6ProcProofs` and `LabProofs` can extend it beside `Xv6Proc`
and `WebServerMt`.
Programs that have nothing to do with each other share one where that keeps the
number of runs small: `MCThreads` runs one of the web server and the two word
counters, `MCShells` `sh` or a mini-shell, `MCXv6Devices` the disk or the
console, `MCXv6Traps` the traps or the counter of lab 3. The variable `which`, or
the load of a device, says which, and the others do not move.

How they fit together: `Xv6SleepLock` shows that a sleep lock is a mutex and
that `sleep()` loses no wakeup; the other modules of the kernel take that for
granted and treat `sleep()` and the locks as single steps. `Xv6Trap` shows that
an interrupted thread goes on as if nothing had happened, on whichever hart,
which is what allows the others to have processes that simply take steps.
`Xv6Disk` shows that blocks have one content and one user at a time (its sleep
locks are `Xv6Mutex`), which `Xv6Log` and `Xv6Fs` start from; `Xv6Log` shows that
what happens between `begin_op()` and `end_op()` reaches the disk whole or not
at all; `Xv6Fs` therefore has no crashes of its own. `Xv6Proc` leaves memory out,
`Xv6Vm` has the part of `fork()`, `exec()`, `exit()` and `wait()` that it leaves out.
`Xv6Sh` runs on pipes and descriptors as `Xv6Pipe` and `sysfile.c` provide them.

### Xv6SleepLock

One step is what the code does between two points where another hart can see
or change something. `lk` is the spin lock in the sleep lock, `plock[p]` is
`p->lock` as far as it is held across `swtch()`; critical sections under
`p->lock` that do not cross `swtch()` are single steps guarded by `~plock`.
`ctx` says how a kernel thread stands to its CPU: `run`, `sched` (in `sched()`,
the stack still in use), `off`, `resume` (switched to, `p->lock` not yet
released). `wakeup()` is a loop, one step per slot (`scan`). A process may be
interrupted and yield wherever it holds no spin lock.

### Xv6Proc

Built on the previous result: `sleep()` and `wakeup()` of the one channel
involved, the process itself, are few steps. `wait_lock` and `p->lock` are
explicit; `pc` follows `fork()`, `wait()` and `exit()` from one lock operation
to the next. init runs its own program (`Failed`, `MayFork`, `MayWait`);
every other process calls what it likes. `named` is a history of the pids
`kill()` was called for (a process that faults names itself).

### Xv6Trap

A hart has registers (`stvec`, `sepc`, `sstatus` as `spp`, `spie` and `sie`, `scause`,
`tp`) and runs a thread, a process or its own scheduler; a thread has a place and
its locals, the trapframe among them. A stretch with interrupts off is one step
up to the next place where another hart can interfere; where interrupts are on a
trap is possible before every step. `tp` stands for all the user registers while
a user program runs. A register or a local that is dead is `None`, so that using
it would show. `due` is a history of where control was taken from, `elapsed` one
of the ticks during a `sleep()`. `sys_sleep()` tests `ticks` and `killed()` in one step
(`Nap`) and sleeps in another (`NapSleep`), so that a `kill()` may come between them,
unseen by `sleep()`. `Punctual` is an assumption: a process whose
`sleep()` is over gets to look at `ticks` before they have gone round 2^32 (3 in
the run). A device interrupt is only its effect on the interrupted thread; what
the handlers do is in `Xv6Disk` and `Xv6Console`. The PLIC's claim and complete are
left out: those modules assume one handler per device at a time.

### Xv6Syscall

`done`, `last` and `since` are histories: the valid calls a process has
completed, the last answer it got and the calls since.

### Xv6Log

`lh` is `log.lh`, `head` its copy on disk; `cache`, `pinned` and `home` are
what is left of the buffer cache and the disk. `phase` and `tail` are the
position in `commit()` or in recovery. The write of one block is atomic, as
the code takes for granted (`Crash` and that atomicity are the external part).
In `AtomicDisk` the mapping takes `mem` to what `bread()` returns and `stable`
to what recovery would restore.

### Xv6Disk

A process reads blocks, may change one and write it through or pin it and leave
it to a commit, and gives it back. A step is what happens under one hold of
`bcache.lock` or `vdisk_lock`; the handler holds `vdisk_lock` over several steps, as
the device works on meanwhile. The device finishes
requests in any order; it copies data at the moment it finishes. `Machines` lists
whole machines: buffers, descriptors, requests served before the behaviour begins
(so that the 16-bit indices wrap) and the reads of each process. `bget()`'s panic
stops the model; the last machine reaches it. Features, page-aligned addresses
and the failure status of the device are left out.

### Xv6Console

`uartintr()` runs against readers and writers on other harts. Reading the line
status and writing the transmit register are two steps, since an echo does both
without `uart_tx_lock`; the UART is one with a FIFO, which is what keeps a byte from
being overwritten in between. The erasing of a character is one echo, not three;
`^P`, the kernel's own `printf()` and the spinning after a panic are left out. `r`, `w`
and `e` begin just below their wrap.

### Xv6Vm

The functions of `kalloc.c` and `vm.c` are operators on a RAM: the free list and
the contents of every page. Page tables are pages of three levels in the same
RAM, with `PGSIZE` entries to a page. Loops that allocate user pages take one step
per page, so that two processes compete for the last ones; everything else in a
call is one step. A file is the sequence of its segments; an argument is the
address of a string, which need not be one. What the code does and the
specification therefore allows: memory that grows within a page keeps its old
bytes; `sbrk()` below zero leaves the size alone and succeeds. The alignment of the
stack pointer to 16 and the kernel's own page table are left out.

### Xv6Pipe

One step per iteration of a loop under `pi->lock`, since `kill()` does not
take that lock. `UINT` stands for 2^32. Failing `copyin()` and `copyout()` are
included. `ReadFault` takes its byte out of the ring and returns what was read
before: 0 if that was nothing, although the stream goes on. A caller with a bad
buffer cannot tell this 0 from the end of the stream, so `EofIsFinal` claims finality
only of the 0 of a read that found nothing, and `zero` keeps the two apart. A process
that is killed goes on as the code does. `pipealloc()` has succeeded when the model
begins.

### Xv6Fs

A process in a system call has a list of steps left to make (`todo`), the next
one first; what a function of `fs.c` does between two points where it may have
to wait for an inode's lock is one step, and so is a critical section under
`itable.lock`. The functions themselves (`Iget`, `Ilock`, `Bmap`, `Writei`,
`Dirlink`, `Itrunc`, ...) are operators from a state of the file system to the
next. `itable[i].ino` is the copy in memory, `dinode[i]` the inode on disk;
both are kept, because the code is right only if `iupdate()` and `valid` are.
A panic of the code sets `panic` and stops the model. Contents are directory
entries, or uniform pieces of a file; the limit of a block (`PerBlock`), of
the direct and of the indirect addresses are parameters. A behaviour begins
with one of the disks in `Disk` and every process in any directory of it.

### Xv6Sh

A line is a sequence of tokens; the parser is the recursive descent of `sh.c`, and
is compared with a grammar that says where a line is cut. Each process is an entry
of a table of limited size with its descriptors; `pipe()`, `fork()` and `open()` fail when
they must, `open()` also when it likes. A program started is a filter that ends when
its input does, or earlier.

### WordCount, WcOverlap, WcMt

A text is a sequence of Booleans, `isalnum()` of each character. `Words` is the
reference (places where a word begins), `CountLoop` the loop of the code. The
runs begin with every text up to the bound. Critical sections are steps,
condition variables are the sets of threads in `"wait"`, with spurious wakeups.
`producer()` reads the rest of a word into the buffer of the chunk, which has 256 bytes
more than `CHUNK_SIZE` (`SLACK`), without a look at its size. A longer word may overrun it
(`ProduceOverrun`); the program's behaviour is undefined from there and the model ends.
`Finishes` allows for that if the text has such a word (`LongWord`), and only then.

### WebServerMt

Descriptors are model values that are handed out again once closed; accepted
connections and opened files take them from the same set. The text of a
request is abstracted to its outcome. Nothing ignores SIGPIPE, so a client that goes away
while it is answered may end the whole process (`Killed`), with every connection in the
ring; the claims that every connection is taken and that `main()` goes on are for a
process that lives. `sscanf()` writes into `method[8]` and `path[256]` without a bound;
of what may come of that the model has the end of the process only.

### MiniShell

The three programs share their text up to what each adds, so they share a
module; `shell` says which one runs. A line is what its first word makes of it.
The children are separate: they exec, exit, stop and are killed between any two
steps of the shell; `fg_pid`, which the handler reads, is set in a step of its
own after `fork()` and after `kill(SIGCONT)`, and reset in one after
`waitpid()`. mini-shell-3 tests neither the result of `fork()` nor the room in
`jobs[]`. After a failing `fork()` it goes on with the pid -1 (`ForkUntested`), `None` in
the model: it may put it into the table, and `kill(-1)` and `waitpid(-1)` reach every child
(`Named`), or find none and leave `status` unset (`WaitFail`). `astray` remembers
that this has happened; from then on `JobsExact` claims only that no child is
forgotten, and `PromptReturns` nothing, as `waitpid(-1)` may wait for a job that stays
stopped. A job for which there is no room is written past the end of `jobs[]`
(`overrun`); what follows is undefined and the model ends.
A stop that reaches a child before its `signal(SIGTSTP, SIG_DFL)` runs the
inherited handler there and is lost; a background job that the terminal stops
stays marked as running. Both are what the code does, and no property denies
them.

## Runs

| run | instance | shows |
|---|---|---|
| `sleeplock` | 3 processes, 2 harts | exclusion, one hart per stack, `sched()`'s checks, no lost wakeup; refinement of `Xv6Mutex` with its liveness |
| `proc` | 3 slots, 4 pids, `kill()` of 0, 1 and 3 | slots are reused clean; parents alive, no missed exit; init reaps |
| `traps` | 1 process, 2 harts, `sleep()` of -1 and 2, `ticks` mod 3; the counter with 2 slots, 4 calls | no panic and a right `cpuid()`; control comes back where it was taken; `sleep()` lasts and ends; differences of the counter are exact |
| `log` | 3 calls, 4 blocks, 2 values, room for 2 calls | no overflow; sleepers have a waker; refinement of `AtomicDisk` with crashes |
| `devices` | disk: 3 processes, 3 blocks, 1 to 3 buffers, 3 to 8 descriptors, indices mod 24; console: a reader, 2 writers, a ring of 2 with indices mod 4, a transmit ring of 1, up to 4 keys | counts of buffers, descriptors and bytes; refinement of `BlockStore` and `Tty`; everybody is served |
| `fs` | 2 processes, 3 calls of 14 kinds (and read, write, close), 4 inodes, 7 blocks of 2 entries, 1 direct and 1 indirect address | no panic; references, blocks and links; the tree |
| `vm` | 2 processes, 3 calls, 9, 16 or 26 pages of 2 bytes, 6 programs with their arguments | pages have one owner on every error path, no panic; refinement of `AddrSpace` |
| `pipe` | 2 processes, ring of 2, counters mod 4 | refinement of `ByteStream`, free once and last, a 0 for want of bytes is final, a closed end unblocks the other |
| `shells` | `sh`: all lines of up to 4 of 7 tokens, 5 processes, 5 descriptors, `MAXARGS` 4; mini-shells: 2 pids, 1 or 2 jobs, 1 variable, blocks of 1 line, lines with variables in mini-shell-1 only | the parser; descriptors of programs; the job table and its marks; the prompts come back |
| `threads` | web server: 3 workers, ring of 2, 4 descriptors; `wc_mt_overlap`: texts to 6 characters, chunks of 1 in buffers of 3 (`SLACK` = 2), ring of 2, 2 consumers; `wc_mt`: texts to 7, 1 to 4 threads | FIFO, one owner per descriptor, no connection and no acceptor left waiting while the process lives; the count, termination |

A property of a run may be a conjunction of named ones (`SlotsReusedClean`,
`ExitIsSeen`, `TreeIntact`, `PrintsWordCount`, ...), where they are about one
question.

The instances are small but past the point where the cases begin: more
processes than harts, a slot reused at least once, a ring that wraps and a
counter that wraps in a different place, more calls than log space, texts in
which a word covers several blocks, more threads than characters, a hart with
nothing to run, a process that is preempted inside a trap and goes on on the
other hart, more requests than descriptors, one buffer for everything, a machine
in which each allocation of `exec()` is the one that fails, a directory that needs its indirect block, a disk that fills up, an inode that is freed and
allocated again while somebody is still on it. Three calls suffice for that in
`fs` because behaviours begin in a tree and with processes in its directories.
The paths of `fs` are `/`, `/x`, `/x/y` and `y`; none contains `..` (see below).
`CHECK_DEADLOCK FALSE` is used where the system may stop: every process of the
pipe has exited, the shell has exited, the work of a machine is done, `bget()` has
panicked, or a bound on calls or pids is reached. `fs` and `traps`
check for deadlock: no order of locks makes the calls wait on each other.

### Where the code and its documentation disagree

Two runs expect a violation; the findings in `PROJECT.json` quote the lines.

* `syscall_reuse`: `syscall_count` survives the reuse of a slot.
* `fs_orphan`: `iput()` frees an inode on disk, lets go of its lock and only
  then takes `itable.lock` to count down. Another process may allocate the inode
  in between, make a file of it and remove it; its own `iput()` sees two
  references and leaves the rest to the first, which does not look again. The
  inode and its blocks stay allocated for ever.

What the models contain, and no run is about:

* `kill(0)` matches the pid of a free slot, and the next process in it is
  killed; `KilledWasNamed` allows for it.
* `kill()` between the `killed(p)` test in `wait()` and its `sleep()` is not
  noticed until a child exits.
* init exits, and the kernel panics, when it finds the process table full;
  `InitReaps` allows for it.
* The counter of lab 3 goes up before the handler runs; the README of the lab
  asks for after.
* `log_write()` tests for space before it absorbs.
* A writer that is killed in the middle of a write does not wake the readers of
  what it has written.
* `piperead()` returns 0 also when `copyout()` fails on the first byte, which is lost.
* mini-shell-3 takes a failed `fork()` for a child with the pid -1, and writes past
  `jobs[]` when the table is full.
* A word of more than 256 characters may overrun a chunk's buffer in `wc_mt_overlap`.
* A client of `webserver-mt` that leaves while it is answered ends the server (SIGPIPE).
* `create()` and `link()` work in a directory that was removed but is still in
  use: the name is lost with it and its inode keeps a link too many.
  `LinksCounted` therefore says that links are never undercounted, not that the
  count is exact.
* The `..` of such a directory is no link any more; the parent may be removed
  and freed too, and `chdir("..")` then panics in `ilock()`. `NoPanic` is
  checked without `..` in the paths.

## Fairness

* Kernel: once begun, `swtch()` ends (WF); the scan of `scheduler()` visits
  every slot (SF of the dispatch of each process, WF where there are as many
  harts as processes); a process that is run again and again makes progress
  and acquires in the end a spin lock that is released again and again (SF);
  for the lock inside the sleep lock only that somebody gets it is assumed.
* No process is obliged to make any system call, except init, whose program
  never stops.
* Threads: each takes a step it can take (WF). Clients of the web server are
  assumed to send and read or to go away, as the code, which has no time-out, does.
  One that goes away while it is answered may end the process, after which nothing is
  claimed.
* Traps: a handler that has begun goes on (WF); the timer of a hart goes off again
  and again (SF, as it may be disabled at times); a thread that gets a hart again
  and again gets on, that is, there is time between two interrupts (SF); the scan
  of the table comes to every process (SF).
* Devices: the disk answers, the UART sends, an interrupt that is raised is
  handled, and processes run (WF).
* `sh`: some process that can run does (WF of all of them together, less than the
  scheduler gives), and a program whose input has ended ends.
* Mini-shell: the shell goes on with a line it has begun, and a child that is
  left alone execs and exits (WF); nobody has to type, stop or kill, nor to
  continue what is stopped.
* The log and the file system are checked for safety only.

## Proofs

TLC checks the instances of the runs; what follows holds for every value of
the constants that satisfies the assumptions named. Each proof has the same
shape: the property is not inductive, so an invariant that is (`IInv`, or the
name given) is stated as a conjunction of named parts, shown to hold at first,
and shown to be kept by each action, with a lemma per action or group of
actions; the property follows from it. A refinement is proved from the same
invariant: initial states map to initial states and every step to a step or a
stutter.

**`Xv6ProcProofs`**, for every size of the process table and every bound on the
pids. `IInv` says what the position of a kernel thread means for its state and its
lock (`ThreadInv`), who has `wait_lock`, that two forks never build the same
child (`NpInv`), that nobody has a parent that has already given its children
away (`ParentInv`), that from the moment `wait()` has looked at its children
until it is woken none of them is a zombie, and that an exiting process has
woken its parent by the time it becomes one (`SleepInv`), and where a `killed`
can come from (`KilledInv`). From it follow `SlotsReused` and `ExitsSeen`.

The same module proves `Xv6SleepLock` (the instance `S` of `MCXv6SleepLock`), for every number of processes
and every set of harts. `LockInv` adds to the properties: who holds `lk` and at which
labels; that `plock`, `ctx` and `cpu` agree (`p->lock` is held exactly in
`sched`, in `resume` and on the way into `sched()`, a process off its CPU is
on no CPU, every other one on exactly one); that a sleeping process is at
`asleep` with its channel set; that `locked`, `pid` and the holder's label
agree; and that no sleeper is behind the loop of a wakeup in progress on a free
lock. From it follow `LockTypeCorrect`,
`Exclusive`, `StackExclusive`, `SchedNeverPanics` and `WakeupNotLost`;
`RefinesMutex` shows that every step is one of `Xv6Mutex` or a stutter.

**`Xv6TrapProofs`**, for every number of harts and processes, user programs of any
length and any width of `ticks`. `TrapInv` relates the registers of a hart to the
place of the thread it runs (`RegInv`), and a thread's place to what its trapframe
and its kernel stack have saved (`SavedInv`), also while it is on no hart; that is
what carries an interrupted place through a preemption to another hart.
`TrapChecksHold` and `Resumes` follow. `ClockInv` adds that `ticks - ticks0` is the
elapsed time or that less 2^32; with it `NoShortNapHolds` proves the safety half of
`SleepLasts`. It rests on `Punctual`, which the model assumes in the guard of
`clockintr()`. `CounterExact` is about `Xv6Syscall` (the instance `S`), for a
process table of any size and any bound on the calls; `CountInv` says that the
counter is the last answer plus the calls since.

**`Xv6LogProofs`**, for every number of calls, blocks and sizes. `SpaceSuffices`
needs the assumption that a call logs fewer blocks than `begin_op()` reserves,
and that the log on disk is large enough. The invariant counts, per call in
progress, the blocks it may still add (its credit): the length of `lh` plus all
credits stays within `LOGSIZE`. Absorption, new calls and ended calls each
change the sum by a known amount; the lemmas `CreditsBound`, `ActiveAdd` and
`ActiveRemove` say how. `TypeCorrect` is proved first and used throughout.
`NoStrandedSleeper` needs room for one call in an empty log (`param.h` has room for
three). `DiskInv` adds what the header on disk, the log's blocks and the home blocks
hold in each phase of `commit()` and of recovery (`HeaderInv`) and which buffers are
dirty (`BufferInv`); with it `LogImplementsAtomicDisk` shows that every step, a
crash at any point included, is one of `AtomicDisk` or a stutter: the write of the
header is the commit, everything else changes nothing that recovery would restore.

**`Xv6PipeProofs`**, for every set of processes, every size of the ring and every
width of the counters that is a multiple of it, at least twice it
(`WidthAssumption`; 2^32 and 512 in the code). `IInv` has a control part (who holds
`pi->lock`, who has which descriptor, one process at most closes an end, the page
goes with the second end) and a data part (the counters are never more than the
ring apart; a sleeping writer has a full ring or a reader at it in front of it; the
end that a read has found is final). `NoUseAfterFreeHolds` and `EndsAndWaitsHold` follow;
`PipeImplementsByteStream` maps the ring to the queue of `ByteStream` and needs the
arithmetic of indices that wrap (`Tests`, `OccValue`, `IncValue`).

**`Xv6DeviceProofs`**, for every number of processes, buffers and blocks and all sizes
of the rings. The cache and the disk come first.
`CacheInv`: a buffer's `refcnt` is the number of processes that name it plus the
pin of its block, no block has two buffers, whoever is past `acquiresleep()` has the
lock, a process has a buffer exactly while it is in a call, and a pinned block is
cached. The lemmas `UserJoins` and `UserLeaves` say
how the number of users changes, `LeastRecentIs` and `ToFrontIs` what `bget()` finds and
what `brelse()` does to the list. `RefcntExactHolds` follows.
`DiskInv`, proved on top of it, says of every process that waits for the device that three
different descriptors are its own and form the chain of its request (`Requests`,
`OwnedApart`), and that no other descriptor is taken (`OwnedBusy`); that each ring holds,
from the reader's index to the writer's, exactly the requests that its reader has not
seen, each once (`Queues`; the indices wrap at 2^16, so the lemmas `IdxNext` and `BehindIs`
need that the number of descriptors divides it: `DiskAssumption`); and when a buffer and
its block on the disk agree (`CleanSame`, `TransferDone`). `DescsExactHolds` follows.
`CacheImplementsBlockStore` maps a block to what its buffer holds, if it has one that is
valid, or to the disk: a read returns what the last holder wrote, whatever was recycled and
in whatever order the device finished.
`TxInv`: the ring holds the bytes `tx_r .. tx_w - 1`, whoever is in `uartstart()` has
`uart_tx_lock`, and the bytes in the UART with the echo and the byte of the ring that are
about to be written, each after its own test of the line status, are at most two.
So `TxExactHolds` needs a FIFO of two bytes or more (`ConsoleAssumption`; `uartinit()`
enables one of 16), and with it no byte is overwritten.
`TtyInv`: `r`, `w` and `e` are in this order and at most a ring apart, in arithmetic
that wraps, the handler's key is one, and a reader is in `consoleread()` exactly if it
wants something. The lemmas on `Piece` (a stretch of the ring) say what storing,
erasing and taking a key do to it; they need that `INPUT_BUF_SIZE` divides 2^32.
`ConsoleImplementsTty` follows.
The theorems are about `Spec` of `Xv6Disk` and of `Xv6Console` (the instance `C`),
which is what `MCXv6Devices` runs.

**`Xv6FsProofs`**, for every number of processes and calls, every size of the inode table,
of the disk and of an inode (`SizeAssumption`), every set of calls (`SyscallAssumption`) and
every disk without a block in two inodes (`DiskAssumption`).
The steps a call has left are data (`todo`), so the invariant reads them: `Using` and
`Locking` say which kinds of step stand for a reference that will be given back and for a
lock that will be released, `Uses` and `Obliged` count them. `RefsCount`: the `ref` of an
inode is the number of current directories, of open files and of those uses; `LocksHeld`:
a process has an inode locked exactly if one of its steps unlocks it; `Shapes`: the lists
of steps that occur, four steps at most. `FsType` is what the types must be for
that (`TypeOK` bounds lengths too). With no call in progress nothing is
left to count, and `RefsExactHolds` follows. A call that has panicked never gives
anything back (`Stuck`), and a model that has stopped is not quiescent; so the theorem does not
rest on `NoPanic`. There is a lemma per function of `fs.c` on what it leaves of
`itable` and the rest (`IgetIs`, `IlockIs`, `BmapIs`, ...), one per step on the obligations it
hands to the steps it puts in its place (`UnlinkGoes`, `FillGoes`, ...), and lemmas on what
lists of up to four steps hold (`Splice0` to `Splice3`, `Sum0` to `Sum3`).

**`Xv6FsBlocksProofs`**, under the same assumptions, from `RefsInvariance`. `Quiescent` says
nothing of the middle of a call, where blocks and inodes are out of step, so
the invariant, `BlocksCore`, is about every state.
`OwnedIn`: a block in use belongs to an inode, to one only, and a free inode has none.
`Fresh`: the copy in memory of an inode that is referenced and `valid` is the inode
on the disk, which is not free; the exception is an inode that `iput()` has freed and not
yet invalidated (`Invalidating`). `Copied`: an inode that is locked or open is
referenced and `valid`. No inode that a step left over by `iput()` will free is open, and
an `iunlock()` that is left to do is followed by a step on the same inode, which is its
`iput()` (`Paired`, about `todo`). Without `Fresh` a step could write back an old copy
and with it addresses of blocks that belong to another inode by now, and without the
last two `iput()` could free an inode under an open file.
The lemmas `OwnedGrows` and `OwnedShrinks` say what `bmap()` and
`itrunc()` do to the owners of blocks, `SoundAt` that a step which touches one inode need
only be looked at there; one lemma per step of a call follows. Like the references it holds until a
call has panicked (`Stuck`), and `BlocksExactHolds` needs no `NoPanic`.
From both invariants follows a part of `NoPanic`: `NoFault` excludes four of the nine panics
for every path, those with `..` included. No inode is locked without a reference
(`ilock`) or unlocked by a process that has not locked it (`iunlock`), `iput()` of the last
reference finds the sleep lock free (`sched locks`), and no block is freed
twice (`freeing free block`). The third is the comment in `iput()`, "this
acquiresleep() won't block": who has locked an inode uses it besides
the reference that `iput()` gives back (`LockedTwice`), so the reference was not the last.

**`LabProofs`**, about two programs of the labs.
`WebServerMt`, for every size of the ring, pool of workers and number of
descriptors: `RingInv` says that the connections accepted and not yet taken, a
history, are in the ring from front to rear, each once; `LocalsInv` where a thread
has a descriptor in its locals; `OwnInv` that an open descriptor is in one place.
`RingFifoHolds` and `FdsOwnedOnceHolds` follow.
`MiniShell` (the instance `M` of `MCMiniShell`), for every number of pids, variables and jobs, given its
`SizeAssumption`, which is a hypothesis here as `MCMiniShell` instantiates the module:
`Kept` says that a child is in the table, in the foreground, or was refused by the full
table of mini-shell-2. `TableInv`, which holds until `fork()` fails in
mini-shell-3, says that the pids in the table are different and, but for the one that
`waitpid()` has just reaped, alive; that a job marked as stopped is not running; and what
is in the foreground: a new child, or the job in `idx`. Of a mini-shell-3 that has overrun
its table nothing is said. `JobsExactHolds` follows, with
lemmas on the removal of a job (`RemoveAt`) and on the lookup in the tables of variables.

`TypeOK` of `Xv6SleepLock` and `Xv6Log` is proved and no longer run.

Only model-checked:

* liveness, which is out of the prover's reach (`InitReaps`, `CloseUnblocks`,
  `PromptsReturn`, `Finishes`, the second half of `SleepLasts`, ...);
* what needs induction over data: what `CountLoop` computes for every text
  (`PrintsWordCount`), and the page tables and free lists of `Xv6Vm`, which are walked
  by recursion and folds;
* modules with RECURSIVE operators: `Xv6Sh`, and with it `MCShells`, through which
  the mini-shells run;
* the rest of `NoPanic`, and `TreeIntact`, of `Xv6Fs`. `NoPanic` is not true of every path
  (see `..` above), so a theorem would need an assumption on `Syscall`. Both need, beyond
  `RefsInv` and `BlocksInv`, an invariant that counts the directory entries of every inode
  against its links in the middle of each call that changes both, `ilock()` of a free inode
  (`ilock: no type`) being the panic that only such a count excludes; `TreeIntact` also one
  on every path through the tree.

## Not modelled

See the components marked `not_modelled` in `PROJECT.json`: start-up code, string
functions, the tests, the sequential I/O programs of labs 1, 2, 4 and 5, and the
shells of lab 6, which do what the first mini-shell does. Of modelled parts:
`plic.c` and `start.c`, `kvmmake()`, the negotiation in `virtio_disk_init()`, the
kernel's `printf()`, the system file table (`filealloc()`, `filedup()`, `sys_dup()`, and
their sharing by `fork()`).

## Plan

1. Proofs: `LinksCounted` of `Xv6Fs` with the links that calls in progress are about to
   write, then the rest of `NoPanic` for paths without `..`.
2. Candidates for more modules: `umalloc.c`'s free list; the file table with
   `dup()`, `fork()` and `exit()`, shared by `Xv6Fs` and `Xv6Pipe`; the signal handlers of
   lab 5; liveness of the calls in `Xv6Fs`, and a name space that it implements.
