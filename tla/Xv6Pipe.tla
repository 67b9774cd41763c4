------------------------------- MODULE Xv6Pipe ------------------------------
(***************************************************************************)
(* One pipe of the xv6 kernel (kernel/pipe.c), used by processes that      *)
(* share its two files through fork(), close them, are killed and exit.    *)
(*                                                                         *)
(* A step is one iteration of a loop under pi->lock: kill() does not take  *)
(* pi->lock, so killed(pr) can change between two iterations.  sleep() is  *)
(* atomic with respect to wakeup() and kill() (Xv6SleepLock), but killed() *)
(* and sleep() are two calls.                                              *)
(***************************************************************************)
EXTENDS Naturals, Sequences

CONSTANTS Proc,      \* processes
          First,     \* the one that calls pipe()
          Byte,      \* values of a byte
          Sizes,     \* the n of read() and write()
          PIPESIZE,  \* size of the ring
          UINT,      \* 2^32 in the code: nread and nwrite are uint
          Victims,   \* the processes that somebody kills
          None

ASSUME ProcAssumption == First \in Proc /\ None \notin Proc /\ None \notin Byte
ASSUME SizesAssumption == Sizes \subseteq Nat
\* 512 divides 2^32, and is less.
ASSUME WidthAssumption ==
  /\ PIPESIZE \in Nat \ {0} /\ UINT \in Nat
  /\ \E k \in 2 .. UINT : UINT = k * PIPESIZE
ASSUME VictimsAssumption == Victims \subseteq Proc

VARIABLES
  data, nread, nwrite, readopen, writeopen,   \* struct pipe
  freed,         \* kfree() was called on it
  lock,          \* holder of pi->lock
  rfd, wfd,      \* the processes with a descriptor of each file
  pc,            \* where each process is
  i, n,          \* the locals of pipewrite() and piperead()
  killed,        \* p->killed
  last,          \* history: the byte piperead() took out of the ring last
  zero           \* history: why reads of more than no bytes have returned 0

pipevars == <<data, nread, nwrite, readopen, writeopen, freed>>
fdvars == <<rfd, wfd>>
vars == <<pipevars, lock, fdvars, pc, i, n, killed, last, zero>>

(***************************************************************************)
(* pc[p]:  "unborn"                                                        *)
(*         "user"    in user space                                         *)
(*         "wcall"   pipewrite(), about to acquire pi->lock                *)
(*         "write"   at the while of pipewrite()                           *)
(*         "wfull"   the pipe is full, about to call sleep()               *)
(*         "wsleep"  sleeps on &pi->nwrite                                 *)
(*         "rcall"   piperead(), about to acquire pi->lock                 *)
(*         "rtest"   at the while of piperead()                            *)
(*         "rempty"  the pipe is empty, about to call sleep()              *)
(*         "rsleep"  sleeps on &pi->nread                                  *)
(*         "read"    at the for of piperead()                              *)
(*         "exit"    in exit(), closes its files                           *)
(*         "cread", "cwrite"  fileclose() of the last reference, about to  *)
(*                   call pipeclose(); "xread", "xwrite" from exit()       *)
(*         "dead"                                                          *)
(***************************************************************************)
InPipe == {"wcall", "write", "wfull", "wsleep", "rcall", "rtest", "rempty",
           "rsleep", "read", "cread", "cwrite", "xread", "xwrite"}
PCs == InPipe \union {"unborn", "user", "exit", "dead"}

TypeOK ==
  /\ data \in [0 .. PIPESIZE - 1 -> Byte \union {None}]
  /\ nread \in 0 .. UINT - 1
  /\ nwrite \in 0 .. UINT - 1
  /\ readopen \in BOOLEAN /\ writeopen \in BOOLEAN /\ freed \in BOOLEAN
  /\ lock \in Proc \union {None}
  /\ rfd \in SUBSET Proc /\ wfd \in SUBSET Proc
  /\ pc \in [Proc -> PCs]
  /\ i \in [Proc -> Nat] /\ n \in [Proc -> Nat]
  /\ killed \in SUBSET Proc
  /\ last \in Byte \union {None}
  /\ zero \in SUBSET {"nothing", "fault"}

\* pipealloc() has returned and First has both descriptors.
Init ==
  /\ data = [k \in 0 .. PIPESIZE - 1 |-> None]
  /\ nread = 0 /\ nwrite = 0
  /\ readopen = TRUE /\ writeopen = TRUE /\ freed = FALSE
  /\ lock = None
  /\ rfd = {First} /\ wfd = {First}
  /\ pc = [p \in Proc |-> IF p = First THEN "user" ELSE "unborn"]
  /\ i = [p \in Proc |-> 0] /\ n = [p \in Proc |-> 0]
  /\ killed = {}
  /\ last = None /\ zero = {}

----------------------------------------------------------------------------
At(p, l) == pc[p] = l
Goto(p, l) == pc' = [pc EXCEPT ![p] = l]

\* pi->nread == pi->nwrite, and pi->nwrite == pi->nread + PIPESIZE in uint.
Empty == nread = nwrite
Full_Wide == nwrite = nread + PIPESIZE
Full == nwrite = (nread + PIPESIZE) % UINT

\* nread++ and nwrite++ in uint.
Inc(k) == (k + 1) % UINT

\* pc after wakeup() of the channel that label s sleeps on: the sleeper goes
\* to acquire pi->lock and is back at its while.
Woken(f, s, t) == [p \in Proc |-> IF f[p] = s THEN t ELSE f[p]]
WakeReaders_Lost(f) == f
WakeReaders(f) == Woken(f, "rsleep", "rcall")
WakeWriters(f) == Woken(f, "wsleep", "wcall")

\* release(&pi->lock) and return, f being pc after the wakeup() if any.
Return(p, f) ==
  /\ pc' = [f EXCEPT ![p] = "user"]
  /\ lock' = None
  /\ i' = [i EXCEPT ![p] = 0]
  /\ n' = [n EXCEPT ![p] = 0]

\* A trap into the kernel: usertrap() has found killed(p) clear.
Trap(p) == At(p, "user") /\ p \notin killed

Call(p, l, size) ==
  /\ Trap(p)
  /\ Goto(p, l)
  /\ n' = [n EXCEPT ![p] = size]
  /\ UNCHANGED <<pipevars, lock, fdvars, i, killed, last, zero>>

\* acquire(&pi->lock), on entry and at the end of sleep().
Acquire(p, l, m) ==
  /\ At(p, l) /\ lock = None
  /\ lock' = p
  /\ Goto(p, m)
  /\ UNCHANGED <<pipevars, fdvars, i, n, killed, last, zero>>

\* sleep(..., &pi->lock)
Sleep(p, l, m) ==
  /\ At(p, l)
  /\ lock' = None
  /\ Goto(p, m)
  /\ UNCHANGED <<pipevars, fdvars, i, n, killed, last, zero>>

----------------------------------------------------------------------------
(***************************************************************************)
(* pipewrite()                                                             *)
(***************************************************************************)
Write(p, size) == p \in wfd /\ Call(p, "wcall", size)
WriteLock(p) == Acquire(p, "wcall", "write")

\* Nobody can read, or the writer was killed: return -1.
WriteFail(p) ==
  /\ At(p, "write") /\ i[p] < n[p]
  /\ ~readopen \/ p \in killed
  /\ Return(p, pc)
  /\ UNCHANGED <<pipevars, fdvars, killed, last, zero>>

Going(p) == At(p, "write") /\ i[p] < n[p] /\ readopen /\ p \notin killed

WriteFull(p) ==
  /\ Going(p) /\ Full
  /\ pc' = [WakeReaders(pc) EXCEPT ![p] = "wfull"]
  /\ UNCHANGED <<pipevars, lock, fdvars, i, n, killed, last, zero>>

WriteSleep(p) == Sleep(p, "wfull", "wsleep")

\* The place of the byte number k.
Slot(k) == k % PIPESIZE

WriteByte(p, b) ==
  /\ Going(p) /\ ~Full
  /\ data' = [data EXCEPT ![Slot(nwrite)] = b]
  /\ nwrite' = Inc(nwrite)
  /\ i' = [i EXCEPT ![p] = @ + 1]
  /\ UNCHANGED <<nread, readopen, writeopen, freed, lock, fdvars, pc, n,
                 killed, last, zero>>

\* All written, or copyin() fails in the middle: wakeup(&pi->nread), return i.
WriteDone(p) ==
  /\ At(p, "write")
  /\ i[p] >= n[p] \/ (Going(p) /\ ~Full)
  /\ Return(p, WakeReaders(pc))
  /\ UNCHANGED <<pipevars, fdvars, killed, last, zero>>

----------------------------------------------------------------------------
(***************************************************************************)
(* piperead()                                                              *)
(***************************************************************************)
Read(p, size) == p \in rfd /\ Call(p, "rcall", size)
ReadLock(p) == Acquire(p, "rcall", "rtest")

\* The condition of piperead()'s while.
MustWait_Never == FALSE
MustWait == Empty /\ writeopen

\* killed(pr): return -1.
ReadFail(p) ==
  /\ At(p, "rtest") /\ MustWait /\ p \in killed
  /\ Return(p, pc)
  /\ UNCHANGED <<pipevars, fdvars, killed, last, zero>>

ReadEmpty(p) ==
  /\ At(p, "rtest") /\ MustWait /\ p \notin killed
  /\ Goto(p, "rempty")
  /\ UNCHANGED <<pipevars, lock, fdvars, i, n, killed, last, zero>>

ReadSleep(p) == Sleep(p, "rempty", "rsleep")

ReadReady(p) ==
  /\ At(p, "rtest") /\ ~MustWait
  /\ Goto(p, "read")
  /\ UNCHANGED <<pipevars, lock, fdvars, i, n, killed, last, zero>>

ReadByte(p) ==
  /\ At(p, "read") /\ i[p] < n[p] /\ ~Empty
  /\ last' = data[Slot(nread)]
  /\ nread' = Inc(nread)
  /\ i' = [i EXCEPT ![p] = @ + 1]
  /\ UNCHANGED <<data, nwrite, readopen, writeopen, freed, lock, fdvars, pc, n, killed,
                 zero>>

\* copyout() fails: the byte is gone, and the read returns what it has got before,
\* which may be 0.
ReadFault(p) ==
  /\ At(p, "read") /\ i[p] < n[p] /\ ~Empty
  /\ last' = data[Slot(nread)]
  /\ nread' = Inc(nread)
  /\ zero' = IF i[p] = 0 THEN zero \union {"fault"} ELSE zero
  /\ Return(p, WakeWriters(pc))
  /\ UNCHANGED <<data, nwrite, readopen, writeopen, freed, fdvars, killed>>

ReadDone(p) ==
  /\ At(p, "read")
  /\ i[p] >= n[p] \/ Empty
  /\ zero' = IF i[p] = 0 /\ n[p] > 0 THEN zero \union {"nothing"} ELSE zero
  /\ Return(p, WakeWriters(pc))
  /\ UNCHANGED <<pipevars, fdvars, killed, last>>

----------------------------------------------------------------------------
(***************************************************************************)
(* fork(), close(), kill() and exit() as far as the pipe is concerned      *)
(***************************************************************************)
Fork(p, q) ==
  /\ Trap(p) /\ At(q, "unborn")
  /\ Goto(q, "user")
  /\ rfd' = IF p \in rfd THEN rfd \union {q} ELSE rfd
  /\ wfd' = IF p \in wfd THEN wfd \union {q} ELSE wfd
  /\ UNCHANGED <<pipevars, lock, i, n, killed, last, zero>>

\* sys_close() or exit(): fileclose() of the read or of the write file, on to
\* pipeclose() when that was the last reference.
CloseRead(p) ==
  /\ Trap(p) \/ At(p, "exit")
  /\ p \in rfd
  /\ rfd' = rfd \ {p}
  /\ pc' = IF rfd = {p} THEN [pc EXCEPT ![p] = IF @ = "user" THEN "cread"
                                               ELSE "xread"]
           ELSE pc
  /\ UNCHANGED <<pipevars, lock, wfd, i, n, killed, last, zero>>

CloseWrite(p) ==
  /\ Trap(p) \/ At(p, "exit")
  /\ p \in wfd
  /\ wfd' = wfd \ {p}
  /\ pc' = IF wfd = {p} THEN [pc EXCEPT ![p] = IF @ = "user" THEN "cwrite"
                                               ELSE "xwrite"]
           ELSE pc
  /\ UNCHANGED <<pipevars, lock, rfd, i, n, killed, last, zero>>

Back(p) == IF pc[p] \in {"cread", "cwrite"} THEN "user" ELSE "exit"

\* Whether pipeclose() frees the pipe, given the two flags it leaves.
LastEnd_Either(r, w) == ~r \/ ~w
LastEnd(r, w) == ~r /\ ~w

\* pipeclose(), a critical section of its own.
PipeCloseRead(p) ==
  /\ pc[p] \in {"cread", "xread"} /\ lock = None
  /\ readopen' = FALSE
  /\ freed' = LastEnd(FALSE, writeopen)
  /\ pc' = [WakeWriters(pc) EXCEPT ![p] = Back(p)]
  /\ UNCHANGED <<data, nread, nwrite, writeopen, lock, fdvars, i, n, killed,
                 last, zero>>

PipeCloseWrite(p) ==
  /\ pc[p] \in {"cwrite", "xwrite"} /\ lock = None
  /\ writeopen' = FALSE
  /\ freed' = LastEnd(readopen, FALSE)
  /\ pc' = [WakeReaders(pc) EXCEPT ![p] = Back(p)]
  /\ UNCHANGED <<data, nread, nwrite, readopen, lock, fdvars, i, n, killed,
                 last, zero>>

\* kill(): a sleeper tests its while again, anybody else just has the flag.
Kill(p) ==
  /\ p \in Victims \ killed /\ pc[p] \notin {"unborn", "dead"}
  /\ killed' = killed \union {p}
  /\ pc' = CASE pc[p] = "rsleep" -> [pc EXCEPT ![p] = "rcall"]
             [] pc[p] = "wsleep" -> [pc EXCEPT ![p] = "wcall"]
             [] OTHER -> pc
  /\ UNCHANGED <<pipevars, lock, fdvars, i, n, last, zero>>

\* exit(), by choice or because usertrap() found killed(p).
Exit(p) ==
  /\ At(p, "user")
  /\ Goto(p, "exit")
  /\ UNCHANGED <<pipevars, lock, fdvars, i, n, killed, last, zero>>

Dead(p) ==
  /\ At(p, "exit") /\ p \notin rfd \union wfd
  /\ Goto(p, "dead")
  /\ UNCHANGED <<pipevars, lock, fdvars, i, n, killed, last, zero>>

----------------------------------------------------------------------------
\* What a process in the kernel does by itself.
KernelStep(p) ==
  \/ WriteLock(p) \/ WriteFail(p) \/ WriteFull(p) \/ WriteSleep(p)
  \/ (\E b \in Byte : WriteByte(p, b)) \/ WriteDone(p)
  \/ ReadLock(p) \/ ReadFail(p) \/ ReadEmpty(p) \/ ReadSleep(p)
  \/ ReadReady(p) \/ ReadByte(p) \/ ReadFault(p) \/ ReadDone(p)
  \/ PipeCloseRead(p) \/ PipeCloseWrite(p)

UserStep(p) ==
  \/ \E size \in Sizes : Write(p, size) \/ Read(p, size)
  \/ \E q \in Proc : Fork(p, q)
  \/ CloseRead(p) \/ CloseWrite(p) \/ Exit(p) \/ Dead(p) \/ Kill(p)

Next == \E p \in Proc : KernelStep(p) \/ UserStep(p)

Spec == Init /\ [][Next]_vars

\* A process in the kernel is run again and again, and a spin lock that is
\* released again and again is acquired in the end.
FairSpec == Spec /\ \A p \in Proc : SF_vars(KernelStep(p))

----------------------------------------------------------------------------
(***************************************************************************)
(* Properties                                                              *)
(***************************************************************************)

\* pipeclose(): kfree() comes after every use of the pipe: while a process is
\* in a function of pipe.c, or still has a descriptor, the page is not freed
\* (TypeOK with it).
NoUseAfterFree ==
  /\ TypeOK
  /\ freed => rfd = {} /\ wfd = {} /\ \A p \in Proc : pc[p] \notin InPipe

\* piperead(): a read that returns 0 because it has found nothing is at the end of
\* the stream: nothing is left unread and nobody can write any more, ever.  A read
\* into a buffer that copyout() cannot write to returns 0 too, wherever the stream
\* is; of that 0 nothing is claimed, its caller cannot tell it from the end.
EofIsFinal == "nothing" \in zero => Empty /\ ~writeopen

\* pipewrite()'s "DOC: pipewrite-full": a writer sleeps only while the pipe is
\* full and somebody may still read.
WriterSleepsOnlyIfFull ==
  lock = None /\ (\E p \in Proc : At(p, "wsleep")) => Full /\ readopen

\* piperead() and pipewrite() tell the truth to a caller whose buffer is good: the
\* end of the stream is one, and a writer that waits has to.
EndsAndWaitsJustified == EofIsFinal /\ WriterSleepsOnlyIfFull

\* pipeclose(): closing the last descriptor of one end gets everybody at the
\* other end out of pipe.c: readers see the end of the stream, writers fail.
CloseUnblocks ==
  \A p \in Proc :
    /\ (~writeopen /\ pc[p] \in {"rcall", "rtest", "rempty", "rsleep", "read"})
         ~> At(p, "user")
    /\ (~readopen /\ pc[p] \in {"wcall", "write", "wfull", "wsleep"})
         ~> At(p, "user")

\* The bytes in the ring, oldest first.
InFlight == [k \in 1 .. (nwrite + UINT - nread) % UINT |->
               data[Slot(nread + k - 1)]]

Stream == INSTANCE ByteStream WITH
            Capacity <- PIPESIZE, queue <- InFlight, out <- last

\* pipe.c is a bounded FIFO of bytes, across the wrap of the ring and of the
\* unsigned counters.
ImplementsByteStream == Stream!Spec
=============================================================================
