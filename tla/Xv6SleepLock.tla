---------------------------- MODULE Xv6SleepLock ----------------------------
(***************************************************************************)
(* One sleep lock of the xv6 kernel (kernel/sleeplock.c) on top of the     *)
(* scheduler and of sleep()/wakeup() (kernel/proc.c), at the grain of the  *)
(* spin locks they take: lk, the lock inside the sleep lock, and p->lock,  *)
(* which a process acquires before it calls sched() and which the          *)
(* scheduler's side of swtch() releases, and the other way round.          *)
(*                                                                         *)
(* A step of the model is what the code does between two points where      *)
(* another CPU can see or change something.  A critical section under      *)
(* p->lock that does not cross swtch() (the body of the loop of wakeup(),  *)
(* and of kill()) is one step guarded by that lock being free.             *)
(***************************************************************************)
EXTENDS Xv6ProcTable

CONSTANT CPU       \* the harts

VARIABLES
  lk,      \* holder of the spin lock inside the sleep lock
  locked,  \* the sleep lock's locked
  pid,     \* the sleep lock's pid, its holder
  chan,    \* p->chan: "lk" or "0"
  cpu,     \* c->proc
  ctx,     \* how p's kernel thread stands to its CPU, see below
  scan     \* the slot the loop of wakeup() looks at next, for a waker

vars == <<lk, locked, pid, plock, state, chan, cpu, ctx, pc, scan>>

(***************************************************************************)
(* ctx[p]: "run"     executes on a CPU                                     *)
(*         "sched"   has called sched(), swtch() not done                  *)
(*         "off"     context saved, on no CPU                              *)
(*         "resume"  swtch()ed back to, still holds p->lock                *)
(* pc[p]:  "out"     does not use the lock                                 *)
(*         "acq"     acquiresleep: about to acquire(&lk->lk)               *)
(*         "test"    at the while, holds lk->lk                            *)
(*         "sleep"   called sleep(), holds lk->lk                          *)
(*         "commit"  holds p->lock as well                                 *)
(*         "gosleep" has released lk->lk, holds p->lock                    *)
(*         "asleep"  in sched() from sleep()                               *)
(*         "cs"      holds the sleep lock                                  *)
(*         "rel"     releasesleep: about to acquire(&lk->lk)               *)
(*         "unlock"  holds lk->lk, the sleep lock still locked             *)
(*         "wake"    in the loop of wakeup(lk)                             *)
(***************************************************************************)
PCs == {"out", "acq", "test", "sleep", "commit", "gosleep", "asleep", "cs",
        "rel", "unlock", "wake"}

\* Where a process holds lk->lk.
LkPCs == {"test", "sleep", "commit", "unlock", "wake"}

\* Where interrupts are on, so that the timer may call yield().
Interruptible_HoldingLk == {"out", "acq", "test", "cs", "rel"}
Interruptible == {"out", "acq", "cs", "rel"}

TypeOK ==
  /\ lk \in Proc \union {None}
  /\ locked \in BOOLEAN
  /\ pid \in Proc \union {None}
  /\ plock \in [Proc -> BOOLEAN]
  /\ state \in [Proc -> {"RUNNABLE", "RUNNING", "SLEEPING"}]
  /\ chan \in [Proc -> {"0", "lk"}]
  /\ cpu \in [CPU -> Proc \union {None}]
  /\ ctx \in [Proc -> {"run", "sched", "off", "resume"}]
  /\ pc \in [Proc -> PCs]
  /\ scan \in [Proc -> 1 .. NPROC + 1]

Init ==
  /\ lk = None /\ locked = FALSE /\ pid = None
  /\ plock = [p \in Proc |-> FALSE]
  /\ state = [p \in Proc |-> "RUNNABLE"]
  /\ chan = [p \in Proc |-> "0"]
  /\ cpu = [c \in CPU |-> None]
  /\ ctx = [p \in Proc |-> "off"]
  /\ pc = [p \in Proc |-> "out"]
  /\ scan = [p \in Proc |-> 1]

----------------------------------------------------------------------------
\* p executes at label l.
At(p, l) == ctx[p] = "run" /\ pc[p] = l
Goto(p, l) == pc' = [pc EXCEPT ![p] = l]

\* acquire(&lk->lk) from label l, on to label m.
Acquire(p, l, m) ==
  /\ At(p, l) /\ lk = None
  /\ lk' = p
  /\ Goto(p, m)
  /\ UNCHANGED <<locked, pid, plock, state, chan, cpu, ctx, scan>>

\* The process decides to use the lock.
CallAcquireSleep(p) ==
  /\ At(p, "out") /\ Goto(p, "acq")
  /\ UNCHANGED <<lk, locked, pid, plock, state, chan, cpu, ctx, scan>>

AcquireSleepLk(p) == Acquire(p, "acq", "test")

\* The test of acquiresleep()'s while.
Free_Untested == TRUE
Free == ~locked

\* acquiresleep(): the while finds the lock taken and calls sleep().
AcquireSleepWait(p) ==
  /\ At(p, "test") /\ locked
  /\ Goto(p, "sleep")
  /\ UNCHANGED <<lk, locked, pid, plock, state, chan, cpu, ctx, scan>>

\* acquiresleep(): the lock is free: take it and release lk->lk.
AcquireSleepTake(p) ==
  /\ At(p, "test") /\ Free
  /\ locked' = TRUE /\ pid' = p
  /\ lk' = None
  /\ Goto(p, "cs")
  /\ UNCHANGED <<plock, state, chan, cpu, ctx, scan>>

\* sleep(): acquire(&p->lock) while holding lk.
SleepLockSelf(p) ==
  /\ At(p, "sleep") /\ ~plock[p]
  /\ plock' = [plock EXCEPT ![p] = TRUE]
  /\ Goto(p, "commit")
  /\ UNCHANGED <<lk, locked, pid, state, chan, cpu, ctx, scan>>

\* sleep(): release(lk).
SleepRelease(p) ==
  /\ At(p, "commit")
  /\ lk' = None
  /\ Goto(p, "gosleep")
  /\ UNCHANGED <<locked, pid, plock, state, chan, cpu, ctx, scan>>

\* sleep(): p->chan = chan, p->state = SLEEPING, and into sched().
SleepSched(p) ==
  /\ At(p, "gosleep")
  /\ chan' = [chan EXCEPT ![p] = "lk"]
  /\ state' = [state EXCEPT ![p] = "SLEEPING"]
  /\ ctx' = [ctx EXCEPT ![p] = "sched"]
  /\ Goto(p, "asleep")
  /\ UNCHANGED <<lk, locked, pid, plock, cpu, scan>>

\* A timer interrupt while interrupts are on: yield() up to sched().
Yield(p) ==
  /\ ctx[p] = "run" /\ pc[p] \in Interruptible /\ ~plock[p]
  /\ plock' = [plock EXCEPT ![p] = TRUE]
  /\ state' = [state EXCEPT ![p] = "RUNNABLE"]
  /\ ctx' = [ctx EXCEPT ![p] = "sched"]
  /\ UNCHANGED <<lk, locked, pid, chan, cpu, pc, scan>>

\* swtch() to the CPU's scheduler, which clears c->proc and releases p->lock.
Swtch(c) ==
  /\ cpu[c] # None /\ ctx[cpu[c]] = "sched"
  /\ ctx' = [ctx EXCEPT ![cpu[c]] = "off"]
  /\ plock' = [plock EXCEPT ![cpu[c]] = FALSE]
  /\ cpu' = [cpu EXCEPT ![c] = None]
  /\ UNCHANGED <<lk, locked, pid, state, chan, pc, scan>>

\* scheduler(): p->lock is free to acquire and p is found RUNNABLE.
Runnable_Unlocked(p) == state[p] = "RUNNABLE"
Runnable(p) == ~plock[p] /\ state[p] = "RUNNABLE"

\* scheduler(): swtch() to the process found.
Scheduler(c, p) ==
  /\ cpu[c] = None
  /\ Runnable(p)
  /\ state' = [state EXCEPT ![p] = "RUNNING"]
  /\ plock' = [plock EXCEPT ![p] = TRUE]
  /\ cpu' = [cpu EXCEPT ![c] = p]
  /\ ctx' = [ctx EXCEPT ![p] = "resume"]
  /\ UNCHANGED <<lk, locked, pid, chan, pc, scan>>

\* Back from sched() in yield(), which releases p->lock.
YieldResume(p) ==
  /\ ctx[p] = "resume" /\ pc[p] # "asleep"
  /\ ctx' = [ctx EXCEPT ![p] = "run"]
  /\ plock' = [plock EXCEPT ![p] = FALSE]
  /\ UNCHANGED <<lk, locked, pid, state, chan, cpu, pc, scan>>

\* Back from sched() in sleep(): clear p->chan, release p->lock and go on to
\* acquire(lk), after which the while of acquiresleep() tests again.
SleepResume_GivesUp(p) ==
  /\ ctx[p] = "resume" /\ pc[p] = "asleep"
  /\ ctx' = [ctx EXCEPT ![p] = "run"]
  /\ chan' = [chan EXCEPT ![p] = "0"]
  /\ plock' = [plock EXCEPT ![p] = FALSE]
  /\ Goto(p, "out")
  /\ UNCHANGED <<lk, locked, pid, state, cpu, scan>>
SleepResume(p) ==
  /\ ctx[p] = "resume" /\ pc[p] = "asleep"
  /\ ctx' = [ctx EXCEPT ![p] = "run"]
  /\ chan' = [chan EXCEPT ![p] = "0"]
  /\ plock' = [plock EXCEPT ![p] = FALSE]
  /\ Goto(p, "acq")
  /\ UNCHANGED <<lk, locked, pid, state, cpu, scan>>

CallReleaseSleep(p) ==
  /\ At(p, "cs") /\ Goto(p, "rel")
  /\ UNCHANGED <<lk, locked, pid, plock, state, chan, cpu, ctx, scan>>

ReleaseSleepLk(p) == Acquire(p, "rel", "unlock")

\* Where wakeup()'s loop starts.
FirstSlot == 1

\* releasesleep(): locked = 0, pid = 0, and into wakeup(lk).
ReleaseSleepUnlock(p) ==
  /\ At(p, "unlock")
  /\ locked' = FALSE /\ pid' = None
  /\ scan' = [scan EXCEPT ![p] = FirstSlot]
  /\ Goto(p, "wake")
  /\ UNCHANGED <<lk, plock, state, chan, cpu, ctx>>

\* wakeup(): acquire(&q->lock), which the loop does for any q but the caller.
CanVisit_Unlocked(p, q) == TRUE
CanVisit(p, q) == q = p \/ ~plock[q]

\* wakeup(): the test on a visited slot.
SleepsOn(p, q) == q # p /\ state[q] = "SLEEPING" /\ chan[q] = "lk"

\* wakeup(): one slot of the loop, under its p->lock.
Wakeup(p) ==
  /\ At(p, "wake") /\ scan[p] <= NPROC
  /\ LET q == scan[p] IN
       /\ CanVisit(p, q)
       /\ state' = IF SleepsOn(p, q)
                   THEN [state EXCEPT ![q] = "RUNNABLE"] ELSE state
  /\ scan' = [scan EXCEPT ![p] = @ + 1]
  /\ UNCHANGED <<lk, locked, pid, plock, chan, cpu, ctx, pc>>

\* releasesleep(): wakeup() is done, release(&lk->lk).
ReleaseSleepDone(p) ==
  /\ At(p, "wake") /\ scan[p] > NPROC
  /\ lk' = None
  /\ scan' = [scan EXCEPT ![p] = 1]
  /\ Goto(p, "out")
  /\ UNCHANGED <<locked, pid, plock, state, chan, cpu, ctx>>

\* kill(q) by p: a sleeping victim is made runnable whatever it waits for.
Kill(p, q) ==
  /\ At(p, "out") /\ ~plock[q]
  /\ state[q] = "SLEEPING"
  /\ state' = [state EXCEPT ![q] = "RUNNABLE"]
  /\ UNCHANGED <<lk, locked, pid, plock, chan, cpu, ctx, pc, scan>>

\* holdingsleep(), which brelse() and iunlock() panic without.
HoldingSleep(p) == locked /\ pid = p

----------------------------------------------------------------------------
\* What p does once it is on a CPU, other than compete for lk->lk and give
\* up the CPU.
Step(p) ==
  \/ AcquireSleepWait(p) \/ AcquireSleepTake(p)
  \/ SleepLockSelf(p) \/ SleepRelease(p) \/ SleepSched(p) \/ SleepResume(p)
  \/ YieldResume(p)
  \/ CallReleaseSleep(p) \/ ReleaseSleepUnlock(p) \/ Wakeup(p)
  \/ ReleaseSleepDone(p)

SpinLk == \E p \in Proc : AcquireSleepLk(p) \/ ReleaseSleepLk(p)

Dispatch(p) == \E c \in CPU : Scheduler(c, p)

Next ==
  \/ \E p \in Proc :
       \/ Step(p) \/ CallAcquireSleep(p) \/ AcquireSleepLk(p)
       \/ ReleaseSleepLk(p) \/ Yield(p) \/ Dispatch(p)
       \/ \E q \in Proc : Kill(p, q)
  \/ \E c \in CPU : Swtch(c)

Spec == Init /\ [][Next]_vars

(***************************************************************************)
(* Fairness.  swtch() and the steps that need nobody else are done once    *)
(* begun (WF).  The scan of scheduler() visits every slot in turn, so a    *)
(* process that is runnable again and again is run (SF); a time slice is   *)
(* longer than a step, so a process that is run again and again steps (SF  *)
(* of Step).  The timer interrupts a process that stays where interrupts   *)
(* are on (WF of Yield).  A test-and-set spin lock promises only that      *)
(* somebody gets it: SpinLk quantifies over the processes.  Nothing        *)
(* obliges a process to ask for the lock; its holder does release it.      *)
(***************************************************************************)
Fairness ==
  /\ \A c \in CPU : WF_vars(Swtch(c))
  /\ \A p \in Proc : /\ SF_vars(Step(p)) /\ SF_vars(Dispatch(p))
                     /\ WF_vars(Yield(p))
  /\ SF_vars(SpinLk)

FairSpec == Spec /\ Fairness

----------------------------------------------------------------------------
(***************************************************************************)
(* Safety.                                                                 *)
(***************************************************************************)

\* Where a process holds the sleep lock, and where it waits for it.
Holds(p) == pc[p] \in {"cs", "rel", "unlock"}
Waits(p) == pc[p] \in {"acq", "test", "sleep", "commit", "gosleep", "asleep"}

\* acquiresleep()/releasesleep(): at most one process is between the two, and
\* holdingsleep() answers 1 to that process and to nobody else, so that
\* brelse() and iunlock() never panic for a holder.
SleepLockExclusive ==
  \A p \in Proc : Holds(p) <=> HoldingSleep(p)

\* scheduler()/sched(): two CPUs never run on one kernel stack.  The scheduler
\* of another CPU may find p RUNNABLE before p has left its stack; only
\* p->lock, handed over through swtch(), keeps it away.
KernelStackExclusive ==
  \A c, d \in CPU : cpu[c] # None /\ cpu[c] = cpu[d] => c = d

\* sched()'s panics ("sched p->lock", "sched locks", "sched running"): whoever
\* calls it holds p->lock and no other spin lock, and is no longer RUNNING.
SchedChecks ==
  \A p \in Proc : ctx[p] = "sched" =>
    plock[p] /\ lk # p /\ state[p] # "RUNNING"

\* The comment in sleep(), "we won't miss any wakeup": while the lock is free,
\* a process that sleeps on it, or has already let go of lk and is bound to
\* sleep, is still ahead of the loop of a wakeup() in progress.
NoLostWakeup ==
  \A p \in Proc :
    ~locked /\ (pc[p] = "gosleep" \/ state[p] = "SLEEPING") =>
      \E w \in Proc : pc[w] = "wake" /\ scan[w] <= p

----------------------------------------------------------------------------
(***************************************************************************)
(* The sleep lock implements Xv6Mutex, its liveness included.              *)
(***************************************************************************)
Mutex == INSTANCE Xv6Mutex WITH
           want <- {p \in Proc : Waits(p)},
           holder <- pid

\* A sleep lock is a mutex, and when it is free and wanted it is taken: no
\* interleaving of sleep(), wakeup(), kill() and the scheduler strands the
\* waiters.
ImplementsMutex == Mutex!Spec
=============================================================================
