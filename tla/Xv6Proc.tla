------------------------------- MODULE Xv6Proc ------------------------------
(***************************************************************************)
(* The life of xv6 processes: fork(), exit(), wait(), kill() of            *)
(* kernel/proc.c, the checks of killed() in usertrap() (kernel/trap.c) and *)
(* the program of init (user/init.c), which adopts and reaps orphans.      *)
(*                                                                         *)
(* Two kinds of spin lock matter: wait_lock, which protects the parent     *)
(* pointers and orders exit() against wait(), and p->lock, which a process *)
(* takes before sched() and which its CPU's scheduler releases once the    *)
(* process has left its kernel stack.  There are as many CPUs as           *)
(* processes; Xv6SleepLock has the scheduler with fewer.  The only sleep   *)
(* here is that of wait(), where process p sleeps on its own address, so   *)
(* wakeup(p) concerns p alone and is one step guarded by p->lock.          *)
(***************************************************************************)
EXTENDS Xv6ProcTable, FiniteSets

CONSTANTS MaxPid,    \* bound of the model: pids that allocpid() hands out
          KillPids,  \* arguments passed to kill()
          MemFails   \* whether kalloc() and uvmcopy() can run out of memory

init == 1            \* initproc: userinit() finds the first slot free

ASSUME MaxPidAssumption == MaxPid \in Nat \ {0}
ASSUME KillPidsAssumption == KillPids \subseteq 0 .. MaxPid
ASSUME MemFailsAssumption == MemFails \in BOOLEAN

VARIABLES
  parent, pid, killed,          \* the other fields of struct proc
  nextpid,                      \* what allocpid() returns next
  waitlock,                     \* holder of wait_lock
  np,                           \* np[p]: the child p is creating in fork()
  shell,                        \* init's local pid: its shell, 0 for none
  named                         \* history: the pids kill() was called for

vars == <<state, parent, pid, killed, nextpid, waitlock, plock, pc, np, shell,
          named>>

(***************************************************************************)
(* pc[p]: "none"     no kernel thread: the slot is free or being built     *)
(*        "newborn"  context at forkret(), never run                       *)
(*        "user"     in user space, between two traps                      *)
(*        "fork1"    child allocated, its lock released, no parent yet     *)
(*        "fork2"    parent set, child not RUNNABLE yet                    *)
(*        "wait"     about to acquire wait_lock in wait()                  *)
(*        "scan"     holds wait_lock, scans for children                   *)
(*        "sleep"    found no exited child, calls sleep()                  *)
(*        "commit"   in sleep(), holds p->lock and wait_lock               *)
(*        "gosleep"  in sleep(), has released wait_lock                    *)
(*        "asleep"   in sleep(), in or back from sched()                   *)
(*        "exit"     in exit(), files closed, before wait_lock             *)
(*        "exit1"    holds wait_lock                                       *)
(*        "exit2"    children given to init                                *)
(*        "exit3"    parent woken                                          *)
(*        "exit4"    ZOMBIE, still holds wait_lock                         *)
(*        "zombie"   in sched() for the last time                          *)
(*        "panic"    panic("init exiting")                                 *)
(***************************************************************************)
PCs == {"none", "newborn", "user", "fork1", "fork2", "wait", "scan", "sleep",
        "commit", "gosleep", "asleep", "exit", "exit1", "exit2", "exit3",
        "exit4", "zombie", "panic"}

States == {"UNUSED", "USED", "SLEEPING", "RUNNABLE", "RUNNING", "ZOMBIE"}

TypeOK ==
  /\ state \in [Proc -> States]
  /\ parent \in [Proc -> Proc \union {None}]
  /\ pid \in [Proc -> 0 .. MaxPid]
  /\ killed \in [Proc -> BOOLEAN]
  /\ nextpid \in 1 .. MaxPid + 1
  /\ waitlock \in Proc \union {None}
  /\ plock \in [Proc -> BOOLEAN]
  /\ pc \in [Proc -> PCs]
  /\ np \in [Proc -> Proc \union {None}]
  /\ shell \in 0 .. MaxPid
  /\ named \in SUBSET (0 .. MaxPid)

\* procinit() and userinit(): every slot UNUSED but init's, which is RUNNABLE.
Init ==
  /\ state = [p \in Proc |-> IF p = init THEN "RUNNABLE" ELSE "UNUSED"]
  /\ parent = [p \in Proc |-> None]
  /\ pid = [p \in Proc |-> IF p = init THEN 1 ELSE 0]
  /\ killed = [p \in Proc |-> FALSE]
  /\ nextpid = 2
  /\ waitlock = None
  /\ plock = [p \in Proc |-> FALSE]
  /\ pc = [p \in Proc |-> IF p = init THEN "newborn" ELSE "none"]
  /\ np = [p \in Proc |-> None]
  /\ shell = 0
  /\ named = {}

----------------------------------------------------------------------------
\* p executes at label l.
At(p, l) == pc[p] = l /\ state[p] = "RUNNING"
Goto(p, l) == pc' = [pc EXCEPT ![p] = l]
Children(p) == {q \in Proc : parent[q] = p}

\* p makes a system call: usertrap() has checked killed(p).
Syscall(p) == At(p, "user") /\ ~killed[p]

\* init's program: it forks a shell when it has none and waits otherwise.
\* Any other process does as it likes.
MayFork(p) == p = init => shell = 0
MayWait(p) == p = init => shell # 0

\* Where a failed fork() or wait() returns to: init exits.
Failed(p) == IF p = init THEN "exit" ELSE "user"

----------------------------------------------------------------------------
(***************************************************************************)
(* The scheduler's side of sched().                                        *)
(***************************************************************************)

\* swtch() away from p: the scheduler releases p->lock.
Swtch(p) ==
  /\ plock[p]
  /\ \/ pc[p] = "asleep" /\ state[p] = "SLEEPING" /\ UNCHANGED pc
     \/ pc[p] = "zombie" /\ Goto(p, "none")
  /\ plock' = [plock EXCEPT ![p] = FALSE]
  /\ UNCHANGED <<state, parent, pid, killed, nextpid, waitlock, np, shell, named>>

\* scheduler() runs p, which still holds p->lock when it comes back.
Dispatch(p) ==
  /\ state[p] = "RUNNABLE" /\ ~plock[p]
  /\ state' = [state EXCEPT ![p] = "RUNNING"]
  /\ plock' = [plock EXCEPT ![p] = TRUE]
  /\ UNCHANGED <<parent, pid, killed, nextpid, waitlock, pc, np, shell, named>>

\* forkret() releases p->lock; sleep() does, and goes to acquire wait_lock.
Resume(p) ==
  /\ state[p] = "RUNNING" /\ plock[p]
  /\ \/ pc[p] = "newborn" /\ Goto(p, "user")
     \/ pc[p] = "asleep" /\ Goto(p, "wait")
  /\ plock' = [plock EXCEPT ![p] = FALSE]
  /\ UNCHANGED <<state, parent, pid, killed, nextpid, waitlock, np, shell, named>>

----------------------------------------------------------------------------
(***************************************************************************)
(* fork()                                                                  *)
(***************************************************************************)

\* allocproc() succeeds with slot q, and fork() releases q's lock.  killed is
\* not touched: it is what freeproc() left, or what a kill() set since.
Fork(p) ==
  /\ Syscall(p) /\ MayFork(p)
  /\ nextpid <= MaxPid
  /\ \E q \in Proc :
       /\ state[q] = "UNUSED" /\ ~plock[q]
       /\ state' = [state EXCEPT ![q] = "USED"]
       /\ pid' = [pid EXCEPT ![q] = nextpid]
       /\ np' = [np EXCEPT ![p] = q]
  /\ nextpid' = nextpid + 1
  /\ Goto(p, "fork1")
  /\ UNCHANGED <<parent, killed, waitlock, plock, shell, named>>

\* allocproc() finds no slot.
ForkNoSlot(p) ==
  /\ Syscall(p) /\ MayFork(p)
  /\ \A q \in Proc : state[q] # "UNUSED"
  /\ Goto(p, Failed(p))
  /\ UNCHANGED <<state, parent, pid, killed, nextpid, waitlock, plock, np, shell,
                 named>>

\* A page cannot be allocated: allocproc() or fork() calls freeproc() on the
\* slot, which clears killed with the rest.  The pid is spent (up to MaxPid).
ForkNoMem(p) ==
  /\ Syscall(p) /\ MayFork(p) /\ MemFails
  /\ \E q \in Proc :
       /\ state[q] = "UNUSED" /\ ~plock[q]
       /\ killed' = [killed EXCEPT ![q] = FALSE]
  /\ nextpid' = IF nextpid <= MaxPid THEN nextpid + 1 ELSE nextpid
  /\ Goto(p, Failed(p))
  /\ UNCHANGED <<state, parent, pid, waitlock, plock, np, shell, named>>

\* np->parent = p, under wait_lock.
ForkParent(p) ==
  /\ At(p, "fork1") /\ waitlock = None
  /\ parent' = [parent EXCEPT ![np[p]] = p]
  /\ Goto(p, "fork2")
  /\ UNCHANGED <<state, pid, killed, nextpid, waitlock, plock, np, shell, named>>

\* np->state = RUNNABLE, under np->lock; fork() returns the child's pid.
ForkRunnable(p) ==
  /\ At(p, "fork2") /\ ~plock[np[p]]
  /\ state' = [state EXCEPT ![np[p]] = "RUNNABLE"]
  /\ pc' = [pc EXCEPT ![p] = "user", ![np[p]] = "newborn"]
  /\ np' = [np EXCEPT ![p] = None]
  /\ shell' = IF p = init THEN pid[np[p]] ELSE shell
  /\ UNCHANGED <<parent, pid, killed, nextpid, waitlock, plock, named>>

----------------------------------------------------------------------------
(***************************************************************************)
(* wait()                                                                  *)
(***************************************************************************)
Wait(p) ==
  /\ Syscall(p) /\ MayWait(p)
  /\ Goto(p, "wait")
  /\ UNCHANGED <<state, parent, pid, killed, nextpid, waitlock, plock, np, shell,
                 named>>

\* acquire(&wait_lock), on entry and again after sleep().
WaitLock(p) ==
  /\ At(p, "wait") /\ waitlock = None
  /\ waitlock' = p
  /\ Goto(p, "scan")
  /\ UNCHANGED <<state, parent, pid, killed, nextpid, plock, np, shell, named>>

\* The scan's find: the first ZOMBIE child, whose p->lock has to be free.  The
\* states of the other children cannot become ZOMBIE under wait_lock.
Found_Unlocked(p, q) ==
  /\ q \in Children(p) /\ state[q] = "ZOMBIE"
  /\ \A r \in Children(p) : state[r] = "ZOMBIE" => q <= r
Found(p, q) ==
  /\ q \in Children(p) /\ state[q] = "ZOMBIE"
  /\ \A r \in Children(p) : state[r] = "ZOMBIE" => q <= r
  /\ ~plock[q]

\* What freeproc() leaves in killed.
FreedKilled(q) == FALSE

\* wait() frees the child and returns its pid; init notes the end of its shell.
WaitReap(p) ==
  /\ At(p, "scan")
  /\ \E q \in Proc :
       /\ Found(p, q)
       /\ state' = [state EXCEPT ![q] = "UNUSED"]
       /\ pid' = [pid EXCEPT ![q] = 0]
       /\ parent' = [parent EXCEPT ![q] = None]
       /\ killed' = [killed EXCEPT ![q] = FreedKilled(q)]
       /\ shell' = IF p = init /\ pid[q] = shell THEN 0 ELSE shell
  /\ waitlock' = None
  /\ Goto(p, "user")
  /\ UNCHANGED <<nextpid, plock, np, named>>

\* copyout() of the exit status fails: the child stays a zombie.
WaitBadAddr(p) ==
  /\ At(p, "scan") /\ p # init
  /\ \E q \in Proc : Found(p, q)
  /\ waitlock' = None
  /\ Goto(p, "user")
  /\ UNCHANGED <<state, parent, pid, killed, nextpid, plock, np, shell, named>>

NoZombieChild(p) == \A q \in Children(p) : state[q] # "ZOMBIE"

\* No children, or killed(p): return -1.
WaitFail(p) ==
  /\ At(p, "scan") /\ NoZombieChild(p)
  /\ Children(p) = {} \/ killed[p]
  /\ waitlock' = None
  /\ Goto(p, Failed(p))
  /\ UNCHANGED <<state, parent, pid, killed, nextpid, plock, np, shell, named>>

\* Children, none of them exited, and killed(p) answered 0.
WaitSleep(p) ==
  /\ At(p, "scan") /\ NoZombieChild(p)
  /\ Children(p) # {} /\ ~killed[p]
  /\ Goto(p, "sleep")
  /\ UNCHANGED <<state, parent, pid, killed, nextpid, waitlock, plock, np, shell,
                 named>>

\* sleep(p, &wait_lock): acquire(&p->lock) ...
SleepLockSelf(p) ==
  /\ At(p, "sleep")
  /\ plock' = [plock EXCEPT ![p] = TRUE]
  /\ Goto(p, "commit")
  /\ UNCHANGED <<state, parent, pid, killed, nextpid, waitlock, np, shell, named>>

\* ... release(&wait_lock) ...
SleepRelease(p) ==
  /\ At(p, "commit")
  /\ waitlock' = None
  /\ Goto(p, "gosleep")
  /\ UNCHANGED <<state, parent, pid, killed, nextpid, plock, np, shell, named>>

\* ... and SLEEPING, into sched().
SleepSched(p) ==
  /\ At(p, "gosleep")
  /\ state' = [state EXCEPT ![p] = "SLEEPING"]
  /\ Goto(p, "asleep")
  /\ UNCHANGED <<parent, pid, killed, nextpid, waitlock, plock, np, shell, named>>

----------------------------------------------------------------------------
(***************************************************************************)
(* exit() and kill()                                                       *)
(***************************************************************************)

\* wakeup() waits for the p->lock of the process it looks at.
CanWake_Unlocked(q) == TRUE
CanWake(q) == ~plock[q]

\* The state after wakeup(q), which takes q's lock.
Awake(q) == IF state[q] = "SLEEPING" THEN [state EXCEPT ![q] = "RUNNABLE"]
            ELSE state

\* sys_exit(), or an exception in user mode: setkilled(p), then exit(-1).
Exit(p) ==
  /\ Syscall(p) /\ p # init
  /\ \/ UNCHANGED <<killed, named>>
     \/ /\ killed' = [killed EXCEPT ![p] = TRUE]
        /\ named' = named \union {pid[p]}
  /\ Goto(p, "exit")
  /\ UNCHANGED <<state, parent, pid, nextpid, waitlock, plock, np, shell>>

\* usertrap() finds killed(p) on the way in or out: exit(-1).
KilledExit(p) ==
  /\ At(p, "user") /\ killed[p]
  /\ Goto(p, "exit")
  /\ UNCHANGED <<state, parent, pid, killed, nextpid, waitlock, plock, np, shell,
                 named>>

\* exit() of init panics.
ExitInit(p) ==
  /\ At(p, "exit") /\ p = init
  /\ Goto(p, "panic")
  /\ UNCHANGED <<state, parent, pid, killed, nextpid, waitlock, plock, np, shell,
                 named>>

\* Files and cwd closed, acquire(&wait_lock).
ExitLock(p) ==
  /\ At(p, "exit") /\ p # init /\ waitlock = None
  /\ waitlock' = p
  /\ Goto(p, "exit1")
  /\ UNCHANGED <<state, parent, pid, killed, nextpid, plock, np, shell, named>>

\* Whom reparent() gives the children of p to.
NewParent(p) == [q \in Proc |-> IF parent[q] = p THEN init ELSE parent[q]]

\* reparent(p): the children go to init, which is woken if there are any.
ExitReparent(p) ==
  /\ At(p, "exit1")
  /\ Children(p) = {} \/ CanWake(init)
  /\ parent' = NewParent(p)
  /\ state' = IF Children(p) = {} THEN state ELSE Awake(init)
  /\ Goto(p, "exit2")
  /\ UNCHANGED <<pid, killed, nextpid, waitlock, plock, np, shell, named>>

\* wakeup(p->parent).
ExitWakeParent(p) ==
  /\ At(p, "exit2") /\ CanWake(parent[p])
  /\ state' = Awake(parent[p])
  /\ Goto(p, "exit3")
  /\ UNCHANGED <<parent, pid, killed, nextpid, waitlock, plock, np, shell, named>>

\* acquire(&p->lock), ZOMBIE.
ExitZombie(p) ==
  /\ At(p, "exit3") /\ ~plock[p]
  /\ plock' = [plock EXCEPT ![p] = TRUE]
  /\ state' = [state EXCEPT ![p] = "ZOMBIE"]
  /\ Goto(p, "exit4")
  /\ UNCHANGED <<parent, pid, killed, nextpid, waitlock, np, shell, named>>

\* release(&wait_lock), into sched() for good.
ExitRelease_Kept(p) ==
  /\ pc[p] = "exit4"
  /\ Goto(p, "zombie")
  /\ UNCHANGED <<state, parent, pid, killed, nextpid, waitlock, plock, np, shell,
                 named>>
ExitRelease(p) ==
  /\ pc[p] = "exit4"
  /\ waitlock' = None
  /\ Goto(p, "zombie")
  /\ UNCHANGED <<state, parent, pid, killed, nextpid, plock, np, shell, named>>

\* kill(k): the slot found to have that pid, UNUSED slots (pid 0) included.
Kill(p, k) ==
  /\ Syscall(p) /\ p # init
  /\ \E q \in Proc :
       /\ pid[q] = k /\ ~plock[q]
       /\ killed' = [killed EXCEPT ![q] = TRUE]
       /\ state' = Awake(q)
  /\ named' = named \union {k}
  /\ UNCHANGED <<parent, pid, nextpid, waitlock, plock, pc, np, shell>>

----------------------------------------------------------------------------
\* What the kernel does by itself once a process is in it.
KernelStep(p) ==
  \/ Resume(p) \/ ForkParent(p) \/ ForkRunnable(p)
  \/ WaitLock(p) \/ WaitReap(p) \/ WaitFail(p) \/ WaitSleep(p)
  \/ SleepLockSelf(p) \/ SleepRelease(p) \/ SleepSched(p)
  \/ KilledExit(p) \/ ExitInit(p) \/ ExitLock(p) \/ ExitReparent(p)
  \/ ExitWakeParent(p) \/ ExitZombie(p) \/ ExitRelease(p)

\* What a user program chooses to do, and what may go wrong.
UserStep(p) ==
  \/ Fork(p) \/ ForkNoSlot(p) \/ ForkNoMem(p) \/ Wait(p) \/ Exit(p)
  \/ \E k \in KillPids : Kill(p, k)

Next ==
  \E p \in Proc : \/ KernelStep(p) \/ UserStep(p) \/ WaitBadAddr(p)
                  \/ Swtch(p) \/ Dispatch(p)

Spec == Init /\ [][Next]_vars

(***************************************************************************)
(* Fairness.  swtch() is done once begun and scheduler() visits every slot *)
(* (WF).  A process in the kernel goes on; the spin locks on its way are   *)
(* held for short and finite times, and a CPU that spins for one gets it   *)
(* in the end (SF).  init runs its program for ever.  No other process is  *)
(* obliged to fork, wait, exit or kill.                                    *)
(***************************************************************************)
Fairness ==
  /\ \A p \in Proc : /\ WF_vars(Swtch(p)) /\ WF_vars(Dispatch(p))
                     /\ SF_vars(KernelStep(p))
  /\ WF_vars(UserStep(init))

FairSpec == Spec /\ Fairness

----------------------------------------------------------------------------
(***************************************************************************)
(* Properties                                                              *)
(***************************************************************************)
Live == {"RUNNABLE", "RUNNING", "SLEEPING"}

\* exit()/reparent()/fork(): a process that exists and is not init has a
\* parent that has not exited, so that wakeup(p->parent) has somebody to wake
\* and somebody will reap it.
ParentAlive ==
  \A p \in Proc \ {init} : state[p] \in Live \union {"ZOMBIE"} =>
    parent[p] # None /\ state[parent[p]] \in Live

\* wait(): "make sure the child isn't still in exit() or swtch()".  A slot that
\* is free, or that fork() is building a new process in, has no kernel thread
\* left on its stack.
FreeSlotHasNoThread ==
  \A p \in Proc : state[p] \in {"UNUSED", "USED"} => pc[p] = "none"

\* exit()/wait(): no parent sleeps in wait(), or is bound to, while one of its
\* children is a zombie, its own or one that it inherited as init.
NoMissedExit ==
  \A p \in Proc :
    pc[p] = "gosleep" \/ state[p] = "SLEEPING" => NoZombieChild(p)

\* kill(): "Kill the process with the given pid": a process is killed only if
\* kill() was called for its pid (or it faulted), never because of an earlier
\* process of its slot.  The one exception is kill(0): kill() does not look at
\* the state of a slot, 0 is the pid of the free ones, and the next process in
\* the slot it finds is killed though nobody named it.
KilledWasNamed ==
  \A p \in Proc : state[p] \in Live /\ killed[p] => {0, pid[p]} \intersect named # {}

\* wait(), fork() and kill(): a slot that is taken again starts clean, without a
\* thread and without a kill of the process it had before.
SlotsReusedClean == TypeOK /\ FreeSlotHasNoThread /\ KilledWasNamed

\* exit(), reparent() and wait(): whoever exits has a parent, and the parent
\* sees it.
ExitIsSeen == ParentAlive /\ NoMissedExit

\* exit()/reparent()/init.c: init reaps every zombie that is or becomes its
\* child, unless init itself was made to exit.
InitReaps ==
  \A p \in Proc : (state[p] = "ZOMBIE" /\ parent[p] = init)
                  ~> (state[p] = "UNUSED" \/ pc[init] \in {"exit", "panic"})
=============================================================================
