---------------------------- MODULE Xv6ProcProofs ---------------------------
(***************************************************************************)
(* Proofs about Xv6Proc, for every size of the process table, every bound  *)
(* on the pids and every set of pids that kill() is called with; and about *)
(* Xv6SleepLock, S here, for every such size and every set of CPUs.        *)
(***************************************************************************)
EXTENDS Xv6Proc, MCXv6SleepLock, TLAPS

\* Where a process runs without its p->lock, and where it holds wait_lock.
Running == {"user", "fork1", "fork2", "wait", "scan", "sleep", "exit", "exit1",
            "exit2", "exit3", "panic"}
WaitLockPCs == {"scan", "sleep", "commit", "exit1", "exit2", "exit3", "exit4"}

\* What the position of p's kernel thread says of p->state and p->lock.
Thread(p) ==
  /\ pc[p] = "none" => state[p] \in {"UNUSED", "USED", "ZOMBIE"} /\ ~plock[p]
  /\ pc[p] = "newborn" => \/ state[p] = "RUNNABLE" /\ ~plock[p]
                          \/ state[p] = "RUNNING" /\ plock[p]
  /\ pc[p] \in Running => state[p] = "RUNNING" /\ ~plock[p]
  /\ pc[p] \in {"commit", "gosleep"} => state[p] = "RUNNING" /\ plock[p]
  /\ pc[p] = "asleep" => \/ state[p] = "SLEEPING"
                         \/ state[p] = "RUNNABLE" /\ ~plock[p]
                         \/ state[p] = "RUNNING" /\ plock[p]
  /\ pc[p] \in {"exit4", "zombie"} => state[p] = "ZOMBIE" /\ plock[p]
ThreadInv == \A p \in Proc : Thread(p)

\* wait_lock is held exactly where the code of its holder says.
WaitLockHeld == \A p \in Proc : pc[p] \in WaitLockPCs <=> waitlock = p

\* init never gets past the panic() of exit().
InitInv ==
  pc[init] \notin {"none", "exit1", "exit2", "exit3", "exit4", "zombie"}

\* fork() builds its child in a slot of its own.
Forking(p) == pc[p] \in {"fork1", "fork2"}
NpInv ==
  /\ \A p \in Proc : Forking(p) => np[p] \in Proc /\ state[np[p]] = "USED"
  /\ \A p \in Proc : pc[p] = "fork2" => parent[np[p]] = p
  /\ \A p, q \in Proc :
       Forking(p) /\ Forking(q) /\ np[p] = np[q] => p = q

\* Nobody has a parent that has given its children away.
ParentInv ==
  \A p \in Proc \ {init} : state[p] \in Live \union {"ZOMBIE"} =>
    /\ parent[p] \in Proc
    /\ state[parent[p]] \in Live
    /\ pc[parent[p]] \notin {"exit2", "exit3"}

\* From the moment wait() has looked at the children until it is woken, none of
\* them is a zombie; and exit() turns a process into one only after its parent
\* was woken, with wait_lock held since.
Bound(p) == pc[p] \in {"sleep", "commit", "gosleep"} \/ state[p] = "SLEEPING"
SleepInv ==
  /\ \A p \in Proc : Bound(p) => NoZombieChild(p)
  /\ \A p \in Proc : pc[p] = "exit3" => ~Bound(parent[p])

\* A kill of a free slot is a kill(0).
KilledInv ==
  /\ \A p \in Proc : state[p] = "UNUSED" => pid[p] = 0
  /\ \A p \in Proc : killed[p] => 0 \in named \/ pid[p] \in named

\* The inductive invariant.
Threads == ThreadInv /\ WaitLockHeld /\ InitInv
IInv == TypeOK /\ Threads /\ NpInv /\ ParentInv /\ SleepInv /\ KilledInv
----------------------------------------------------------------------------
(***************************************************************************)
(* The inductive invariant holds at first, and every step keeps it.        *)
(***************************************************************************)
USE NPROCAssumption, MaxPidAssumption, NoneAssumption DEF Proc, init

\* procinit() and userinit() leave one process, which is init.
LEMMA InitIInv == Init => IInv
<1> SUFFICES ASSUME Init PROVE IInv
  OBVIOUS
<1> USE DEF Init
<1>1. TypeOK
  <2>1. killed \in [Proc -> BOOLEAN]
    OBVIOUS
  <2>2. plock \in [Proc -> BOOLEAN]
    OBVIOUS
  <2>3. pc \in [Proc -> PCs] /\ state \in [Proc -> States]
    BY DEF PCs, States
  <2>4. pid \in [Proc -> 0 .. MaxPid] /\ nextpid \in 1 .. MaxPid + 1
    OBVIOUS
  <2>5. parent \in [Proc -> Proc \union {None}] /\ np \in [Proc -> Proc \union {None}]
    OBVIOUS
  <2>6. /\ waitlock \in Proc \union {None} /\ shell \in 0 .. MaxPid
        /\ named \in SUBSET (0 .. MaxPid)
    OBVIOUS
  <2> QED
    BY <2>1, <2>2, <2>3, <2>4, <2>5, <2>6 DEF TypeOK
<1>2. ThreadInv
  BY DEF ThreadInv, Thread, Running
<1>3. WaitLockHeld /\ InitInv
  BY DEF WaitLockHeld, InitInv, WaitLockPCs
<1>4. NpInv
  BY DEF NpInv, Forking
<1>5. ParentInv
  BY DEF ParentInv, Live
<1>6. SleepInv
  BY DEF SleepInv, Bound
<1>7. KilledInv
  BY DEF KilledInv
<1> QED
  BY <1>1, <1>2, <1>3, <1>4, <1>5, <1>6, <1>7 DEF IInv, Threads

\* Every step keeps the types.
LEMMA TypeStep == TypeOK /\ NpInv /\ [Next]_vars => TypeOK'
<1> SUFFICES ASSUME TypeOK /\ NpInv, [Next]_vars PROVE TypeOK'
  OBVIOUS
<1> USE KillPidsAssumption DEF TypeOK, PCs, States, At, Goto, Syscall
<1>1. ASSUME NEW p \in Proc, Resume(p) PROVE TypeOK'
  BY <1>1 DEF Resume
<1>2. ASSUME NEW p \in Proc, ForkParent(p) PROVE TypeOK'
  BY <1>2 DEF ForkParent
<1>3. ASSUME NEW p \in Proc, ForkRunnable(p) PROVE TypeOK'
  <2>1. np[p] \in Proc
    BY <1>3 DEF ForkRunnable, NpInv, Forking
  <2>2. pid[np[p]] \in 0 .. MaxPid
    BY <2>1
  <2> QED
    BY <1>3, <2>2 DEF ForkRunnable
<1>4. ASSUME NEW p \in Proc, WaitLock(p) PROVE TypeOK'
  BY <1>4 DEF WaitLock
<1>5. ASSUME NEW p \in Proc, WaitReap(p) PROVE TypeOK'
  BY <1>5 DEF WaitReap, Found, FreedKilled
<1>6. ASSUME NEW p \in Proc, WaitFail(p) PROVE TypeOK'
  BY <1>6 DEF WaitFail, Failed
<1>7. ASSUME NEW p \in Proc, WaitSleep(p) PROVE TypeOK'
  BY <1>7 DEF WaitSleep
<1>8. ASSUME NEW p \in Proc, SleepLockSelf(p) PROVE TypeOK'
  BY <1>8 DEF SleepLockSelf
<1>9. ASSUME NEW p \in Proc, SleepRelease(p) PROVE TypeOK'
  BY <1>9 DEF SleepRelease
<1>10. ASSUME NEW p \in Proc, SleepSched(p) PROVE TypeOK'
  BY <1>10 DEF SleepSched
<1>11. ASSUME NEW p \in Proc, KilledExit(p) PROVE TypeOK'
  BY <1>11 DEF KilledExit
<1>12. ASSUME NEW p \in Proc, ExitInit(p) PROVE TypeOK'
  BY <1>12 DEF ExitInit
<1>13. ASSUME NEW p \in Proc, ExitLock(p) PROVE TypeOK'
  BY <1>13 DEF ExitLock
<1>14. ASSUME NEW p \in Proc, ExitReparent(p) PROVE TypeOK'
  BY <1>14 DEF ExitReparent, NewParent, Awake, CanWake
<1>15. ASSUME NEW p \in Proc, ExitWakeParent(p) PROVE TypeOK'
  BY <1>15 DEF ExitWakeParent, Awake, CanWake
<1>16. ASSUME NEW p \in Proc, ExitZombie(p) PROVE TypeOK'
  BY <1>16 DEF ExitZombie
<1>17. ASSUME NEW p \in Proc, ExitRelease(p) PROVE TypeOK'
  BY <1>17 DEF ExitRelease
<1>18. ASSUME NEW p \in Proc, Fork(p) PROVE TypeOK'
  BY SMTT(30), <1>18 DEF Fork
<1>19. ASSUME NEW p \in Proc, ForkNoSlot(p) PROVE TypeOK'
  BY <1>19 DEF ForkNoSlot, Failed
<1>20. ASSUME NEW p \in Proc, ForkNoMem(p) PROVE TypeOK'
  BY <1>20 DEF ForkNoMem, Failed
<1>21. ASSUME NEW p \in Proc, Wait(p) PROVE TypeOK'
  BY <1>21 DEF Wait
<1>22. ASSUME NEW p \in Proc, Exit(p) PROVE TypeOK'
  <2>1. killed' \in [Proc -> BOOLEAN]
    BY <1>22 DEF Exit
  <2>2. named' \in SUBSET (0 .. MaxPid)
    <3>1. pid[p] \in 0 .. MaxPid
      OBVIOUS
    <3> QED
      BY <1>22, <3>1 DEF Exit
  <2> QED
    BY <1>22, <2>1, <2>2 DEF Exit
<1>23. ASSUME NEW p \in Proc, NEW k \in KillPids, Kill(p, k) PROVE TypeOK'
  BY <1>23 DEF Kill, Awake
<1>24. ASSUME NEW p \in Proc, WaitBadAddr(p) PROVE TypeOK'
  BY <1>24 DEF WaitBadAddr
<1>25. ASSUME NEW p \in Proc, Swtch(p) PROVE TypeOK'
  BY <1>25 DEF Swtch
<1>26. ASSUME NEW p \in Proc, Dispatch(p) PROVE TypeOK'
  BY <1>26 DEF Dispatch
<1>27. CASE UNCHANGED vars
  BY <1>27 DEF vars
<1> QED
  BY <1>1, <1>2, <1>3, <1>4, <1>5, <1>6, <1>7, <1>8, <1>9, <1>10, <1>11,
     <1>12, <1>13, <1>14, <1>15, <1>16, <1>17, <1>18, <1>19, <1>20, <1>21,
     <1>22, <1>23, <1>24, <1>25, <1>26, <1>27 DEF Next, KernelStep, UserStep

\* wait(), fork(): a slot that is free or being built has no thread and is not
\* locked.
LEMMA FreeSlot ==
  ASSUME TypeOK, ThreadInv, NEW q \in Proc, state[q] \in {"UNUSED", "USED"}
  PROVE  pc[q] = "none" /\ ~plock[q]
<1>1. pc[q] \in PCs /\ Thread(q)
  BY DEF TypeOK, ThreadInv
<1> QED
  BY <1>1 DEF Thread, PCs, Running

\* fork(): the slot of the child.
LEMMA NewChild ==
  ASSUME IInv, NEW p \in Proc, pc[p] = "fork2"
  PROVE  /\ np[p] \in Proc /\ np[p] # p /\ np[p] # init
         /\ state[np[p]] = "USED" /\ pc[np[p]] = "none" /\ parent[np[p]] = p
<1>1. np[p] \in Proc /\ state[np[p]] = "USED" /\ parent[np[p]] = p
  BY DEF IInv, NpInv, Forking
<1>2. pc[np[p]] = "none"
  BY <1>1, FreeSlot DEF IInv, Threads
<1> QED
  BY <1>1, <1>2 DEF IInv, Threads, InitInv


\* Every step keeps threads, states and locks in line.
LEMMA ThreadStep == IInv /\ [Next]_vars => Threads'
<1> SUFFICES ASSUME IInv, [Next]_vars PROVE Threads'
  OBVIOUS
<1>t. TypeOK'
  BY TypeStep DEF IInv
<1> USE <1>t DEF IInv, TypeOK, Threads, ThreadInv, Thread, Running,
   WaitLockHeld, WaitLockPCs, InitInv, At, Goto, Syscall
<1>1. ASSUME NEW p \in Proc, Resume(p) PROVE Threads'
  <2>1. CASE pc[p] = "newborn" /\ Goto(p, "user")
    BY <1>1, <2>1 DEF Resume
  <2>2. CASE pc[p] = "asleep" /\ Goto(p, "wait")
    BY <1>1, <2>2 DEF Resume
  <2> QED
    BY <1>1, <2>1, <2>2 DEF Resume
<1>2. ASSUME NEW p \in Proc, ForkParent(p) PROVE Threads'
  BY <1>2 DEF ForkParent
<1>3. ASSUME NEW p \in Proc, ForkRunnable(p) PROVE Threads'
  <2>1. /\ np[p] \in Proc /\ np[p] # p /\ np[p] # init
        /\ state[np[p]] = "USED" /\ pc[np[p]] = "none" /\ parent[np[p]] = p
    BY <1>3, NewChild DEF ForkRunnable
  <2> QED
    BY <1>3, <2>1 DEF ForkRunnable
<1>4. ASSUME NEW p \in Proc, WaitLock(p) PROVE Threads'
  BY <1>4 DEF WaitLock
<1>5. ASSUME NEW p \in Proc, WaitReap(p) PROVE Threads'
  BY <1>5 DEF WaitReap, Found, FreedKilled
<1>6. ASSUME NEW p \in Proc, WaitFail(p) PROVE Threads'
  BY <1>6 DEF WaitFail, Failed
<1>7. ASSUME NEW p \in Proc, WaitSleep(p) PROVE Threads'
  BY <1>7 DEF WaitSleep
<1>8. ASSUME NEW p \in Proc, SleepLockSelf(p) PROVE Threads'
  BY <1>8 DEF SleepLockSelf
<1>9. ASSUME NEW p \in Proc, SleepRelease(p) PROVE Threads'
  BY <1>9 DEF SleepRelease
<1>10. ASSUME NEW p \in Proc, SleepSched(p) PROVE Threads'
  BY <1>10 DEF SleepSched
<1>11. ASSUME NEW p \in Proc, KilledExit(p) PROVE Threads'
  BY <1>11 DEF KilledExit
<1>12. ASSUME NEW p \in Proc, ExitInit(p) PROVE Threads'
  BY <1>12 DEF ExitInit
<1>13. ASSUME NEW p \in Proc, ExitLock(p) PROVE Threads'
  BY <1>13 DEF ExitLock
<1>14. ASSUME NEW p \in Proc, ExitReparent(p) PROVE Threads'
  BY <1>14 DEF ExitReparent, NewParent, Awake, CanWake
<1>15. ASSUME NEW p \in Proc, ExitWakeParent(p) PROVE Threads'
  BY <1>15 DEF ExitWakeParent, Awake, CanWake
<1>16. ASSUME NEW p \in Proc, ExitZombie(p) PROVE Threads'
  BY <1>16 DEF ExitZombie
<1>17. ASSUME NEW p \in Proc, ExitRelease(p) PROVE Threads'
  BY <1>17 DEF ExitRelease
<1>18. ASSUME NEW p \in Proc, Fork(p) PROVE Threads'
  BY <1>18 DEF Fork
<1>19. ASSUME NEW p \in Proc, ForkNoSlot(p) PROVE Threads'
  BY <1>19 DEF ForkNoSlot, Failed
<1>20. ASSUME NEW p \in Proc, ForkNoMem(p) PROVE Threads'
  BY <1>20 DEF ForkNoMem, Failed
<1>21. ASSUME NEW p \in Proc, Wait(p) PROVE Threads'
  BY <1>21 DEF Wait
<1>22. ASSUME NEW p \in Proc, Exit(p) PROVE Threads'
  BY <1>22 DEF Exit
<1>23. ASSUME NEW p \in Proc, NEW k \in KillPids, Kill(p, k) PROVE Threads'
  BY <1>23 DEF Kill, Awake
<1>24. ASSUME NEW p \in Proc, WaitBadAddr(p) PROVE Threads'
  BY <1>24 DEF WaitBadAddr
<1>25. ASSUME NEW p \in Proc, Swtch(p) PROVE Threads'
  BY <1>25 DEF Swtch
<1>26. ASSUME NEW p \in Proc, Dispatch(p) PROVE Threads'
  BY <1>26 DEF Dispatch
<1>27. CASE UNCHANGED vars
  BY <1>27 DEF vars
<1> QED
  BY <1>1, <1>2, <1>3, <1>4, <1>5, <1>6, <1>7, <1>8, <1>9, <1>10, <1>11,
     <1>12, <1>13, <1>14, <1>15, <1>16, <1>17, <1>18, <1>19, <1>20, <1>21,
     <1>22, <1>23, <1>24, <1>25, <1>26, <1>27 DEF Next, KernelStep, UserStep

\* Every step keeps the slots that fork() builds in apart.
LEMMA NpStep == IInv /\ [Next]_vars => NpInv'
<1> SUFFICES ASSUME IInv, [Next]_vars PROVE NpInv'
  OBVIOUS
<1>t. TypeOK'
  BY TypeStep DEF IInv
<1> USE <1>t DEF IInv, TypeOK, Threads, ThreadInv, Thread, Running, NpInv,
   Forking, At, Goto, Syscall, PCs
<1>1. ASSUME NEW p \in Proc, Resume(p) PROVE NpInv'
  <2>1. CASE pc[p] = "newborn" /\ Goto(p, "user")
    BY <1>1, <2>1 DEF Resume
  <2>2. CASE pc[p] = "asleep" /\ Goto(p, "wait")
    BY <1>1, <2>2 DEF Resume
  <2> QED
    BY <1>1, <2>1, <2>2 DEF Resume
<1>2. ASSUME NEW p \in Proc, ForkParent(p) PROVE NpInv'
  BY <1>2 DEF ForkParent
<1>3. ASSUME NEW p \in Proc, ForkRunnable(p) PROVE NpInv'
  BY SMTT(30), <1>3 DEF ForkRunnable
<1>4. ASSUME NEW p \in Proc, WaitLock(p) PROVE NpInv'
  BY <1>4 DEF WaitLock
<1>5. ASSUME NEW p \in Proc, WaitReap(p) PROVE NpInv'
  BY <1>5 DEF WaitReap, Found, FreedKilled
<1>6. ASSUME NEW p \in Proc, WaitFail(p) PROVE NpInv'
  BY <1>6 DEF WaitFail, Failed
<1>7. ASSUME NEW p \in Proc, WaitSleep(p) PROVE NpInv'
  BY <1>7 DEF WaitSleep
<1>8. ASSUME NEW p \in Proc, SleepLockSelf(p) PROVE NpInv'
  BY <1>8 DEF SleepLockSelf
<1>9. ASSUME NEW p \in Proc, SleepRelease(p) PROVE NpInv'
  BY <1>9 DEF SleepRelease
<1>10. ASSUME NEW p \in Proc, SleepSched(p) PROVE NpInv'
  BY <1>10 DEF SleepSched
<1>11. ASSUME NEW p \in Proc, KilledExit(p) PROVE NpInv'
  BY <1>11 DEF KilledExit
<1>12. ASSUME NEW p \in Proc, ExitInit(p) PROVE NpInv'
  BY <1>12 DEF ExitInit
<1>13. ASSUME NEW p \in Proc, ExitLock(p) PROVE NpInv'
  BY <1>13 DEF ExitLock
<1>14. ASSUME NEW p \in Proc, ExitReparent(p) PROVE NpInv'
  BY <1>14 DEF ExitReparent, NewParent, Awake, CanWake
<1>15. ASSUME NEW p \in Proc, ExitWakeParent(p) PROVE NpInv'
  BY <1>15 DEF ExitWakeParent, Awake, CanWake
<1>16. ASSUME NEW p \in Proc, ExitZombie(p) PROVE NpInv'
  BY <1>16 DEF ExitZombie
<1>17. ASSUME NEW p \in Proc, ExitRelease(p) PROVE NpInv'
  BY <1>17 DEF ExitRelease
<1>18. ASSUME NEW p \in Proc, Fork(p) PROVE NpInv'
  BY <1>18 DEF Fork
<1>19. ASSUME NEW p \in Proc, ForkNoSlot(p) PROVE NpInv'
  BY <1>19 DEF ForkNoSlot, Failed
<1>20. ASSUME NEW p \in Proc, ForkNoMem(p) PROVE NpInv'
  BY <1>20 DEF ForkNoMem, Failed
<1>21. ASSUME NEW p \in Proc, Wait(p) PROVE NpInv'
  BY <1>21 DEF Wait
<1>22. ASSUME NEW p \in Proc, Exit(p) PROVE NpInv'
  BY <1>22 DEF Exit
<1>23. ASSUME NEW p \in Proc, NEW k \in KillPids, Kill(p, k) PROVE NpInv'
  BY <1>23 DEF Kill, Awake
<1>24. ASSUME NEW p \in Proc, WaitBadAddr(p) PROVE NpInv'
  BY <1>24 DEF WaitBadAddr
<1>25. ASSUME NEW p \in Proc, Swtch(p) PROVE NpInv'
  <2>1. CASE UNCHANGED pc
    BY <1>25, <2>1 DEF Swtch
  <2>2. CASE pc[p] = "zombie" /\ Goto(p, "none")
    BY <1>25, <2>2 DEF Swtch
  <2> QED
    BY <1>25, <2>1, <2>2 DEF Swtch
<1>26. ASSUME NEW p \in Proc, Dispatch(p) PROVE NpInv'
  BY <1>26 DEF Dispatch
<1>27. CASE UNCHANGED vars
  BY <1>27 DEF vars
<1> QED
  BY <1>1, <1>2, <1>3, <1>4, <1>5, <1>6, <1>7, <1>8, <1>9, <1>10, <1>11,
     <1>12, <1>13, <1>14, <1>15, <1>16, <1>17, <1>18, <1>19, <1>20, <1>21,
     <1>22, <1>23, <1>24, <1>25, <1>26, <1>27 DEF Next, KernelStep, UserStep

\* Every step keeps a live parent to everybody.
LEMMA ParentStep == IInv /\ [Next]_vars => ParentInv'
<1> SUFFICES ASSUME IInv, [Next]_vars PROVE ParentInv'
  OBVIOUS
<1>t. TypeOK'
  BY TypeStep DEF IInv
<1> USE <1>t DEF IInv, TypeOK, Threads, ThreadInv, Thread, Running, InitInv,
   ParentInv, Live, At, Goto, Syscall
<1>1. ASSUME NEW p \in Proc, Resume(p) PROVE ParentInv'
  BY <1>1 DEF Resume
<1>2. ASSUME NEW p \in Proc, ForkParent(p) PROVE ParentInv'
  BY <1>2 DEF ForkParent
<1>3. ASSUME NEW p \in Proc, ForkRunnable(p) PROVE ParentInv'
  <2>1. /\ np[p] \in Proc /\ np[p] # p /\ np[p] # init
        /\ state[np[p]] = "USED" /\ pc[np[p]] = "none" /\ parent[np[p]] = p
    BY <1>3, NewChild DEF ForkRunnable
  <2> QED
    BY <1>3, <2>1 DEF ForkRunnable
<1>4. ASSUME NEW p \in Proc, WaitLock(p) PROVE ParentInv'
  BY <1>4 DEF WaitLock
<1>5. ASSUME NEW p \in Proc, WaitReap(p) PROVE ParentInv'
  BY SMTT(30), <1>5 DEF WaitReap, Found, FreedKilled
<1>6. ASSUME NEW p \in Proc, WaitFail(p) PROVE ParentInv'
  BY <1>6 DEF WaitFail, Failed
<1>7. ASSUME NEW p \in Proc, WaitSleep(p) PROVE ParentInv'
  BY <1>7 DEF WaitSleep
<1>8. ASSUME NEW p \in Proc, SleepLockSelf(p) PROVE ParentInv'
  BY <1>8 DEF SleepLockSelf
<1>9. ASSUME NEW p \in Proc, SleepRelease(p) PROVE ParentInv'
  BY <1>9 DEF SleepRelease
<1>10. ASSUME NEW p \in Proc, SleepSched(p) PROVE ParentInv'
  BY <1>10 DEF SleepSched
<1>11. ASSUME NEW p \in Proc, KilledExit(p) PROVE ParentInv'
  BY <1>11 DEF KilledExit
<1>12. ASSUME NEW p \in Proc, ExitInit(p) PROVE ParentInv'
  BY <1>12 DEF ExitInit
<1>13. ASSUME NEW p \in Proc, ExitLock(p) PROVE ParentInv'
  BY <1>13 DEF ExitLock
<1>14. ASSUME NEW p \in Proc, ExitReparent(p) PROVE ParentInv'
  <2>1. p # init /\ pc[init] \notin {"exit2", "exit3"}
    BY <1>14 DEF ExitReparent
  <2>2. state[init] \in Live
    BY DEF PCs
  <2>3. \A q \in Proc : state'[q] = state[q] \/ (state[q] = "SLEEPING" /\ state'[q] = "RUNNABLE")
    BY <1>14 DEF ExitReparent, Awake
  <2>4. ASSUME NEW q \in Proc \ {init}, state'[q] \in Live \union {"ZOMBIE"}
        PROVE  /\ parent'[q] \in Proc /\ parent'[q] # p
               /\ state[parent'[q]] \in Live
               /\ pc[parent'[q]] \notin {"exit2", "exit3"}
    <3>1. state[q] \in Live \union {"ZOMBIE"}
      BY <2>3, <2>4
    <3> QED
      BY <1>14, <2>1, <2>2, <3>1 DEF ExitReparent, NewParent
  <2> QED
    BY ZenonT(60), <1>14, <2>3, <2>4 DEF ExitReparent
<1>15. ASSUME NEW p \in Proc, ExitWakeParent(p) PROVE ParentInv'
  BY <1>15 DEF ExitWakeParent, Awake, CanWake
<1>16. ASSUME NEW p \in Proc, ExitZombie(p) PROVE ParentInv'
  BY <1>16 DEF ExitZombie
<1>17. ASSUME NEW p \in Proc, ExitRelease(p) PROVE ParentInv'
  BY <1>17 DEF ExitRelease
<1>18. ASSUME NEW p \in Proc, Fork(p) PROVE ParentInv'
  BY <1>18 DEF Fork
<1>19. ASSUME NEW p \in Proc, ForkNoSlot(p) PROVE ParentInv'
  BY <1>19 DEF ForkNoSlot, Failed
<1>20. ASSUME NEW p \in Proc, ForkNoMem(p) PROVE ParentInv'
  BY <1>20 DEF ForkNoMem, Failed
<1>21. ASSUME NEW p \in Proc, Wait(p) PROVE ParentInv'
  BY <1>21 DEF Wait
<1>22. ASSUME NEW p \in Proc, Exit(p) PROVE ParentInv'
  BY <1>22 DEF Exit
<1>23. ASSUME NEW p \in Proc, NEW k \in KillPids, Kill(p, k) PROVE ParentInv'
  BY <1>23 DEF Kill, Awake
<1>24. ASSUME NEW p \in Proc, WaitBadAddr(p) PROVE ParentInv'
  BY <1>24 DEF WaitBadAddr
<1>25. ASSUME NEW p \in Proc, Swtch(p) PROVE ParentInv'
  BY <1>25 DEF Swtch
<1>26. ASSUME NEW p \in Proc, Dispatch(p) PROVE ParentInv'
  BY <1>26 DEF Dispatch
<1>27. CASE UNCHANGED vars
  BY <1>27 DEF vars
<1> QED
  BY <1>1, <1>2, <1>3, <1>4, <1>5, <1>6, <1>7, <1>8, <1>9, <1>10, <1>11,
     <1>12, <1>13, <1>14, <1>15, <1>16, <1>17, <1>18, <1>19, <1>20, <1>21,
     <1>22, <1>23, <1>24, <1>25, <1>26, <1>27 DEF Next, KernelStep, UserStep

\* Every step keeps the sleepers in wait() without zombies.
LEMMA SleepStep == IInv /\ [Next]_vars => SleepInv'
<1> SUFFICES ASSUME IInv, [Next]_vars PROVE SleepInv'
  OBVIOUS
<1>t. TypeOK'
  BY TypeStep DEF IInv
<1> USE <1>t DEF IInv, TypeOK, Threads, ThreadInv, Thread, Running,
   WaitLockHeld, WaitLockPCs, SleepInv, Bound, NoZombieChild, Children, At,
   Goto, Syscall
<1>1. ASSUME NEW p \in Proc, Resume(p) PROVE SleepInv'
  <2>1. CASE pc[p] = "newborn" /\ Goto(p, "user")
    BY <1>1, <2>1 DEF Resume
  <2>2. CASE pc[p] = "asleep" /\ Goto(p, "wait")
    BY <1>1, <2>2 DEF Resume
  <2> QED
    BY <1>1, <2>1, <2>2 DEF Resume
<1>2. ASSUME NEW p \in Proc, ForkParent(p) PROVE SleepInv'
  BY <1>2 DEF ForkParent
<1>3. ASSUME NEW p \in Proc, ForkRunnable(p) PROVE SleepInv'
  <2>1. np[p] \in Proc /\ np[p] # p /\ state[np[p]] = "USED"
    BY <1>3, NewChild DEF ForkRunnable
  <2>2. \A q \in Proc : pc[q] = "exit3" => parent[q] \in Proc
    BY DEF InitInv, ParentInv, Live
  <2>3. /\ \A q \in Proc : Bound(q)' => Bound(q)
        /\ \A q \in Proc : state'[q] = "ZOMBIE" => state[q] = "ZOMBIE"
        /\ \A q \in Proc : pc'[q] = "exit3" => pc[q] = "exit3"
        /\ parent' = parent
    BY <1>3, <2>1 DEF ForkRunnable
  <2> HIDE DEF Bound
  <2> QED
    BY SMTT(30), <2>2, <2>3
<1>4. ASSUME NEW p \in Proc, WaitLock(p) PROVE SleepInv'
  BY <1>4 DEF WaitLock
<1>5. ASSUME NEW p \in Proc, WaitReap(p) PROVE SleepInv'
  BY SMTT(30), <1>5 DEF WaitReap, Found, FreedKilled
<1>6. ASSUME NEW p \in Proc, WaitFail(p) PROVE SleepInv'
  BY <1>6 DEF WaitFail, Failed
<1>7. ASSUME NEW p \in Proc, WaitSleep(p) PROVE SleepInv'
  BY <1>7 DEF WaitSleep
<1>8. ASSUME NEW p \in Proc, SleepLockSelf(p) PROVE SleepInv'
  BY <1>8 DEF SleepLockSelf
<1>9. ASSUME NEW p \in Proc, SleepRelease(p) PROVE SleepInv'
  BY <1>9 DEF SleepRelease
<1>10. ASSUME NEW p \in Proc, SleepSched(p) PROVE SleepInv'
  BY <1>10 DEF SleepSched
<1>11. ASSUME NEW p \in Proc, KilledExit(p) PROVE SleepInv'
  BY <1>11 DEF KilledExit
<1>12. ASSUME NEW p \in Proc, ExitInit(p) PROVE SleepInv'
  BY <1>12 DEF ExitInit
<1>13. ASSUME NEW p \in Proc, ExitLock(p) PROVE SleepInv'
  BY <1>13 DEF ExitLock
<1>14. ASSUME NEW p \in Proc, ExitReparent(p) PROVE SleepInv'
  <2>1. \A q \in Proc : state'[q] = state[q] \/ state'[q] = "RUNNABLE"
    BY <1>14 DEF ExitReparent, Awake
  <2>2. \A q \in Proc : pc'[q] # "exit3"
    BY <1>14 DEF ExitReparent
  <2>3. ASSUME NEW q \in Proc, Bound(q)' PROVE NoZombieChild(q)'
    <3>1. Bound(q) /\ q # p
      BY <1>14, <2>1, <2>3 DEF ExitReparent
    <3>2. CASE q # init \/ Children(p) = {}
      <4>1. \A r \in Proc : parent'[r] = q => parent[r] = q
        BY <1>14, <3>1, <3>2 DEF ExitReparent, NewParent
      <4>2. NoZombieChild(q)
        BY <3>1
      <4> QED
        BY <2>1, <4>1, <4>2
    <3>3. CASE q = init /\ Children(p) # {}
      <4>1. state'[q] # "SLEEPING" /\ ~plock[q]
        BY <1>14, <3>3 DEF ExitReparent, Awake, CanWake
      <4>2. pc'[q] = pc[q] /\ pc[q] \notin {"sleep", "commit", "gosleep"}
        BY <1>14, <3>1, <4>1 DEF ExitReparent
      <4> QED
        BY <2>3, <4>1, <4>2
    <3> QED
      BY <3>2, <3>3
  <2> QED
    BY <2>2, <2>3
<1>15. ASSUME NEW p \in Proc, ExitWakeParent(p) PROVE SleepInv'
  <2>1. parent[p] \in Proc /\ parent[p] # p
    BY <1>15 DEF ExitWakeParent, InitInv, ParentInv, Live
  <2>2. \A q \in Proc : state'[q] = state[q] \/ state'[q] = "RUNNABLE"
    BY <1>15, <2>1 DEF ExitWakeParent, Awake
  <2>3. \A q \in Proc : pc[q] = "exit3" => q = p
    BY <1>15 DEF ExitWakeParent
  <2>4. state'[parent[p]] # "SLEEPING"
    BY <1>15, <2>1 DEF ExitWakeParent, Awake
  <2>5. pc[parent[p]] \notin {"sleep", "commit", "gosleep"}
    BY <1>15, <2>1 DEF ExitWakeParent, CanWake
  <2>6. ~Bound(parent[p])'
    BY <1>15, <2>1, <2>4, <2>5 DEF ExitWakeParent
  <2>7. ASSUME NEW q \in Proc, Bound(q)' PROVE NoZombieChild(q)'
    <3>1. Bound(q)
      BY <1>15, <2>2, <2>7 DEF ExitWakeParent
    <3>2. NoZombieChild(q) /\ parent' = parent
      BY <1>15, <3>1 DEF ExitWakeParent
    <3> QED
      BY <2>2, <3>2
  <2> QED
    BY <1>15, <2>3, <2>6, <2>7 DEF ExitWakeParent
<1>16. ASSUME NEW p \in Proc, ExitZombie(p) PROVE SleepInv'
  BY <1>16 DEF ExitZombie
<1>17. ASSUME NEW p \in Proc, ExitRelease(p) PROVE SleepInv'
  BY <1>17 DEF ExitRelease
<1>18. ASSUME NEW p \in Proc, Fork(p) PROVE SleepInv'
  BY SMTT(30), <1>18 DEF Fork
<1>19. ASSUME NEW p \in Proc, ForkNoSlot(p) PROVE SleepInv'
  BY <1>19 DEF ForkNoSlot, Failed
<1>20. ASSUME NEW p \in Proc, ForkNoMem(p) PROVE SleepInv'
  BY <1>20 DEF ForkNoMem, Failed
<1>21. ASSUME NEW p \in Proc, Wait(p) PROVE SleepInv'
  BY <1>21 DEF Wait
<1>22. ASSUME NEW p \in Proc, Exit(p) PROVE SleepInv'
  BY <1>22 DEF Exit
<1>23. ASSUME NEW p \in Proc, NEW k \in KillPids, Kill(p, k) PROVE SleepInv'
  BY SMTT(30), <1>23 DEF Kill, Awake
<1>24. ASSUME NEW p \in Proc, WaitBadAddr(p) PROVE SleepInv'
  BY <1>24 DEF WaitBadAddr
<1>25. ASSUME NEW p \in Proc, Swtch(p) PROVE SleepInv'
  <2>1. CASE UNCHANGED pc
    BY <1>25, <2>1 DEF Swtch
  <2>2. CASE pc[p] = "zombie" /\ Goto(p, "none")
    BY <1>25, <2>2 DEF Swtch
  <2> QED
    BY <1>25, <2>1, <2>2 DEF Swtch
<1>26. ASSUME NEW p \in Proc, Dispatch(p) PROVE SleepInv'
  BY <1>26 DEF Dispatch
<1>27. CASE UNCHANGED vars
  BY <1>27 DEF vars
<1> QED
  BY <1>1, <1>2, <1>3, <1>4, <1>5, <1>6, <1>7, <1>8, <1>9, <1>10, <1>11,
     <1>12, <1>13, <1>14, <1>15, <1>16, <1>17, <1>18, <1>19, <1>20, <1>21,
     <1>22, <1>23, <1>24, <1>25, <1>26, <1>27 DEF Next, KernelStep, UserStep

\* Every step keeps kills to the processes they were meant for.
LEMMA KilledStep == IInv /\ [Next]_vars => KilledInv'
<1> SUFFICES ASSUME IInv, [Next]_vars PROVE KilledInv'
  OBVIOUS
<1>t. TypeOK'
  BY TypeStep DEF IInv
<1> USE <1>t DEF IInv, TypeOK, KilledInv, At, Goto, Syscall
<1>1. ASSUME NEW p \in Proc, Resume(p) PROVE KilledInv'
  BY <1>1 DEF Resume
<1>2. ASSUME NEW p \in Proc, ForkParent(p) PROVE KilledInv'
  BY <1>2 DEF ForkParent
<1>3. ASSUME NEW p \in Proc, ForkRunnable(p) PROVE KilledInv'
  BY <1>3 DEF ForkRunnable
<1>4. ASSUME NEW p \in Proc, WaitLock(p) PROVE KilledInv'
  BY <1>4 DEF WaitLock
<1>5. ASSUME NEW p \in Proc, WaitReap(p) PROVE KilledInv'
  BY <1>5 DEF WaitReap, Found, FreedKilled
<1>6. ASSUME NEW p \in Proc, WaitFail(p) PROVE KilledInv'
  BY <1>6 DEF WaitFail, Failed
<1>7. ASSUME NEW p \in Proc, WaitSleep(p) PROVE KilledInv'
  BY <1>7 DEF WaitSleep
<1>8. ASSUME NEW p \in Proc, SleepLockSelf(p) PROVE KilledInv'
  BY <1>8 DEF SleepLockSelf
<1>9. ASSUME NEW p \in Proc, SleepRelease(p) PROVE KilledInv'
  BY <1>9 DEF SleepRelease
<1>10. ASSUME NEW p \in Proc, SleepSched(p) PROVE KilledInv'
  BY <1>10 DEF SleepSched
<1>11. ASSUME NEW p \in Proc, KilledExit(p) PROVE KilledInv'
  BY <1>11 DEF KilledExit
<1>12. ASSUME NEW p \in Proc, ExitInit(p) PROVE KilledInv'
  BY <1>12 DEF ExitInit
<1>13. ASSUME NEW p \in Proc, ExitLock(p) PROVE KilledInv'
  BY <1>13 DEF ExitLock
<1>14. ASSUME NEW p \in Proc, ExitReparent(p) PROVE KilledInv'
  BY <1>14 DEF ExitReparent, NewParent, Awake, CanWake
<1>15. ASSUME NEW p \in Proc, ExitWakeParent(p) PROVE KilledInv'
  BY <1>15 DEF ExitWakeParent, Awake, CanWake
<1>16. ASSUME NEW p \in Proc, ExitZombie(p) PROVE KilledInv'
  BY <1>16 DEF ExitZombie
<1>17. ASSUME NEW p \in Proc, ExitRelease(p) PROVE KilledInv'
  BY <1>17 DEF ExitRelease
<1>18. ASSUME NEW p \in Proc, Fork(p) PROVE KilledInv'
  BY <1>18 DEF Fork
<1>19. ASSUME NEW p \in Proc, ForkNoSlot(p) PROVE KilledInv'
  BY <1>19 DEF ForkNoSlot, Failed
<1>20. ASSUME NEW p \in Proc, ForkNoMem(p) PROVE KilledInv'
  BY <1>20 DEF ForkNoMem, Failed
<1>21. ASSUME NEW p \in Proc, Wait(p) PROVE KilledInv'
  BY <1>21 DEF Wait
<1>22. ASSUME NEW p \in Proc, Exit(p) PROVE KilledInv'
  BY <1>22 DEF Exit
<1>23. ASSUME NEW p \in Proc, NEW k \in KillPids, Kill(p, k) PROVE KilledInv'
  BY <1>23 DEF Kill, Awake
<1>24. ASSUME NEW p \in Proc, WaitBadAddr(p) PROVE KilledInv'
  BY <1>24 DEF WaitBadAddr
<1>25. ASSUME NEW p \in Proc, Swtch(p) PROVE KilledInv'
  BY <1>25 DEF Swtch
<1>26. ASSUME NEW p \in Proc, Dispatch(p) PROVE KilledInv'
  BY <1>26 DEF Dispatch
<1>27. CASE UNCHANGED vars
  BY <1>27 DEF vars
<1> QED
  BY <1>1, <1>2, <1>3, <1>4, <1>5, <1>6, <1>7, <1>8, <1>9, <1>10, <1>11,
     <1>12, <1>13, <1>14, <1>15, <1>16, <1>17, <1>18, <1>19, <1>20, <1>21,
     <1>22, <1>23, <1>24, <1>25, <1>26, <1>27 DEF Next, KernelStep, UserStep
----------------------------------------------------------------------------
(***************************************************************************)
(* The theorems.                                                           *)
(***************************************************************************)

\* The inductive invariant holds in every reachable state.
THEOREM Invariance == Spec => []IInv
<1>1. IInv /\ [Next]_vars => IInv'
  BY TypeStep, ThreadStep, NpStep, ParentStep, SleepStep, KilledStep DEF IInv
<1> QED
  BY InitIInv, <1>1, PTL DEF Spec

\* wait(), fork() and kill(): a slot of the process table is reused without a
\* thread on its stack, and nobody dies of a kill() that named another process,
\* except after kill(0).
THEOREM SlotsReused == Spec => []SlotsReusedClean
<1>1. IInv => SlotsReusedClean
  <2> SUFFICES ASSUME IInv PROVE SlotsReusedClean
    OBVIOUS
  <2>1. FreeSlotHasNoThread
    BY FreeSlot DEF IInv, Threads, FreeSlotHasNoThread
  <2>2. KilledWasNamed
    BY DEF IInv, KilledInv, KilledWasNamed
  <2> QED
    BY <2>1, <2>2 DEF SlotsReusedClean, IInv
<1> QED
  BY Invariance, <1>1, PTL

\* exit(), reparent() and wait(): everybody but init has a parent that has not
\* exited, and no parent sleeps in wait() over a zombie.
THEOREM ExitsSeen == Spec => []ExitIsSeen
<1>1. IInv => ExitIsSeen
  <2> SUFFICES ASSUME IInv PROVE ExitIsSeen
    OBVIOUS
  <2>1. ParentAlive
    BY DEF IInv, ParentInv, ParentAlive
  <2>2. NoMissedExit
    BY DEF IInv, SleepInv, Bound, NoMissedExit
  <2> QED
    BY <2>1, <2>2 DEF ExitIsSeen
<1> QED
  BY Invariance, <1>1, PTL

----------------------------------------------------------------------------
(***************************************************************************)
(* Xv6SleepLock                                                            *)
(***************************************************************************)
\* lk->lk is held exactly where the code of its holder says.
LkHeld == \A p \in S!Proc : pc[p] \in S!LkPCs <=> lk = p

\* A process only prepares to sleep on a lock it saw taken, and lk->lk keeps
\* it taken until release(lk).
SawLocked == \A p \in S!Proc : pc[p] \in {"sleep", "commit"} => locked

\* What p->lock, p->state and p's position say of each other.
CtxOK(p) ==
  /\ ctx[p] = "run" => /\ state[p] = "RUNNING" /\ pc[p] # "asleep"
                       /\ plock[p] <=> pc[p] \in {"commit", "gosleep"}
  /\ ctx[p] # "run" => pc[p] \in S!Interruptible \union {"asleep"}
  /\ ctx[p] = "sched" => plock[p] /\ state[p] # "RUNNING"
  /\ ctx[p] = "off" => ~plock[p] /\ state[p] # "RUNNING"
  /\ ctx[p] = "resume" => plock[p] /\ state[p] = "RUNNING"
  /\ pc[p] = "asleep" => chan[p] = "lk"
  /\ state[p] = "SLEEPING" => pc[p] = "asleep"

CtxInv == \A p \in S!Proc : CtxOK(p)

\* c->proc names a process whose context is not saved away.
CpuInv == \A c \in CPU : cpu[c] # None => ctx[cpu[c]] # "off"

\* The sleep lock names a holder exactly while it is locked.
PidInv == locked <=> holder # None

\* The inductive invariant.
LockInv == /\ S!TypeOK /\ LkHeld /\ SawLocked /\ CtxInv /\ CpuInv /\ PidInv
        /\ S!SleepLockExclusive /\ S!KernelStackExclusive /\ S!NoLostWakeup

\* Initially nobody runs and the lock is free.
LEMMA LockInit == S!Init => LockInv
<1> SUFFICES ASSUME S!Init PROVE LockInv
  OBVIOUS
<1> USE NPROCAssumption, NoneAssumption DEF S!Init, S!Proc, Proc
<1>1. S!TypeOK
  <2>1. lk \in S!Proc \union {None} /\ holder \in S!Proc \union {None}
    OBVIOUS
  <2>2. locked \in BOOLEAN
    OBVIOUS
  <2>3. plock \in [S!Proc -> BOOLEAN]
    OBVIOUS
  <2>4. state \in [S!Proc -> {"RUNNABLE", "RUNNING",
  "SLEEPING"}] /\ chan \in [S!Proc -> {"0", "lk"}]
    OBVIOUS
  <2>5. cpu \in [CPU -> S!Proc \union {None}] /\ ctx \in [S!Proc -> {"run",
  "sched", "off", "resume"}]
    OBVIOUS
  <2>6. pc \in [S!Proc -> S!PCs] /\ scan \in [S!Proc -> 1 .. NPROC + 1]
    BY DEF S!PCs
  <2> QED BY <2>1, <2>2, <2>3, <2>4, <2>5, <2>6 DEF S!TypeOK
<1>2. LkHeld /\ SawLocked /\ PidInv
  BY DEF LkHeld, SawLocked, PidInv, S!LkPCs
<1>3. CtxInv
  BY DEF CtxInv, CtxOK, S!Interruptible
<1>4. CpuInv /\ S!KernelStackExclusive
  BY DEF CpuInv, S!KernelStackExclusive
<1>5. S!SleepLockExclusive /\ S!NoLostWakeup
  BY DEF S!SleepLockExclusive, S!NoLostWakeup, S!Holds, S!HoldingSleep
<1> QED
  BY <1>1, <1>2, <1>3, <1>4, <1>5 DEF LockInv

\* Every step keeps the types.
LEMMA LockTypeStep == S!TypeOK /\ [S!Next]_S!vars => S!TypeOK'
<1> SUFFICES ASSUME S!TypeOK, [S!Next]_S!vars PROVE S!TypeOK'
  OBVIOUS
<1> USE NPROCAssumption DEF S!TypeOK, S!PCs, S!Proc, Proc
<1>1. ASSUME NEW p \in S!Proc, S!Step(p) PROVE S!TypeOK'
  <2>1. CASE S!AcquireSleepWait(p)
    BY <2>1 DEF S!AcquireSleepWait, S!At, S!Goto
  <2>2. CASE S!AcquireSleepTake(p)
    BY <2>2 DEF S!AcquireSleepTake, S!At, S!Goto
  <2>3. CASE S!SleepLockSelf(p)
    BY <2>3 DEF S!SleepLockSelf, S!At, S!Goto
  <2>4. CASE S!SleepRelease(p)
    BY <2>4 DEF S!SleepRelease, S!At, S!Goto
  <2>5. CASE S!SleepSched(p)
    BY <2>5 DEF S!SleepSched, S!At, S!Goto
  <2>6. CASE S!SleepResume(p)
    BY <2>6 DEF S!SleepResume, S!At, S!Goto
  <2>7. CASE S!YieldResume(p)
    BY <2>7 DEF S!YieldResume, S!At, S!Goto
  <2>8. CASE S!CallReleaseSleep(p)
    BY <2>8 DEF S!CallReleaseSleep, S!At, S!Goto
  <2>9. CASE S!ReleaseSleepUnlock(p)
    <3>1. locked' \in BOOLEAN
      BY <2>9 DEF S!ReleaseSleepUnlock
    <3>2. /\ holder' \in S!Proc \union {None}
          /\ pc' \in [S!Proc -> S!PCs]
          /\ scan' \in [S!Proc -> 1 .. NPROC + 1]
      BY <2>9 DEF S!ReleaseSleepUnlock, S!Goto, S!FirstSlot
    <3> QED
      BY <2>9, <3>1, <3>2 DEF S!ReleaseSleepUnlock
  <2>10. CASE S!Wakeup(p)
    BY <2>10 DEF S!Wakeup, S!At, S!Goto
  <2>11. CASE S!ReleaseSleepDone(p)
    BY <2>11 DEF S!ReleaseSleepDone, S!At, S!Goto
  <2> QED
    BY <1>1, <2>1, <2>2, <2>3, <2>4, <2>5, <2>6, <2>7, <2>8, <2>9, <2>10,
       <2>11 DEF S!Step
<1>2. ASSUME NEW p \in S!Proc, \/ S!CallAcquireSleep(p) \/ S!AcquireSleepLk(p)
                             \/ S!ReleaseSleepLk(p) \/ S!Yield(p)
      PROVE S!TypeOK'
  BY ZenonT(60), <1>2 DEF S!CallAcquireSleep, S!AcquireSleepLk, S!ReleaseSleepLk, S!Yield,
     S!Acquire, S!At, S!Goto
<1>3. ASSUME NEW p \in S!Proc, NEW c \in CPU, S!Scheduler(c, p) PROVE S!TypeOK'
  BY <1>3 DEF S!Scheduler, S!Runnable
<1>4. ASSUME NEW p \in S!Proc, NEW q \in S!Proc, S!Kill(p, q) PROVE S!TypeOK'
  BY <1>4 DEF S!Kill, S!At
<1>5. ASSUME NEW c \in CPU, S!Swtch(c) PROVE S!TypeOK'
  BY <1>5 DEF S!Swtch
<1>6. CASE UNCHANGED S!vars
  BY <1>6 DEF S!vars
<1> QED
  BY <1>1, <1>2, <1>3, <1>4, <1>5, <1>6 DEF S!Next, S!Dispatch

\* Every step keeps the inductive invariant: one step of the proof per action.
LEMMA LockStep == LockInv /\ [S!Next]_S!vars => LockInv'
<1> SUFFICES ASSUME LockInv, [S!Next]_S!vars PROVE LockInv'
  OBVIOUS
<1>t. S!TypeOK'
  BY LockTypeStep DEF LockInv
<1> USE <1>t, NPROCAssumption, NoneAssumption DEF LockInv, S!TypeOK, S!Proc, Proc, S!PCs
<1>1. ASSUME NEW p \in S!Proc, S!AcquireSleepWait(p) PROVE LockInv'
  <2>1. LkHeld' /\ SawLocked'
    BY <1>1 DEF S!AcquireSleepWait, S!At, S!Goto, LkHeld, SawLocked, S!LkPCs
  <2>5. PidInv' /\ S!SleepLockExclusive'
    BY <1>1 DEF S!AcquireSleepWait, S!At, S!Goto, PidInv, S!SleepLockExclusive,
       S!Holds, S!HoldingSleep
  <2>2. CtxInv'
    BY <1>1 DEF S!AcquireSleepWait, S!At, S!Goto, CtxInv, CtxOK, S!Interruptible
  <2>3. CpuInv' /\ S!KernelStackExclusive'
    BY <1>1 DEF S!AcquireSleepWait, S!At, S!Goto, CpuInv, S!KernelStackExclusive,
       CtxInv, CtxOK
  <2>4. S!NoLostWakeup'
    BY <1>1 DEF S!AcquireSleepWait, S!At, S!Goto, S!NoLostWakeup, CtxInv, CtxOK,
       SawLocked, LkHeld, S!LkPCs
  <2> QED
    BY <1>t, <2>1, <2>2, <2>3, <2>4, <2>5
<1>2. ASSUME NEW p \in S!Proc, S!AcquireSleepTake(p) PROVE LockInv'
  <2>1. LkHeld' /\ SawLocked'
    BY <1>2 DEF S!AcquireSleepTake, S!At, S!Goto, LkHeld, SawLocked, S!LkPCs
  <2>5. PidInv' /\ S!SleepLockExclusive'
    <3>1. PidInv'
      BY <1>2 DEF S!AcquireSleepTake, PidInv
    <3>2. S!SleepLockExclusive'
      BY <1>2 DEF S!AcquireSleepTake, S!Free, S!At, S!Goto, S!SleepLockExclusive, S!Holds,
         S!HoldingSleep
    <3> QED
      BY <3>1, <3>2
  <2>2. CtxInv'
    <3> SUFFICES ASSUME NEW q \in S!Proc PROVE CtxOK(q)'
      BY DEF CtxInv
    <3>1. CtxOK(q)
      BY DEF CtxInv
    <3> QED
      BY <1>2, <3>1 DEF S!AcquireSleepTake, S!Free, S!At, S!Goto, CtxOK, S!Interruptible
  <2>3. CpuInv' /\ S!KernelStackExclusive'
    BY <1>2 DEF S!AcquireSleepTake, S!Free, S!At, S!Goto, CpuInv,
       S!KernelStackExclusive, CtxInv, CtxOK
  <2>4. S!NoLostWakeup'
    BY <1>2 DEF S!AcquireSleepTake, S!Free, S!At, S!Goto, S!NoLostWakeup, CtxInv,
       CtxOK, SawLocked, LkHeld, S!LkPCs
  <2> QED
    BY <1>t, <2>1, <2>2, <2>3, <2>4, <2>5
<1>3. ASSUME NEW p \in S!Proc, S!SleepLockSelf(p) PROVE LockInv'
  <2>1. LkHeld' /\ SawLocked'
    BY <1>3 DEF S!SleepLockSelf, S!At, S!Goto, LkHeld, SawLocked, S!LkPCs
  <2>5. PidInv' /\ S!SleepLockExclusive'
    BY <1>3 DEF S!SleepLockSelf, S!At, S!Goto, PidInv, S!SleepLockExclusive, S!Holds,
       S!HoldingSleep
  <2>2. CtxInv'
    BY <1>3 DEF S!SleepLockSelf, S!At, S!Goto, CtxInv, CtxOK, S!Interruptible
  <2>3. CpuInv' /\ S!KernelStackExclusive'
    BY <1>3 DEF S!SleepLockSelf, S!At, S!Goto, CpuInv, S!KernelStackExclusive,
       CtxInv, CtxOK
  <2>4. S!NoLostWakeup'
    BY <1>3 DEF S!SleepLockSelf, S!At, S!Goto, S!NoLostWakeup, CtxInv, CtxOK,
       SawLocked, LkHeld, S!LkPCs
  <2> QED
    BY <1>t, <2>1, <2>2, <2>3, <2>4, <2>5
<1>4. ASSUME NEW p \in S!Proc, S!SleepRelease(p) PROVE LockInv'
  <2>1. LkHeld' /\ SawLocked'
    BY <1>4 DEF S!SleepRelease, S!At, S!Goto, LkHeld, SawLocked, S!LkPCs
  <2>5. PidInv' /\ S!SleepLockExclusive'
    BY <1>4 DEF S!SleepRelease, S!At, S!Goto, PidInv, S!SleepLockExclusive, S!Holds,
       S!HoldingSleep
  <2>2. CtxInv'
    BY <1>4 DEF S!SleepRelease, S!At, S!Goto, CtxInv, CtxOK, S!Interruptible
  <2>3. CpuInv' /\ S!KernelStackExclusive'
    BY <1>4 DEF S!SleepRelease, S!At, S!Goto, CpuInv, S!KernelStackExclusive, CtxInv,
       CtxOK
  <2>4. S!NoLostWakeup'
    BY <1>4 DEF S!SleepRelease, S!At, S!Goto, S!NoLostWakeup, CtxInv, CtxOK,
       SawLocked, LkHeld, S!LkPCs
  <2> QED
    BY <1>t, <2>1, <2>2, <2>3, <2>4, <2>5
<1>5. ASSUME NEW p \in S!Proc, S!SleepSched(p) PROVE LockInv'
  <2>1. LkHeld' /\ SawLocked'
    BY <1>5 DEF S!SleepSched, S!At, S!Goto, LkHeld, SawLocked, S!LkPCs
  <2>5. PidInv' /\ S!SleepLockExclusive'
    BY <1>5 DEF S!SleepSched, S!At, S!Goto, PidInv, S!SleepLockExclusive, S!Holds,
       S!HoldingSleep
  <2>2. CtxInv'
    BY <1>5 DEF S!SleepSched, S!At, S!Goto, CtxInv, CtxOK, S!Interruptible
  <2>3. CpuInv' /\ S!KernelStackExclusive'
    BY <1>5 DEF S!SleepSched, S!At, S!Goto, CpuInv, S!KernelStackExclusive, CtxInv,
       CtxOK
  <2>4. S!NoLostWakeup'
    BY <1>5 DEF S!SleepSched, S!At, S!Goto, S!NoLostWakeup, CtxInv, CtxOK, SawLocked,
       LkHeld, S!LkPCs
  <2> QED
    BY <1>t, <2>1, <2>2, <2>3, <2>4, <2>5
<1>6. ASSUME NEW p \in S!Proc, S!SleepResume(p) PROVE LockInv'
  <2>1. LkHeld' /\ SawLocked'
    BY <1>6 DEF S!SleepResume, S!At, S!Goto, LkHeld, SawLocked, S!LkPCs
  <2>5. PidInv' /\ S!SleepLockExclusive'
    BY <1>6 DEF S!SleepResume, S!At, S!Goto, PidInv, S!SleepLockExclusive, S!Holds,
       S!HoldingSleep
  <2>2. CtxInv'
    BY <1>6 DEF S!SleepResume, S!At, S!Goto, CtxInv, CtxOK, S!Interruptible
  <2>3. CpuInv' /\ S!KernelStackExclusive'
    BY <1>6 DEF S!SleepResume, S!At, S!Goto, CpuInv, S!KernelStackExclusive, CtxInv,
       CtxOK
  <2>4. S!NoLostWakeup'
    BY <1>6 DEF S!SleepResume, S!At, S!Goto, S!NoLostWakeup, CtxInv, CtxOK,
       SawLocked, LkHeld, S!LkPCs
  <2> QED
    BY <1>t, <2>1, <2>2, <2>3, <2>4, <2>5
<1>7. ASSUME NEW p \in S!Proc, S!YieldResume(p) PROVE LockInv'
  <2>1. LkHeld' /\ SawLocked'
    BY <1>7 DEF S!YieldResume, S!At, S!Goto, LkHeld, SawLocked, S!LkPCs
  <2>5. PidInv' /\ S!SleepLockExclusive'
    BY <1>7 DEF S!YieldResume, S!At, S!Goto, PidInv, S!SleepLockExclusive, S!Holds,
       S!HoldingSleep
  <2>2. CtxInv'
    <3> SUFFICES ASSUME NEW q \in S!Proc PROVE CtxOK(q)'
      BY DEF CtxInv
    <3>1. CtxOK(q)
      BY DEF CtxInv
    <3>2. CASE q = p
      <4>1. ~plock'[p] /\ pc[p] \notin {"commit", "gosleep"}
        BY <1>7, <3>1, <3>2 DEF S!YieldResume, CtxOK, S!Interruptible
      <4> QED
        BY <1>7, <3>1, <3>2, <4>1 DEF S!YieldResume, CtxOK, S!Interruptible
    <3>3. CASE q # p
      BY <1>7, <3>1, <3>3 DEF S!YieldResume, CtxOK
    <3> QED
      BY <3>2, <3>3
  <2>3. CpuInv' /\ S!KernelStackExclusive'
    BY <1>7 DEF S!YieldResume, S!At, S!Goto, CpuInv, S!KernelStackExclusive, CtxInv,
       CtxOK
  <2>4. S!NoLostWakeup'
    BY <1>7 DEF S!YieldResume, S!At, S!Goto, S!NoLostWakeup, CtxInv, CtxOK,
       SawLocked, LkHeld, S!LkPCs
  <2> QED
    BY <1>t, <2>1, <2>2, <2>3, <2>4, <2>5
<1>8. ASSUME NEW p \in S!Proc, S!CallReleaseSleep(p) PROVE LockInv'
  <2>1. LkHeld' /\ SawLocked'
    BY <1>8 DEF S!CallReleaseSleep, S!At, S!Goto, LkHeld, SawLocked, S!LkPCs
  <2>5. PidInv' /\ S!SleepLockExclusive'
    BY <1>8 DEF S!CallReleaseSleep, S!At, S!Goto, PidInv, S!SleepLockExclusive,
       S!Holds, S!HoldingSleep
  <2>2. CtxInv'
    BY SMTT(30), <1>8 DEF S!CallReleaseSleep, S!At, S!Goto, CtxInv, CtxOK, S!Interruptible
  <2>3. CpuInv' /\ S!KernelStackExclusive'
    BY <1>8 DEF S!CallReleaseSleep, S!At, S!Goto, CpuInv, S!KernelStackExclusive,
       CtxInv, CtxOK
  <2>4. S!NoLostWakeup'
    BY <1>8 DEF S!CallReleaseSleep, S!At, S!Goto, S!NoLostWakeup, CtxInv, CtxOK,
       SawLocked, LkHeld, S!LkPCs
  <2> QED
    BY <1>t, <2>1, <2>2, <2>3, <2>4, <2>5
<1>9. ASSUME NEW p \in S!Proc, S!ReleaseSleepUnlock(p) PROVE LockInv'
  <2>1. LkHeld' /\ SawLocked'
    BY <1>9 DEF S!ReleaseSleepUnlock, S!FirstSlot, S!At, S!Goto, LkHeld, SawLocked,
       S!LkPCs
  <2>5. PidInv' /\ S!SleepLockExclusive'
    BY <1>9 DEF S!ReleaseSleepUnlock, S!FirstSlot, S!At, S!Goto, PidInv,
       S!SleepLockExclusive, S!Holds, S!HoldingSleep
  <2>2. CtxInv'
    BY <1>9 DEF S!ReleaseSleepUnlock, S!FirstSlot, S!At, S!Goto, CtxInv, CtxOK,
       S!Interruptible
  <2>3. CpuInv' /\ S!KernelStackExclusive'
    BY <1>9 DEF S!ReleaseSleepUnlock, S!FirstSlot, S!At, S!Goto, CpuInv,
       S!KernelStackExclusive, CtxInv, CtxOK
  <2>4. S!NoLostWakeup'
    BY <1>9 DEF S!ReleaseSleepUnlock, S!FirstSlot, S!At, S!Goto, S!NoLostWakeup,
       CtxInv, CtxOK, SawLocked, LkHeld, S!LkPCs
  <2> QED
    BY <1>t, <2>1, <2>2, <2>3, <2>4, <2>5
<1>10. ASSUME NEW p \in S!Proc, S!Wakeup(p) PROVE LockInv'
  <2>1. LkHeld' /\ SawLocked'
    BY <1>10 DEF S!Wakeup, S!CanVisit, S!SleepsOn, S!At, S!Goto, LkHeld, SawLocked, S!LkPCs
  <2>5. PidInv' /\ S!SleepLockExclusive'
    BY <1>10 DEF S!Wakeup, S!CanVisit, S!SleepsOn, S!At, S!Goto, PidInv,
       S!SleepLockExclusive, S!Holds, S!HoldingSleep
  <2>2. CtxInv'
    BY <1>10 DEF S!Wakeup, S!CanVisit, S!SleepsOn, S!At, S!Goto, CtxInv, CtxOK,
       S!Interruptible
  <2>3. CpuInv' /\ S!KernelStackExclusive'
    BY <1>10 DEF S!Wakeup, S!CanVisit, S!SleepsOn, S!At, S!Goto, CpuInv,
       S!KernelStackExclusive, CtxInv, CtxOK
  <2>4. S!NoLostWakeup'
    <3> SUFFICES ASSUME NEW q \in S!Proc, ~locked,
                        pc[q] = "gosleep" \/ state'[q] = "SLEEPING"
                 PROVE  scan[p] + 1 <= q
      BY <1>10 DEF S!Wakeup, S!At, S!NoLostWakeup
    <3>1. CtxOK(q) /\ CtxOK(p)
      BY DEF CtxInv
    <3>2. pc[q] = "gosleep" \/ state[q] = "SLEEPING"
      BY <1>10 DEF S!Wakeup, S!SleepsOn
    <3>3. scan[p] <= q
      BY <1>10, <3>2 DEF S!Wakeup, S!At, S!NoLostWakeup, LkHeld, S!LkPCs
    <3>4. ASSUME scan[p] = q PROVE FALSE
      <4>1. q # p
        BY <1>10, <3>1, <3>2 DEF S!Wakeup, S!At, CtxOK
      <4>2. ~plock[q]
        BY <1>10, <3>4, <4>1 DEF S!Wakeup, S!CanVisit
      <4>3. pc[q] # "gosleep"
        BY <3>1, <4>2 DEF CtxOK, S!Interruptible
      <4>4. state[q] = "SLEEPING" /\ chan[q] = "lk"
        BY <3>1, <3>2, <4>3 DEF CtxOK
      <4>5. state'[q] = "RUNNABLE"
        BY <1>10, <3>4, <4>1, <4>4 DEF S!Wakeup, S!SleepsOn
      <4> QED
        BY <4>3, <4>5, <1>10 DEF S!Wakeup
    <3> QED
      BY <3>3, <3>4
  <2> QED
    BY <1>t, <2>1, <2>2, <2>3, <2>4, <2>5
<1>11. ASSUME NEW p \in S!Proc, S!ReleaseSleepDone(p) PROVE LockInv'
  <2>1. LkHeld' /\ SawLocked'
    BY <1>11 DEF S!ReleaseSleepDone, S!At, S!Goto, LkHeld, SawLocked, S!LkPCs
  <2>5. PidInv' /\ S!SleepLockExclusive'
    BY <1>11 DEF S!ReleaseSleepDone, S!At, S!Goto, PidInv, S!SleepLockExclusive,
       S!Holds, S!HoldingSleep
  <2>2. CtxInv'
    <3> SUFFICES ASSUME NEW q \in S!Proc PROVE CtxOK(q)'
      BY DEF CtxInv
    <3>1. CtxOK(q)
      BY DEF CtxInv
    <3> QED
      BY <1>11, <3>1 DEF S!ReleaseSleepDone, S!At, S!Goto, CtxOK, S!Interruptible
  <2>3. CpuInv' /\ S!KernelStackExclusive'
    BY <1>11 DEF S!ReleaseSleepDone, S!At, S!Goto, CpuInv, S!KernelStackExclusive,
       CtxInv, CtxOK
  <2>4. S!NoLostWakeup'
    BY <1>11 DEF S!ReleaseSleepDone, S!At, S!Goto, S!NoLostWakeup, CtxInv, CtxOK,
       SawLocked, LkHeld, S!LkPCs
  <2> QED
    BY <1>t, <2>1, <2>2, <2>3, <2>4, <2>5
<1>12. ASSUME NEW p \in S!Proc, S!CallAcquireSleep(p) PROVE LockInv'
  <2>1. LkHeld' /\ SawLocked'
    BY <1>12 DEF S!CallAcquireSleep, S!At, S!Goto, LkHeld, SawLocked, S!LkPCs
  <2>5. PidInv' /\ S!SleepLockExclusive'
    BY <1>12 DEF S!CallAcquireSleep, S!At, S!Goto, PidInv, S!SleepLockExclusive,
       S!Holds, S!HoldingSleep
  <2>2. CtxInv'
    BY <1>12 DEF S!CallAcquireSleep, S!At, S!Goto, CtxInv, CtxOK, S!Interruptible
  <2>3. CpuInv' /\ S!KernelStackExclusive'
    BY <1>12 DEF S!CallAcquireSleep, S!At, S!Goto, CpuInv, S!KernelStackExclusive,
       CtxInv, CtxOK
  <2>4. S!NoLostWakeup'
    BY <1>12 DEF S!CallAcquireSleep, S!At, S!Goto, S!NoLostWakeup, CtxInv, CtxOK,
       SawLocked, LkHeld, S!LkPCs
  <2> QED
    BY <1>t, <2>1, <2>2, <2>3, <2>4, <2>5
<1>13. ASSUME NEW p \in S!Proc, S!AcquireSleepLk(p) PROVE LockInv'
  <2>1. LkHeld' /\ SawLocked'
    BY <1>13 DEF S!AcquireSleepLk, S!Acquire, S!At, S!Goto, LkHeld, SawLocked, S!LkPCs
  <2>5. PidInv' /\ S!SleepLockExclusive'
    BY <1>13 DEF S!AcquireSleepLk, S!Acquire, S!At, S!Goto, PidInv,
       S!SleepLockExclusive, S!Holds, S!HoldingSleep
  <2>2. CtxInv'
    BY <1>13 DEF S!AcquireSleepLk, S!Acquire, S!At, S!Goto, CtxInv, CtxOK,
       S!Interruptible
  <2>3. CpuInv' /\ S!KernelStackExclusive'
    BY <1>13 DEF S!AcquireSleepLk, S!Acquire, S!At, S!Goto, CpuInv,
       S!KernelStackExclusive, CtxInv, CtxOK
  <2>4. S!NoLostWakeup'
    BY <1>13 DEF S!AcquireSleepLk, S!Acquire, S!At, S!Goto, S!NoLostWakeup, CtxInv,
       CtxOK, SawLocked, LkHeld, S!LkPCs
  <2> QED
    BY <1>t, <2>1, <2>2, <2>3, <2>4, <2>5
<1>14. ASSUME NEW p \in S!Proc, S!ReleaseSleepLk(p) PROVE LockInv'
  <2>1. LkHeld' /\ SawLocked'
    BY <1>14 DEF S!ReleaseSleepLk, S!Acquire, S!At, S!Goto, LkHeld, SawLocked, S!LkPCs
  <2>5. PidInv' /\ S!SleepLockExclusive'
    BY <1>14 DEF S!ReleaseSleepLk, S!Acquire, S!At, S!Goto, PidInv,
       S!SleepLockExclusive, S!Holds, S!HoldingSleep
  <2>2. CtxInv'
    BY <1>14 DEF S!ReleaseSleepLk, S!Acquire, S!At, S!Goto, CtxInv, CtxOK,
       S!Interruptible
  <2>3. CpuInv' /\ S!KernelStackExclusive'
    BY <1>14 DEF S!ReleaseSleepLk, S!Acquire, S!At, S!Goto, CpuInv,
       S!KernelStackExclusive, CtxInv, CtxOK
  <2>4. S!NoLostWakeup'
    BY <1>14 DEF S!ReleaseSleepLk, S!Acquire, S!At, S!Goto, S!NoLostWakeup, CtxInv,
       CtxOK, SawLocked, LkHeld, S!LkPCs
  <2> QED
    BY <1>t, <2>1, <2>2, <2>3, <2>4, <2>5
<1>15. ASSUME NEW p \in S!Proc, S!Yield(p) PROVE LockInv'
  <2>1. LkHeld' /\ SawLocked'
    BY <1>15 DEF S!Yield, S!At, S!Goto, LkHeld, SawLocked, S!LkPCs
  <2>5. PidInv' /\ S!SleepLockExclusive'
    BY <1>15 DEF S!Yield, S!At, S!Goto, PidInv, S!SleepLockExclusive, S!Holds,
       S!HoldingSleep
  <2>2. CtxInv'
    BY <1>15 DEF S!Yield, S!At, S!Goto, CtxInv, CtxOK, S!Interruptible
  <2>3. CpuInv' /\ S!KernelStackExclusive'
    BY <1>15 DEF S!Yield, S!At, S!Goto, CpuInv, S!KernelStackExclusive, CtxInv, CtxOK
  <2>4. S!NoLostWakeup'
    BY <1>15 DEF S!Yield, S!At, S!Goto, S!NoLostWakeup, CtxInv, CtxOK, SawLocked,
       LkHeld, S!LkPCs
  <2> QED
    BY <1>t, <2>1, <2>2, <2>3, <2>4, <2>5
<1>16. ASSUME NEW p \in S!Proc, NEW c \in CPU, S!Scheduler(c, p) PROVE LockInv'
  <2>1. LkHeld' /\ SawLocked'
    BY <1>16 DEF S!Scheduler, S!Runnable, S!At, S!Goto, LkHeld, SawLocked, S!LkPCs
  <2>5. PidInv' /\ S!SleepLockExclusive'
    BY <1>16 DEF S!Scheduler, S!Runnable, S!At, S!Goto, PidInv, S!SleepLockExclusive,
       S!Holds, S!HoldingSleep
  <2>2. CtxInv'
    BY <1>16 DEF S!Scheduler, S!Runnable, S!At, S!Goto, CtxInv, CtxOK, S!Interruptible
  <2>3. CpuInv' /\ S!KernelStackExclusive'
    BY <1>16 DEF S!Scheduler, S!Runnable, S!At, S!Goto, CpuInv, S!KernelStackExclusive,
       CtxInv, CtxOK
  <2>4. S!NoLostWakeup'
    BY <1>16 DEF S!Scheduler, S!Runnable, S!At, S!Goto, S!NoLostWakeup, CtxInv, CtxOK,
       SawLocked, LkHeld, S!LkPCs
  <2> QED
    BY <1>t, <2>1, <2>2, <2>3, <2>4, <2>5
<1>17. ASSUME NEW p \in S!Proc, NEW q \in S!Proc, S!Kill(p, q) PROVE LockInv'
  <2>1. LkHeld' /\ SawLocked'
    BY <1>17 DEF S!Kill, S!At, S!Goto, LkHeld, SawLocked, S!LkPCs
  <2>5. PidInv' /\ S!SleepLockExclusive'
    BY <1>17 DEF S!Kill, S!At, S!Goto, PidInv, S!SleepLockExclusive, S!Holds,
       S!HoldingSleep
  <2>2. CtxInv'
    BY <1>17 DEF S!Kill, S!At, S!Goto, CtxInv, CtxOK, S!Interruptible
  <2>3. CpuInv' /\ S!KernelStackExclusive'
    BY <1>17 DEF S!Kill, S!At, S!Goto, CpuInv, S!KernelStackExclusive, CtxInv, CtxOK
  <2>4. S!NoLostWakeup'
    BY <1>17 DEF S!Kill, S!At, S!Goto, S!NoLostWakeup, CtxInv, CtxOK, SawLocked,
       LkHeld, S!LkPCs
  <2> QED
    BY <1>t, <2>1, <2>2, <2>3, <2>4, <2>5
<1>18. ASSUME NEW c \in CPU, S!Swtch(c) PROVE LockInv'
  <2>1. LkHeld' /\ SawLocked'
    BY <1>18 DEF S!Swtch, S!At, S!Goto, LkHeld, SawLocked, S!LkPCs
  <2>5. PidInv' /\ S!SleepLockExclusive'
    BY <1>18 DEF S!Swtch, S!At, S!Goto, PidInv, S!SleepLockExclusive, S!Holds,
       S!HoldingSleep
  <2>2. CtxInv'
    BY <1>18 DEF S!Swtch, S!At, S!Goto, CtxInv, CtxOK, S!Interruptible
  <2>3. CpuInv' /\ S!KernelStackExclusive'
    BY <1>18 DEF S!Swtch, S!At, S!Goto, CpuInv, S!KernelStackExclusive, CtxInv, CtxOK
  <2>4. S!NoLostWakeup'
    BY <1>18 DEF S!Swtch, S!At, S!Goto, S!NoLostWakeup, CtxInv, CtxOK, SawLocked,
       LkHeld, S!LkPCs
  <2> QED
    BY <1>t, <2>1, <2>2, <2>3, <2>4, <2>5
<1>19. CASE UNCHANGED S!vars
  <2>1. LkHeld' /\ SawLocked'
    BY <1>19 DEF S!vars, S!At, S!Goto, LkHeld, SawLocked, S!LkPCs
  <2>5. PidInv' /\ S!SleepLockExclusive'
    BY <1>19 DEF S!vars, S!At, S!Goto, PidInv, S!SleepLockExclusive, S!Holds,
       S!HoldingSleep
  <2>2. CtxInv'
    BY <1>19 DEF S!vars, S!At, S!Goto, CtxInv, CtxOK, S!Interruptible
  <2>3. CpuInv' /\ S!KernelStackExclusive'
    BY <1>19 DEF S!vars, S!At, S!Goto, CpuInv, S!KernelStackExclusive, CtxInv, CtxOK
  <2>4. S!NoLostWakeup'
    BY <1>19 DEF S!vars, S!At, S!Goto, S!NoLostWakeup, CtxInv, CtxOK, SawLocked,
       LkHeld, S!LkPCs
  <2> QED
    BY <1>t, <2>1, <2>2, <2>3, <2>4, <2>5
<1> QED
  BY <1>1, <1>2, <1>3, <1>4, <1>5, <1>6, <1>7, <1>8, <1>9, <1>10, <1>11,
     <1>12, <1>13, <1>14, <1>15, <1>16, <1>17, <1>18, <1>19 DEF S!Next, S!Step,
     S!Dispatch

----------------------------------------------------------------------------
(***************************************************************************)
(* The theorems.                                                           *)
(***************************************************************************)

\* The inductive invariant holds in every reachable state.
THEOREM LockInvariance == S!Spec => []LockInv
BY LockInit, LockStep, PTL DEF S!Spec

\* The states of processes, CPUs and locks keep their types.
THEOREM LockTypeCorrect == S!Spec => []S!TypeOK
<1>1. LockInv => S!TypeOK
  BY DEF LockInv
<1> QED
  BY LockInvariance, <1>1, PTL

\* acquiresleep()/releasesleep(): one holder at a time, the one that
\* holdingsleep() recognises, whatever the number of processes and CPUs.
THEOREM Exclusive == S!Spec => []SleepLockExclusive
<1>1. LockInv => SleepLockExclusive
  BY DEF LockInv, SleepLockExclusive
<1> QED
  BY LockInvariance, <1>1, PTL

\* scheduler()/swtch(): no kernel stack is ever run by two CPUs.
THEOREM StackExclusive == S!Spec => []KernelStackExclusive
<1>1. LockInv => KernelStackExclusive
  BY DEF LockInv, KernelStackExclusive
<1> QED
  BY LockInvariance, <1>1, PTL

\* sched(): none of its panics is reachable.
THEOREM SchedNeverPanics == S!Spec => []SchedChecks
<1>1. LockInv => SchedChecks
  BY DEF LockInv, SchedChecks, S!SchedChecks, CtxInv, CtxOK, LkHeld, S!LkPCs, S!Interruptible
<1> QED
  BY LockInvariance, <1>1, PTL

\* sleep()/wakeup(): no process is left asleep on a free lock with no wakeup()
\* still to visit it.
THEOREM WakeupNotLost == S!Spec => []NoLostWakeup
<1>1. LockInv => NoLostWakeup
  BY DEF LockInv, NoLostWakeup
<1> QED
  BY LockInvariance, <1>1, PTL

\* Every step of the kernel is a step of the abstract mutex or leaves it
\* unchanged: the safety half of ImplementsMutex.
THEOREM RefinesMutex == S!Spec => S!Mutex!Init /\ [][S!Mutex!Next]_(S!Mutex!vars)
<1>1. S!Init => S!Mutex!Init
  BY DEF S!Init, S!Mutex!Init, S!Waits
<1>2. LockInv /\ [S!Next]_S!vars => [S!Mutex!Next]_(S!Mutex!vars)
  <2> SUFFICES ASSUME LockInv, [S!Next]_S!vars PROVE [S!Mutex!Next]_(S!Mutex!vars)
    OBVIOUS
  <2> USE NoneAssumption DEF S!Proc, Proc, LockInv, S!TypeOK, S!PCs, S!Waits, S!Mutex!vars
  <2>1. ASSUME NEW p \in S!Proc, S!CallAcquireSleep(p) PROVE S!Mutex!Request(p)
    BY <2>1 DEF S!CallAcquireSleep, S!At, S!Goto, S!Mutex!Request, S!SleepLockExclusive,
       S!Holds, S!HoldingSleep, PidInv
  <2>2. ASSUME NEW p \in S!Proc, S!AcquireSleepTake(p) PROVE S!Mutex!Take(p)
    BY <2>2 DEF S!AcquireSleepTake, S!Free, S!At, S!Goto, S!Mutex!Take, PidInv
  <2>3. ASSUME NEW p \in S!Proc, S!ReleaseSleepUnlock(p) PROVE S!Mutex!Give(p)
    BY <2>3 DEF S!ReleaseSleepUnlock, S!At, S!Goto, S!Mutex!Give, S!SleepLockExclusive,
       S!Holds, S!HoldingSleep
  <2>4. ASSUME NEW p \in S!Proc, \/ S!AcquireSleepWait(p) \/ S!SleepLockSelf(p)
                               \/ S!SleepRelease(p) \/ S!SleepSched(p)
                               \/ S!SleepResume(p) \/ S!YieldResume(p)
        PROVE UNCHANGED S!Mutex!vars
    BY <2>4 DEF S!AcquireSleepWait, S!SleepLockSelf, S!SleepRelease, S!SleepSched,
       S!SleepResume, S!YieldResume, S!At, S!Goto
  <2>5. ASSUME NEW p \in S!Proc, \/ S!CallReleaseSleep(p) \/ S!Wakeup(p)
                               \/ S!ReleaseSleepDone(p) \/ S!AcquireSleepLk(p)
                               \/ S!ReleaseSleepLk(p) \/ S!Yield(p)
        PROVE UNCHANGED S!Mutex!vars
    BY <2>5 DEF S!CallReleaseSleep, S!Wakeup, S!ReleaseSleepDone, S!AcquireSleepLk,
       S!ReleaseSleepLk, S!Yield, S!Acquire, S!At, S!Goto
  <2>6. ASSUME NEW p \in S!Proc, \/ \E c \in CPU : S!Scheduler(c, p)
                               \/ \E q \in S!Proc : S!Kill(p, q)
        PROVE UNCHANGED S!Mutex!vars
    BY <2>6 DEF S!Scheduler, S!Kill
  <2>7. ASSUME NEW c \in CPU, S!Swtch(c) PROVE UNCHANGED S!Mutex!vars
    BY <2>7 DEF S!Swtch
  <2>8. CASE UNCHANGED S!vars
    BY <2>8 DEF S!vars
  <2> QED
    BY <2>1, <2>2, <2>3, <2>4, <2>5, <2>6, <2>7, <2>8
       DEF S!Next, S!Step, S!Dispatch, S!Mutex!Next
<1> QED
  BY <1>1, <1>2, LockInvariance, PTL DEF S!Spec
=============================================================================
