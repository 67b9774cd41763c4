--------------------------- MODULE MCXv6SleepLock ---------------------------
(***************************************************************************)
(* Small instances of Xv6SleepLock for TLC.  The holder of the sleep lock  *)
(* is not called pid here, so that Xv6Proc and the lock can be looked at   *)
(* side by side.                                                           *)
(***************************************************************************)
EXTENDS Xv6ProcTable

CONSTANT CPU
VARIABLES lk, locked, holder, chan, cpu, ctx, scan

S == INSTANCE Xv6SleepLock WITH pid <- holder

LockSpec == S!FairSpec

\* acquiresleep()/releasesleep(): at most one process is between the two, and
\* holdingsleep() answers 1 to that process and to nobody else.
SleepLockExclusive == S!SleepLockExclusive

\* scheduler()/swtch(): two CPUs never run on one kernel stack.
KernelStackExclusive == S!KernelStackExclusive

\* sched(): none of its panics is reachable.
SchedChecks == S!SchedChecks

\* sleep()/wakeup(): no wakeup is missed.
NoLostWakeup == S!NoLostWakeup

\* A sleep lock is a mutex, which is taken when it is free and wanted.
ImplementsMutex == S!ImplementsMutex
=============================================================================
