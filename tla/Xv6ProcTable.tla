---------------------------- MODULE Xv6ProcTable ----------------------------
(***************************************************************************)
(* What Xv6Proc and Xv6SleepLock have in common: the slots of the process  *)
(* table (kernel/proc.c), the fields of a slot that both look at, and the  *)
(* place of its kernel thread, which each gives values of its own.         *)
(***************************************************************************)
EXTENDS Naturals

CONSTANTS NPROC,   \* slots of the process table, proc[0 .. NPROC-1]
          None     \* no process

Proc == 1 .. NPROC

ASSUME NPROCAssumption == NPROC \in Nat \ {0}
ASSUME NoneAssumption == None \notin Proc

VARIABLES
  state,   \* p->state
  plock,   \* plock[p]: p->lock is held across steps, or a swtch() to or from p
  pc       \* where the kernel thread of p is
=============================================================================
