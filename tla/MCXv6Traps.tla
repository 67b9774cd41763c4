----------------------------- MODULE MCXv6Traps -----------------------------
(***************************************************************************)
(* Traps and the clock, and lab 3's counter of system calls, for TLC: the  *)
(* two have nothing to do with each other, which says what is run.         *)
(***************************************************************************)
EXTENDS Xv6Trap

CONSTANTS NPROC, MaxCount

VARIABLES which, state, call, syscall_count, done, last, since

countvars == <<state, call, syscall_count, done, last, since>>

S == INSTANCE Xv6Syscall

ASSUME CounterAssumption == S!SizeAssumption

\* A negative argument, and one that takes ticks across their wrap.
MCNaps == {-1, 2}

MCInit == Init /\ S!Init /\ which \in {"traps", "counter"}

MCNext == \/ which = "traps" /\ Next /\ UNCHANGED <<which, countvars>>
          \/ which = "counter" /\ S!Next /\ UNCHANGED <<which, vars>>

MCSpec == MCInit /\ [][MCNext]_<<which, vars, countvars>> /\ Fairness

\* Xv6Syscall: the difference of two answers of getsyscallcount() is the
\* number of valid calls in between.
DifferencesExact == S!DifferencesExact
=============================================================================
