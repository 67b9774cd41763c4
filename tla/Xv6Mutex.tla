------------------------------ MODULE Xv6Mutex ------------------------------
(***************************************************************************)
(* What a sleep lock of the xv6 kernel promises its callers: one holder at *)
(* a time, and a free lock that somebody wants is eventually taken.  It    *)
(* promises nothing about who takes it: acquiresleep() wakes every waiter  *)
(* and lets them race.                                                     *)
(***************************************************************************)
CONSTANTS Proc,    \* the processes
          None     \* no holder

VARIABLES want,    \* the processes inside acquiresleep()
          holder   \* the process between acquiresleep() and releasesleep()

vars == <<want, holder>>

Init == want = {} /\ holder = None

Request(p) ==
  /\ p \notin want /\ holder # p
  /\ want' = want \union {p}
  /\ UNCHANGED holder

Take(p) ==
  /\ holder = None /\ p \in want
  /\ holder' = p
  /\ want' = want \ {p}

Give(p) ==
  /\ holder = p
  /\ holder' = None
  /\ UNCHANGED want

TakeSome == \E p \in Proc : Take(p)

Next == \E p \in Proc : Request(p) \/ Take(p) \/ Give(p)

Spec == Init /\ [][Next]_vars /\ WF_vars(TakeSome)
=============================================================================
