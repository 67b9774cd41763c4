----------------------------- MODULE AtomicDisk -----------------------------
(***************************************************************************)
(* What the xv6 log promises the file system above it: a disk on which a   *)
(* group of operations takes effect as a whole.  mem is what reads return, *)
(* stable is what survives a crash; stable is only ever replaced by a mem  *)
(* in which no operation is half done.                                     *)
(***************************************************************************)
CONSTANTS Op, Block, Val, InitVal

VARIABLES mem,     \* the contents the running system sees
          stable,  \* the contents a crash leaves
          active   \* the operations between begin_op() and end_op()

vars == <<mem, stable, active>>

Init ==
  /\ mem = [b \in Block |-> InitVal]
  /\ stable = mem
  /\ active = {}

Begin(o) ==
  /\ o \notin active
  /\ active' = active \union {o}
  /\ UNCHANGED <<mem, stable>>

Write(o, b, v) ==
  /\ o \in active
  /\ mem' = [mem EXCEPT ![b] = v]
  /\ UNCHANGED <<stable, active>>

End(o) ==
  /\ o \in active
  /\ active' = active \ {o}
  /\ UNCHANGED <<mem, stable>>

Commit ==
  /\ active = {}
  /\ stable' = mem
  /\ UNCHANGED <<mem, active>>

Crash ==
  /\ mem' = stable
  /\ active' = {}
  /\ UNCHANGED stable

Next ==
  \/ \E o \in Op : \/ Begin(o) \/ End(o)
                   \/ \E b \in Block, v \in Val : Write(o, b, v)
  \/ Commit
  \/ Crash

Spec == Init /\ [][Next]_vars
=============================================================================
