------------------------------ MODULE LabProofs ------------------------------
(***************************************************************************)
(* Proofs about WebServerMt, for every size of the ring, every pool of     *)
(* workers and every number of descriptors; and about the job table of     *)
(* MiniShell, M here, for any number of pids, jobs and lines of a block.   *)
(***************************************************************************)
EXTENDS WebServerMt, MCMiniShell, SequencesExt, Integers, SequenceTheorems, FunctionTheorems,
        FiniteSetTheorems, WellFoundedInduction, TLAPS

----------------------------------------------------------------------------
(***************************************************************************)
(* WebServerMt: the ring                                                   *)
(***************************************************************************)
\* The connections accepted and not yet taken.
Pending == {pending[k] : k \in 1 .. Len(pending)}

\* The slot of the k-th of them in a ring whose front is f.
Slot(f, k) == (f + k - 1) % MAX_QUEUE

\* They are in the ring from front to rear, each of them once.
RingInv ==
  /\ Len(pending) = count
  /\ \A k \in 1 .. count : pending[k] = queue[Slot(front, k)]
  /\ rear = Slot(front, count + 1)
  /\ \A j, k \in 1 .. count : pending[j] = pending[k] => j = k

\* Where a thread has a descriptor in its locals.
LocalsInv ==
  /\ accepted # None <=> acceptor \in {"put", "wait"}
  /\ \A w \in Workers :
       /\ acceptor = "start" => worker[w] = "none"
       /\ client[w] # None <=> worker[w] \in {"read", "open", "send", "close"}
       /\ file[w] # None <=> worker[w] = "send"
       /\ file[w] # None => file[w] # client[w]

\* Every descriptor that the ring or a thread has is open, and is had once.
OwnInv ==
  /\ open = Pending \union ({accepted} \ {None}) \union UNION {Owned(w) : w \in Workers}
  /\ accepted \notin Pending
  /\ \A w \in Workers : Owned(w) \intersect (Pending \union {accepted}) = {}
  /\ \A v, w \in Workers : v # w => Owned(v) \intersect Owned(w) = {}

\* The inductive invariant.
IInv == TypeOK /\ RingInv /\ LocalsInv /\ OwnInv

----------------------------------------------------------------------------
(***************************************************************************)
(* The ring's arithmetic                                                   *)
(***************************************************************************)

\* enqueue()/dequeue(): stepping an index with % MAX_QUEUE keeps it in the ring.
LEMMA StepInRing == \A i \in Slots : (i + 1) % MAX_QUEUE \in Slots
  BY QueueAssumption DEF Slots

\* The slots of the ring, counted from the front.
LEMMA SlotInRing ==
  ASSUME NEW f \in Slots, NEW k \in 1 .. MAX_QUEUE + 1
  PROVE  Slot(f, k) \in Slots
  BY QueueAssumption DEF Slot, Slots

\* The first one is the front's.
LEMMA SlotFirst == \A f \in Slots : Slot(f, 1) = f
  BY QueueAssumption DEF Slot, Slots

\* No two of them are the same slot.
LEMMA SlotsDiffer ==
  ASSUME NEW f \in Slots, NEW j \in 1 .. MAX_QUEUE, NEW k \in 1 .. MAX_QUEUE,
         Slot(f, j) = Slot(f, k)
  PROVE  j = k
<1> DEFINE a == f + j - 1   b == f + k - 1
<1>1. /\ a % MAX_QUEUE = IF a < MAX_QUEUE THEN a ELSE a - MAX_QUEUE
      /\ b % MAX_QUEUE = IF b < MAX_QUEUE THEN b ELSE b - MAX_QUEUE
  BY QueueAssumption DEF Slots
<1> QED
  BY <1>1, QueueAssumption DEF Slot, Slots

\* Moving the front on by one renumbers them.
LEMMA SlotShift ==
  ASSUME NEW f \in Slots, NEW k \in 1 .. MAX_QUEUE
  PROVE  Slot((f + 1) % MAX_QUEUE, k) = Slot(f, k + 1)
<1> DEFINE g == (f + 1) % MAX_QUEUE
<1>1. g = IF f + 1 < MAX_QUEUE THEN f + 1 ELSE 0
  BY QueueAssumption DEF Slots
<1>2. CASE f + 1 < MAX_QUEUE
  BY <1>1, <1>2, QueueAssumption DEF Slot, Slots
<1>3. CASE f + 1 >= MAX_QUEUE
  BY <1>1, <1>3, QueueAssumption DEF Slot, Slots
<1> QED
  BY <1>2, <1>3, QueueAssumption DEF Slots

\* Moving the rear on by one takes in the next of them.
LEMMA SlotNext ==
  ASSUME NEW f \in Slots, NEW k \in 1 .. MAX_QUEUE
  PROVE  (Slot(f, k) + 1) % MAX_QUEUE = Slot(f, k + 1)
<1> DEFINE a == f + k - 1
<1>1. a % MAX_QUEUE = IF a < MAX_QUEUE THEN a ELSE a - MAX_QUEUE
  BY QueueAssumption DEF Slots
<1>2. CASE a < MAX_QUEUE
  BY <1>1, <1>2, QueueAssumption DEF Slot, Slots
<1>3. CASE a >= MAX_QUEUE
  BY <1>1, <1>3, QueueAssumption DEF Slot, Slots
<1> QED
  BY <1>2, <1>3, QueueAssumption DEF Slots
----------------------------------------------------------------------------
(***************************************************************************)
(* What enqueue() and dequeue() do                                         *)
(***************************************************************************)

\* pthread_cond_signal(): nobody moves but a waiter, which goes back to its test.
LEMMA SignalWakesWaiter ==
  ASSUME TypeOK, NEW v \in Signalled
  PROVE  /\ v \in [Workers -> {"none", "get", "wait", "read", "open", "send", "close"}]
         /\ \A w \in Workers : v[w] = worker[w] \/ (worker[w] = "wait" /\ v[w] = "get")
<1>1. CASE v = worker
  BY <1>1 DEF TypeOK
<1>2. CASE \E u \in Workers : worker[u] = "wait" /\ v = [worker EXCEPT ![u] = "get"]
  BY <1>2 DEF TypeOK
<1> QED
  BY <1>1, <1>2 DEF Signalled

\* dequeue(): what it takes is the head of the pending connections, and what
\* stays is their tail.
LEMMA TakesOldest ==
  ASSUME TypeOK, RingInv, ~Empty
  PROVE  /\ Oldest = pending[1] /\ Oldest \in FD
         /\ Without(Oldest) \in Seq(FD)
         /\ Len(Without(Oldest)) = count - 1
         /\ \A k \in 1 .. count - 1 : Without(Oldest)[k] = pending[k + 1]
<1>1. /\ pending \in Seq(FD) /\ Len(pending) = count
      /\ count \in 1 .. MAX_QUEUE /\ front \in Slots
  BY QueueAssumption DEF TypeOK, RingInv, Empty
<1>2. Oldest = pending[1]
  BY <1>1, SlotFirst DEF RingInv, Oldest
<1>3. \A k \in 1 .. count : pending[k] \in FD
  BY <1>1, ElementOfSeq
<1>4. \A k \in 1 .. count : pending[k] = Oldest => k = 1
  BY <1>1, <1>2 DEF RingInv
<1>5. (CHOOSE k \in 1 .. Len(pending) : pending[k] = Oldest) = 1
  BY <1>1, <1>2, <1>4
<1>6. \E k \in 1 .. Len(pending) : pending[k] = Oldest
  BY <1>1, <1>2
<1>7. Without(Oldest) = [k \in 1 .. Len(pending) - 1 |->
                           IF k < 1 THEN pending[k] ELSE pending[k + 1]]
  BY <1>5, <1>6 DEF Without
<1>8. Without(Oldest) = [k \in 1 .. count - 1 |-> pending[k + 1]]
  BY <1>1, <1>7
<1>9. \A k \in 1 .. count - 1 : pending[k + 1] \in FD
  BY <1>1, <1>3
<1>10. Without(Oldest) \in Seq(FD) /\ Len(Without(Oldest)) = count - 1
  <2>1. count - 1 \in Nat
    BY <1>1
  <2> DEFINE e(k) == pending[k + 1]
  <2>2. Without(Oldest) = [k \in 1 .. count - 1 |-> e(k)]
    BY <1>8
  <2>3. \A k \in 1 .. count - 1 : e(k) \in FD
    BY <1>9
  <2> HIDE DEF e
  <2>4. [k \in 1 .. count - 1 |-> e(k)] \in Seq(FD)
    BY <2>1, <2>3, IsASeq
  <2> QED
    BY <2>1, <2>2, <2>4, LenProperties
<1> QED
  BY <1>1, <1>2, <1>3, <1>8, <1>10

\* In terms of the set of them: the one taken is gone, the others stay.
LEMMA PendingTaken ==
  ASSUME TypeOK, RingInv, ~Empty, pending' = Without(Oldest)
  PROVE  Oldest \in Pending /\ Pending' = Pending \ {Oldest}
<1>1. /\ pending \in Seq(FD) /\ Len(pending) = count
      /\ count \in 1 .. MAX_QUEUE
  BY QueueAssumption DEF TypeOK, RingInv, Empty
<1>2. /\ Oldest = pending[1] /\ Len(pending') = count - 1
      /\ \A k \in 1 .. count - 1 : pending'[k] = pending[k + 1]
  BY TakesOldest
<1>3. ASSUME NEW f, f \in Pending' PROVE f \in Pending \ {Oldest}
  <2> PICK k \in 1 .. count - 1 : f = pending'[k]
    BY <1>2, <1>3 DEF Pending
  <2>1. k + 1 \in 1 .. count /\ f = pending[k + 1] /\ 1 \in 1 .. count
    BY <1>1, <1>2
  <2>2. f # Oldest
    BY <2>1, <1>1, <1>2 DEF RingInv
  <2> QED
    BY <2>1, <2>2, <1>1 DEF Pending
<1>4. ASSUME NEW f, f \in Pending, f # Oldest PROVE f \in Pending'
  <2> PICK k \in 1 .. count : f = pending[k]
    BY <1>1, <1>4 DEF Pending
  <2>1. k # 1
    BY <1>2, <1>4
  <2>2. k - 1 \in 1 .. count - 1 /\ pending'[k - 1] = pending[(k - 1) + 1]
    BY <1>1, <1>2, <2>1
  <2>3. pending'[k - 1] = f
    BY <1>1, <2>2
  <2> QED
    BY <1>2, <2>2, <2>3 DEF Pending
<1>5. Oldest \in Pending
  BY <1>1, <1>2 DEF Pending
<1>6. Pending' = Pending \ {Oldest}
  BY <1>3, <1>4
<1> QED
  BY <1>5, <1>6

\* enqueue(): the connection that main() accepted joins them, last.
LEMMA PendingPut ==
  ASSUME TypeOK, RingInv, LocalsInv, Enqueue
  PROVE  /\ accepted \in FD
         /\ pending' \in Seq(FD) /\ Len(pending') = count + 1
         /\ \A k \in 1 .. count : pending'[k] = pending[k]
         /\ pending'[count + 1] = accepted
         /\ Pending' = Pending \union {accepted}
<1>1. accepted \in FD
  BY DEF TypeOK, LocalsInv, Enqueue
<1>2. pending \in Seq(FD) /\ Len(pending) = count /\ count \in Nat
  BY QueueAssumption DEF TypeOK, RingInv
<1>3. /\ pending' \in Seq(FD) /\ Len(pending') = count + 1
      /\ \A k \in 1 .. count : pending'[k] = pending[k]
      /\ pending'[count + 1] = accepted
  BY <1>1, <1>2, AppendProperties DEF Enqueue
<1>4. 1 .. count + 1 = (1 .. count) \union {count + 1}
  BY <1>2
<1>5. Pending' = Pending \union {accepted}
  BY <1>2, <1>3, <1>4 DEF Pending
<1> QED
  BY <1>1, <1>3, <1>5

----------------------------------------------------------------------------
(***************************************************************************)
(* The inductive invariant                                                 *)
(***************************************************************************)

\* main() has started nothing.
LEMMA InitIInv == Init => IInv
<1> SUFFICES ASSUME Init PROVE IInv
  OBVIOUS
<1>1. TypeOK
  <2>1. killed \in BOOLEAN
    BY DEF Init
  <2> QED
    BY <2>1, QueueAssumption, FDAssumption, EmptySeq DEF Init, TypeOK, Slots
<1>2. Len(pending) = 0 /\ Pending = {}
  BY EmptySeq DEF Init, Pending
<1>3. RingInv
  BY <1>2, QueueAssumption, SlotFirst DEF Init, RingInv, Slots
<1>4. LocalsInv
  BY DEF Init, LocalsInv
<1>5. \A w \in Workers : Owned(w) = {}
  BY DEF Init, Owned
<1>6. OwnInv
  BY <1>2, <1>5 DEF Init, OwnInv
<1> QED
  BY <1>1, <1>3, <1>4, <1>6 DEF IInv

\* Type correctness: the indices stay in the ring, its contents are descriptors.
LEMMA TypeStep == IInv /\ [Next]_vars => TypeOK'
<1> SUFFICES ASSUME IInv, [Next]_vars PROVE TypeOK'
  OBVIOUS
<1>0. TypeOK
  BY DEF IInv
<1>01. killed' \in BOOLEAN
  BY <1>0 DEF TypeOK, Next, Running, Killed, vars
<1> USE <1>0, <1>01
<1> USE DEF TypeOK
<1>1. ASSUME NEW w \in Workers, \/ HandleRefuse(w) \/ HandleNotFound(w)
                                \/ HandleClose(w)
      PROVE  TypeOK'
  BY <1>1 DEF HandleRefuse, Finish, HandleNotFound, HandleClose, ringvars
<1>2. ASSUME Start PROVE TypeOK'
  BY <1>2 DEF Start, ringvars
<1>3. ASSUME NEW f \in FD, Accept(f) PROVE TypeOK'
  BY <1>3 DEF Accept, ringvars
<1>4. ASSUME EnqueueWait PROVE TypeOK'
  BY <1>4 DEF EnqueueWait, ringvars
<1>5. ASSUME Enqueue PROVE TypeOK'
  <2>1. /\ accepted \in FD /\ pending' \in Seq(FD)
        /\ worker' \in [Workers -> {"none", "get", "wait", "read", "open", "send", "close"}]
    BY <1>5, PendingPut, SignalWakesWaiter DEF Enqueue, IInv
  <2>2. rear' \in Slots /\ count' \in 0 .. MAX_QUEUE
    BY <1>5, QueueAssumption, StepInRing DEF Enqueue
  <2> QED
    BY <1>5, <2>1, <2>2 DEF Enqueue
<1>6. ASSUME Spurious PROVE TypeOK'
  BY <1>6 DEF Spurious, ringvars
<1>7. ASSUME NEW w \in Workers, DequeueWait(w) PROVE TypeOK'
  BY <1>7 DEF DequeueWait, ringvars
<1>8. ASSUME NEW w \in Workers, Dequeue(w) PROVE TypeOK'
  <2>1. Oldest \in FD /\ pending' \in Seq(FD)
    BY <1>8, TakesOldest DEF Dequeue, IInv
  <2>2. front' \in Slots /\ count' \in 0 .. MAX_QUEUE
    BY <1>8, QueueAssumption, StepInRing DEF Dequeue, Empty
  <2>3. acceptor' \in {"start", "accept", "put", "wait"}
    BY <1>8 DEF Dequeue, NonFull
  <2> QED
    BY <1>8, <2>1, <2>2, <2>3 DEF Dequeue
<1>9. ASSUME NEW w \in Workers, HandleGet(w) PROVE TypeOK'
  BY <1>9 DEF HandleGet, ringvars
<1>10. ASSUME NEW w \in Workers, NEW f \in FD, HandleOpen(w, f) PROVE TypeOK'
  BY <1>10 DEF HandleOpen, ringvars
<1>11. ASSUME NEW w \in Workers, HandleSent(w) PROVE TypeOK'
  BY <1>11 DEF HandleSent, FileClosed, ringvars
<1>12. CASE UNCHANGED vars
  BY <1>12 DEF vars, ringvars
<1>13. ASSUME NEW w \in Workers, Killed(w) PROVE TypeOK'
  BY <1>13 DEF Killed, ringvars
<1> QED
  BY <1>1, <1>2, <1>3, <1>4, <1>5, <1>6, <1>7, <1>8, <1>9, <1>10, <1>11, <1>12, <1>13
     DEF Next, Step, WorkerStep, Handle

\* enqueue() and dequeue() keep the ring a queue; nobody else touches it.
LEMMA RingStep == IInv /\ [Next]_vars => RingInv'
<1> SUFFICES ASSUME IInv, [Next]_vars PROVE RingInv'
  OBVIOUS
<1>0. TypeOK /\ RingInv /\ LocalsInv /\ OwnInv
  BY DEF IInv
<1> USE <1>0
<1>1. ASSUME Enqueue PROVE RingInv'
  <2>1. /\ Len(pending') = count + 1 /\ pending'[count + 1] = accepted
        /\ \A k \in 1 .. count : pending'[k] = pending[k]
    BY <1>1, PendingPut
  <2>2. /\ front \in Slots /\ front' = front
        /\ count \in 0 .. MAX_QUEUE - 1 /\ count' = count + 1
    BY <1>1, QueueAssumption DEF Enqueue, TypeOK
  <2>3. /\ rear = Slot(front, count + 1) /\ rear \in Slots
        /\ queue' = [queue EXCEPT ![rear] = accepted]
    BY <1>1 DEF Enqueue, TypeOK, RingInv
  <2>4. rear' = Slot(front', count' + 1)
    BY <1>1, <2>2, <2>3, SlotNext, QueueAssumption DEF Enqueue
  <2>5. \A k \in 1 .. count' : k \in 1 .. count \/ k = count + 1
    BY <2>2
  <2>6. ASSUME NEW k \in 1 .. count' PROVE pending'[k] = queue'[Slot(front', k)]
    <3>1. CASE k = count + 1
      BY <3>1, <2>1, <2>2, <2>3 DEF TypeOK
    <3>2. CASE k \in 1 .. count
      <4>1. k \in 1 .. MAX_QUEUE /\ count + 1 \in 1 .. MAX_QUEUE /\ k # count + 1
        BY <3>2, <2>2, QueueAssumption
      <4>2. Slot(front, k) # rear
        BY <4>1, <2>2, <2>3, SlotsDiffer
      <4>3. Slot(front, k) \in Slots
        BY <2>2, <3>2, SlotInRing, QueueAssumption
      <4> QED
        BY <4>2, <4>3, <3>2, <2>1, <2>2, <2>3 DEF TypeOK, RingInv
    <3> QED
      BY <2>5, <3>1, <3>2
  <2>7. \A k \in 1 .. count : pending[k] # accepted
    BY DEF OwnInv, Pending, RingInv
  <2>8. ASSUME NEW j \in 1 .. count', NEW k \in 1 .. count', pending'[j] = pending'[k]
        PROVE  j = k
    BY <2>1, <2>5, <2>7, <2>8 DEF RingInv
  <2> QED
    BY <2>1, <2>2, <2>4, <2>6, <2>8 DEF RingInv
<1>2. ASSUME NEW w \in Workers, Dequeue(w) PROVE RingInv'
  <2>1. /\ Len(pending') = count - 1
        /\ \A k \in 1 .. count - 1 : pending'[k] = pending[k + 1]
    BY <1>2, TakesOldest DEF Dequeue
  <2>2. /\ front \in Slots /\ front' = (front + 1) % MAX_QUEUE
        /\ count \in 1 .. MAX_QUEUE /\ count' = count - 1
        /\ UNCHANGED <<queue, rear>>
    BY <1>2, QueueAssumption DEF Dequeue, TypeOK, Empty
  <2>3. \A k \in 1 .. MAX_QUEUE : Slot(front', k) = Slot(front, k + 1)
    BY <2>2, SlotShift
  <2>4. rear' = Slot(front', count' + 1)
    BY <2>2, <2>3 DEF RingInv
  <2>5. ASSUME NEW k \in 1 .. count' PROVE pending'[k] = queue'[Slot(front', k)]
    <3>1. k \in 1 .. count - 1 /\ k + 1 \in 1 .. count /\ k \in 1 .. MAX_QUEUE
      BY <2>2, QueueAssumption
    <3> QED
      BY <3>1, <2>1, <2>2, <2>3 DEF RingInv
  <2>6. ASSUME NEW j \in 1 .. count', NEW k \in 1 .. count', pending'[j] = pending'[k]
        PROVE  j = k
    <3>1. /\ j + 1 \in 1 .. count /\ k + 1 \in 1 .. count
          /\ pending[j + 1] = pending[k + 1]
      BY <2>1, <2>2, <2>6
    <3>2. j + 1 = k + 1
      BY <3>1 DEF RingInv
    <3> QED
      BY <3>2, <2>2
  <2> QED
    BY <2>1, <2>2, <2>4, <2>5, <2>6 DEF RingInv
<1>3. CASE UNCHANGED <<ringvars, pending>>
  BY <1>3 DEF ringvars, RingInv
<1> QED
  BY <1>1, <1>2, <1>3 DEF Next, Step, WorkerStep, Handle, vars, Start, Accept,
    EnqueueWait, Spurious, DequeueWait, HandleRefuse, HandleGet, HandleNotFound,
    HandleOpen, HandleSent, HandleClose, Killed, ringvars

\* A thread's state says which descriptors it holds in its locals.
LEMMA LocalsStep == IInv /\ [Next]_vars => LocalsInv'
<1> SUFFICES ASSUME IInv, [Next]_vars PROVE LocalsInv'
  OBVIOUS
<1>0. TypeOK /\ RingInv /\ LocalsInv /\ OwnInv
  BY DEF IInv
<1> USE <1>0
<1> USE DEF TypeOK, LocalsInv
<1>1. ASSUME NEW w \in Workers, \/ HandleRefuse(w) \/ HandleNotFound(w)
                                \/ HandleClose(w)
      PROVE  LocalsInv'
  BY <1>1 DEF HandleRefuse, Finish, HandleNotFound, HandleClose, ringvars
<1>2. ASSUME Start PROVE LocalsInv'
  BY <1>2 DEF Start, ringvars
<1>3. ASSUME NEW f \in FD, Accept(f) PROVE LocalsInv'
  BY <1>3, FDAssumption DEF Accept
<1>4. ASSUME EnqueueWait PROVE LocalsInv'
  BY <1>4 DEF EnqueueWait, ringvars
<1>5. ASSUME Enqueue PROVE LocalsInv'
  <2>1. \A w \in Workers : worker'[w] = worker[w]
                           \/ (worker[w] = "wait" /\ worker'[w] = "get")
    BY <1>5, SignalWakesWaiter DEF Enqueue
  <2> QED
    BY <1>5, <2>1 DEF Enqueue
<1>6. ASSUME Spurious PROVE LocalsInv'
  BY <1>6 DEF Spurious, ringvars
<1>7. ASSUME NEW w \in Workers, DequeueWait(w) PROVE LocalsInv'
  BY <1>7 DEF DequeueWait, ringvars
<1>8. ASSUME NEW w \in Workers, Dequeue(w) PROVE LocalsInv'
  <2>1. Oldest \in FD
    BY <1>8, TakesOldest DEF Dequeue
  <2>2. (accepted # None <=> acceptor \in {"put", "wait"})'
    BY <1>8 DEF Dequeue, NonFull
  <2>3. acceptor' # "start"
    BY <1>8 DEF Dequeue, NonFull
  <2> QED
    BY <1>8, <2>1, <2>2, <2>3, FDAssumption DEF Dequeue
<1>9. ASSUME NEW w \in Workers, HandleGet(w) PROVE LocalsInv'
  BY <1>9 DEF HandleGet, ringvars
<1>10. ASSUME NEW w \in Workers, NEW f \in FD, HandleOpen(w, f)
      PROVE  LocalsInv'
  <2>1. f # None /\ f # client[w]
    <3>1. client[w] # None /\ client[w] \in Owned(w)
      BY <1>10 DEF HandleOpen, Owned
    <3>2. client[w] \in open
      BY <3>1 DEF OwnInv
    <3> QED
      BY <1>10, <3>2, FDAssumption DEF HandleOpen
  <2> QED
    BY <1>10, <2>1 DEF HandleOpen
<1>11. ASSUME NEW w \in Workers, HandleSent(w) PROVE LocalsInv'
  BY <1>11 DEF HandleSent, FileClosed, ringvars
<1>12. CASE UNCHANGED vars
  BY <1>12 DEF vars
<1>13. ASSUME NEW w \in Workers, Killed(w) PROVE LocalsInv'
  BY <1>13 DEF Killed
<1> QED
  BY <1>1, <1>2, <1>3, <1>4, <1>5, <1>6, <1>7, <1>8, <1>9, <1>10, <1>11, <1>12, <1>13
     DEF Next, Step, WorkerStep, Handle

\* A descriptor moves from main() to the ring to a worker; it is nowhere twice.
LEMMA OwnStep == IInv /\ [Next]_vars => OwnInv'
<1> SUFFICES ASSUME IInv, [Next]_vars PROVE OwnInv'
  OBVIOUS
<1>0. TypeOK /\ RingInv /\ LocalsInv /\ OwnInv
  BY DEF IInv
<1> USE <1>0
<1>01. None \notin Pending
  <2>1. \A k \in 1 .. Len(pending) : pending[k] \in FD
    BY ElementOfSeq DEF TypeOK
  <2> QED
    BY <2>1, FDAssumption DEF Pending
<1>1. ASSUME NEW w \in Workers, \/ HandleRefuse(w) \/ HandleNotFound(w)
                                \/ HandleClose(w)
      PROVE  OwnInv'
  <2>1. /\ open' = open \ {client[w]} /\ accepted' = accepted
        /\ client' = [client EXCEPT ![w] = None] /\ file' = file
        /\ pending' = pending
        /\ worker[w] \in {"read", "open", "close"}
    BY <1>1 DEF HandleRefuse, HandleNotFound, HandleClose, Finish
  <2>2. Owned(w) = {client[w]} /\ Owned(w)' = {}
    BY <2>1 DEF LocalsInv, TypeOK, Owned
  <2>3. \A v \in Workers : v # w => Owned(v)' = Owned(v)
    BY <2>1 DEF Owned, TypeOK
  <2>4. Pending' = Pending
    BY <2>1 DEF Pending
  <2>5. (open = Pending \union ({accepted} \ {None}) \union UNION {Owned(v) : v \in Workers})'
    BY <2>1, <2>2, <2>3, <2>4 DEF OwnInv
  <2>6. (accepted \notin Pending)'
    BY <2>1, <2>2, <2>3, <2>4 DEF OwnInv
  <2>7. (\A v \in Workers : Owned(v) \intersect (Pending \union {accepted}) = {})'
    BY <2>1, <2>2, <2>3, <2>4 DEF OwnInv
  <2>8. (\A u, v \in Workers : u # v => Owned(u) \intersect Owned(v) = {})'
    BY <2>1, <2>2, <2>3, <2>4 DEF OwnInv
  <2> QED
    BY <2>5, <2>6, <2>7, <2>8 DEF OwnInv
<1>2. ASSUME NEW f \in FD, Accept(f) PROVE OwnInv'
  <2>1. accepted = None /\ accepted' = f /\ f # None /\ None \notin Pending
    BY <1>2, <1>01, FDAssumption DEF Accept, LocalsInv
  <2>2. Pending' = Pending
    BY <1>2 DEF Accept, Pending
  <2>3. \A v \in Workers : Owned(v)' = Owned(v)
    BY <1>2 DEF Accept, Owned
  <2>4. f \notin open /\ open' = open \union {f}
    BY <1>2 DEF Accept, ringvars
  <2>5. (open = Pending \union ({accepted} \ {None}) \union UNION {Owned(v) : v \in Workers})'
    BY <2>1, <2>2, <2>3, <2>4 DEF OwnInv
  <2>6. (accepted \notin Pending)'
    BY <2>1, <2>2, <2>3, <2>4 DEF OwnInv
  <2>7. (\A v \in Workers : Owned(v) \intersect (Pending \union {accepted}) = {})'
    BY <2>1, <2>2, <2>3, <2>4 DEF OwnInv
  <2>8. (\A u, v \in Workers : u # v => Owned(u) \intersect Owned(v) = {})'
    BY <2>1, <2>2, <2>3, <2>4 DEF OwnInv
  <2> QED
    BY <2>5, <2>6, <2>7, <2>8 DEF OwnInv
<1>3. ASSUME Enqueue PROVE OwnInv'
  <2>1. accepted # None /\ accepted' = None /\ None \notin Pending
    BY <1>3, <1>01 DEF Enqueue, LocalsInv
  <2>2. Pending' = Pending \union {accepted}
    BY <1>3, PendingPut
  <2>3. \A v \in Workers : Owned(v)' = Owned(v) /\ None \notin Owned(v)
    BY <1>3 DEF Enqueue, Owned
  <2>4. open' = open
    BY <1>3 DEF Enqueue
  <2>5. (open = Pending \union ({accepted} \ {None}) \union UNION {Owned(v) : v \in Workers})'
    BY <2>1, <2>2, <2>3, <2>4 DEF OwnInv
  <2>6. (accepted \notin Pending)'
    BY <2>1, <2>2, <2>3, <2>4 DEF OwnInv
  <2>7. (\A v \in Workers : Owned(v) \intersect (Pending \union {accepted}) = {})'
    BY <2>1, <2>2, <2>3, <2>4 DEF OwnInv
  <2>8. (\A u, v \in Workers : u # v => Owned(u) \intersect Owned(v) = {})'
    BY <2>1, <2>2, <2>3, <2>4 DEF OwnInv
  <2> QED
    BY <2>5, <2>6, <2>7, <2>8 DEF OwnInv
<1>4. ASSUME NEW w \in Workers, Dequeue(w) PROVE OwnInv'
  <2>1. Oldest \in Pending /\ Pending' = Pending \ {Oldest}
    BY <1>4, PendingTaken DEF Dequeue
  <2>2. Owned(w) = {} /\ Owned(w)' = {Oldest}
    <3>1. client[w] = None /\ file[w] = None
      BY <1>4 DEF Dequeue, LocalsInv
    <3>2. client'[w] = Oldest /\ file'[w] = None /\ Oldest # None
      BY <1>4, <3>1, <2>1, <1>01 DEF Dequeue, TypeOK
    <3> QED
      BY <3>1, <3>2 DEF Owned
  <2>3. \A v \in Workers : v # w => Owned(v)' = Owned(v)
    BY <1>4 DEF Dequeue, Owned, TypeOK
  <2>4. open' = open /\ accepted' = accepted
    BY <1>4 DEF Dequeue
  <2>5. (open = Pending \union ({accepted} \ {None}) \union UNION {Owned(v) : v \in Workers})'
    BY <2>1, <2>2, <2>3, <2>4 DEF OwnInv
  <2>6. (accepted \notin Pending)'
    BY <2>1, <2>2, <2>3, <2>4 DEF OwnInv
  <2>7. (\A v \in Workers : Owned(v) \intersect (Pending \union {accepted}) = {})'
    BY <2>1, <2>2, <2>3, <2>4 DEF OwnInv
  <2>8. (\A u, v \in Workers : u # v => Owned(u) \intersect Owned(v) = {})'
    BY <2>1, <2>2, <2>3, <2>4 DEF OwnInv
  <2> QED
    BY <2>5, <2>6, <2>7, <2>8 DEF OwnInv
<1>5. ASSUME NEW w \in Workers, NEW f \in FD, HandleOpen(w, f) PROVE OwnInv'
  <2>1. /\ open' = open \union {f} /\ f \notin open /\ f # None
        /\ accepted' = accepted
        /\ accepted # None => accepted \in open
    BY <1>5, FDAssumption DEF HandleOpen, OwnInv
  <2>2. Owned(w)' = Owned(w) \union {f}
    BY <1>5, <2>1 DEF HandleOpen, LocalsInv, TypeOK, Owned
  <2>3. \A v \in Workers : v # w => Owned(v)' = Owned(v)
    BY <1>5 DEF HandleOpen, Owned, TypeOK
  <2>4. Pending' = Pending
    BY <1>5 DEF HandleOpen, Pending
  <2>5. (open = Pending \union ({accepted} \ {None}) \union UNION {Owned(v) : v \in Workers})'
    BY <2>1, <2>2, <2>3, <2>4 DEF OwnInv
  <2>6. (accepted \notin Pending)'
    BY <2>1, <2>2, <2>3, <2>4 DEF OwnInv
  <2>7. (\A v \in Workers : Owned(v) \intersect (Pending \union {accepted}) = {})'
    BY <2>1, <2>2, <2>3, <2>4 DEF OwnInv
  <2>8. (\A u, v \in Workers : u # v => Owned(u) \intersect Owned(v) = {})'
    BY <2>1, <2>2, <2>3, <2>4 DEF OwnInv
  <2> QED
    BY <2>5, <2>6, <2>7, <2>8 DEF OwnInv
<1>6. ASSUME NEW w \in Workers, HandleSent(w) PROVE OwnInv'
  <2>1. /\ open' = open \ {file[w]} /\ accepted' = accepted
        /\ file[w] # None /\ client[w] # None /\ client[w] # file[w]
    BY <1>6 DEF HandleSent, FileClosed, LocalsInv
  <2>2. Owned(w) = {client[w], file[w]} /\ Owned(w)' = {client[w]}
    BY <1>6, <2>1 DEF HandleSent, TypeOK, Owned
  <2>3. \A v \in Workers : v # w => Owned(v)' = Owned(v)
    BY <1>6 DEF HandleSent, Owned, TypeOK
  <2>4. Pending' = Pending
    BY <1>6 DEF HandleSent, Pending
  <2>5. (open = Pending \union ({accepted} \ {None}) \union UNION {Owned(v) : v \in Workers})'
    BY <2>1, <2>2, <2>3, <2>4 DEF OwnInv
  <2>6. (accepted \notin Pending)'
    BY <2>1, <2>2, <2>3, <2>4 DEF OwnInv
  <2>7. (\A v \in Workers : Owned(v) \intersect (Pending \union {accepted}) = {})'
    BY <2>1, <2>2, <2>3, <2>4 DEF OwnInv
  <2>8. (\A u, v \in Workers : u # v => Owned(u) \intersect Owned(v) = {})'
    BY <2>1, <2>2, <2>3, <2>4 DEF OwnInv
  <2> QED
    BY <2>5, <2>6, <2>7, <2>8 DEF OwnInv
<1>7. CASE UNCHANGED <<open, accepted, client, file, pending>>
  <2>1. Pending' = Pending /\ \A v \in Workers : Owned(v)' = Owned(v)
    BY <1>7 DEF Owned, Pending
  <2> QED
    BY <1>7, <2>1 DEF OwnInv
<1> QED
  BY <1>1, <1>2, <1>3, <1>4, <1>5, <1>6, <1>7 DEF Next, Step, WorkerStep, Handle, vars,
    Start, EnqueueWait, Spurious, DequeueWait, HandleGet, Killed

\* The invariant holds throughout: the indices and the count agree, the ring is a
\* queue, and every descriptor is in one place.
THEOREM Invariance == Spec => []IInv
<1>1. IInv /\ [Next]_vars => IInv'
  BY TypeStep, RingStep, LocalsStep, OwnStep DEF IInv
<1> QED
  BY InitIInv, <1>1, PTL DEF Spec

\* enqueue()/dequeue(): connections leave the ring in the order in which they
\* came, for a ring of any size, any number of workers and any wakeups.
THEOREM RingFifoHolds == Spec => []RingIsFifo
<1>1. IInv => RingIsFifo
  <2> SUFFICES ASSUME TypeOK, RingInv PROVE RingIsFifo
    BY DEF IInv
  <2>1. pending \in Seq(FD) /\ Len(pending) = count /\ count \in Nat
    BY QueueAssumption DEF TypeOK, RingInv
  <2>2. pending = [k \in 1 .. Len(pending) |-> pending[k]]
    BY <2>1, LenProperties
  <2>3. \A k \in 1 .. count : pending[k] = queue[(front + k - 1) % MAX_QUEUE]
    BY DEF RingInv, Slot
  <2> QED
    BY <2>1, <2>2, <2>3 DEF RingIsFifo
<1> QED
  BY Invariance, <1>1, PTL

\* The descriptors in the ring, as FdsOwnedOnce says it, are the pending ones,
\* and there are count of them.
LEMMA QueuedIsPending ==
  ASSUME IInv PROVE Queued = Pending /\ Cardinality(Queued) = count
<1>1. /\ pending \in Seq(FD) /\ Len(pending) = count /\ count \in Nat
      /\ front \in Slots /\ count \in 0 .. MAX_QUEUE
  BY QueueAssumption DEF IInv, TypeOK, RingInv
<1>2. ASSUME NEW k \in 0 .. count - 1
      PROVE  k + 1 \in 1 .. count /\ queue[(front + k) % MAX_QUEUE] = pending[k + 1]
  <2>1. k + 1 \in 1 .. count /\ front + (k + 1) - 1 = front + k
    BY <1>1, QueueAssumption DEF Slots
  <2>2. Slot(front, k + 1) = (front + k) % MAX_QUEUE
    BY <2>1 DEF Slot
  <2> QED
    BY <2>1, <2>2 DEF IInv, RingInv
<1>3. ASSUME NEW k \in 1 .. count
      PROVE  k - 1 \in 0 .. count - 1 /\ queue[(front + (k - 1)) % MAX_QUEUE] = pending[k]
  <2>1. k - 1 \in 0 .. count - 1 /\ (k - 1) + 1 = k
    BY <1>1
  <2> QED
    BY <2>1, <1>2
<1>4. Queued = Pending
  <2>1. ASSUME NEW f, f \in Queued PROVE f \in Pending
    BY <2>1, <1>1, <1>2 DEF Queued, Pending
  <2>2. ASSUME NEW f, f \in Pending PROVE f \in Queued
    BY <2>2, <1>1, <1>3 DEF Queued, Pending
  <2> QED
    BY <2>1, <2>2
<1>5. Cardinality(Pending) = count
  <2>1. pending = [k \in 1 .. Len(pending) |-> pending[k]]
    BY <1>1, LenProperties
  <2>2. pending \in [1 .. count -> Pending]
    BY <1>1, <2>1 DEF Pending
  <2>3. \A j, k \in 1 .. count : pending[j] = pending[k] => j = k
    BY DEF IInv, RingInv
  <2>4. \A f \in Pending : \E k \in 1 .. count : pending[k] = f
    BY <1>1 DEF Pending
  <2>5. pending \in Bijection(1 .. count, Pending)
    BY <2>2, <2>3, <2>4, Fun_IsBij
  <2>6. ExistsBijection(1 .. count, Pending)
    BY <2>5 DEF ExistsBijection
  <2> QED
    BY <1>1, <2>6, FS_CountingElements
<1> QED
  BY <1>4, <1>5

\* Every open descriptor is in exactly one place, for every ring, pool and set of
\* descriptors: no connection is served twice, no reused number is closed by its
\* former owner and none leaks.
THEOREM FdsOwnedOnceHolds == Spec => []FdsOwnedOnce
<1>1. IInv => FdsOwnedOnce
  <2> SUFFICES ASSUME IInv PROVE FdsOwnedOnce
    OBVIOUS
  <2>1. Queued = Pending /\ Cardinality(Queued) = count
    BY QueuedIsPending
  <2> QED
    BY <2>1 DEF IInv, OwnInv, FdsOwnedOnce
<1> QED
  BY Invariance, <1>1, PTL

----------------------------------------------------------------------------
(***************************************************************************)
(* MiniShell: the job table                                                *)
(***************************************************************************)
\* A command runs in the foreground; waitpid() has reaped it.
Commanding == {"forked", "wait", "waited"}
Reaped == pc = "waited" /\ status # "stopped"

\* The job that fg has resumed; what waitpid() has reaped is gone; mini-shell-1 has
\* no jobs; only mini-shell-3 goes on after a failed fork().
IdxJob == idx # 0 => pc \in Commanding /\ shell = 3 /\ idx \in 1 .. Len(jobs) /\ jobs[idx].pid = cur
Gone == pc = "waited" /\ status # "stopped" /\ cur # MiniNone => child[cur] = "none"
Plain == shell = 1 => jobs = <<>> /\ status # "stopped"
Legal == astray => shell = 3
AllListed ==
  \A p \in MiniPid : child[p] # "none" =>
    \/ p \in M!Listed
    \/ shell # 3 /\ Len(jobs) = MAX_JOBS[shell]
    \/ pc \in Commanding /\ p = cur

\* What holds until mini-shell-3 writes past its table.
Kept == IdxJob /\ Gone /\ Plain /\ Legal /\ AllListed

\* What holds as long as, besides, no fork() of mini-shell-3 has failed.  What is in
\* the foreground is a new child or a job that fg has resumed.
PidsHere == \A i \in 1 .. Len(jobs) : jobs[i].pid # MiniNone
CurSet == cur # MiniNone <=> pc \in Commanding
Foreground ==
  pc \in Commanding => IF idx = 0 THEN cur \notin M!Listed ELSE ~jobs[idx].stopped
CurChild ==
  pc \in Commanding => /\ child[cur] = "none" <=> Reaped
                       /\ pc = "waited" => child[cur] \notin {"new", "run"}
JobsDiffer == \A i, j \in 1 .. Len(jobs) : jobs[i].pid = jobs[j].pid => i = j
JobsLive == \A p \in M!Listed : child[p] = "none" => Reaped /\ p = cur
StoppedRest ==
  \A i \in 1 .. Len(jobs) : jobs[i].stopped => child[jobs[i].pid] \notin {"new", "run"}

TableInv == /\ PidsHere /\ CurSet /\ Foreground /\ CurChild
            /\ JobsDiffer /\ JobsLive /\ StoppedRest

\* A pid, or the -1 that mini-shell-3 takes for one.
AnyPid == MiniPid \union {MiniNone}
Job == [pid : AnyPid, stopped : BOOLEAN]

\* The values of variables, and TypeOK in their terms.
Val == Value \union {""}

ShellType ==
  /\ shell \in Shells /\ pc \in M!PCs
  /\ miniline \in M!Line /\ incond \in BOOLEAN
  /\ block \in Seq(M!Line) /\ Len(block) <= MAX_BLOCK_LINES
  /\ todo \in Seq(M!Line)
  /\ local_vars \in M!Table /\ global_vars \in M!Table
  /\ env \in [Name -> Val]
  /\ fds \in 0 .. MaxFd
  /\ child \in [MiniPid -> {"none", "new", "run", "stop", "stopped"} \union M!Zombie]
  /\ jobs \in Seq(Job) /\ Len(jobs) <= MAX_JOBS[shell]
  /\ fg_pid \in MiniPid \union {MiniNone} /\ cur \in MiniPid \union {MiniNone}
  /\ idx \in 0 .. MAX_JOBS[shell]
  /\ status \in M!Zombie \union {"stopped"}
  /\ astray \in BOOLEAN

\* The inductive invariant.
JobsInv == ShellType /\ (pc # "overrun" => Kept /\ (~astray => TableInv))

LEMMA TypeIs == M!TypeOK <=> ShellType
  BY Zenon DEF M!TypeOK, ShellType, Val, Job, AnyPid

\* What is assumed of the constants.
LEMMA Sizes ==
  ASSUME M!SizeAssumption
  PROVE  /\ Shells \subseteq 1 .. 3 /\ MAX_VARS \in Nat \ {0} /\ MAX_JOBS \in [1 .. 3 -> Nat \ {0}]
         /\ MAX_BLOCK_LINES \in Nat \ {0} /\ MaxFd \in Nat /\ MiniNone \notin MiniPid
  BY Zenon DEF M!SizeAssumption

----------------------------------------------------------------------------
(***************************************************************************)
(* Lines and variables                                                     *)
(***************************************************************************)
\* What the words of a line are.
LEMMA LineShape ==
  ASSUME NEW l \in M!Line
  PROVE  /\ l[1] \in {"assign", "export"} => l[2] \in Name /\ l[3] \in M!Expr
         /\ l[1] = "reexport" => l[2] \in Name
         /\ l[1] = "fg" => l[2] \in 0 .. MAX_JOBS[3]
  BY DEF M!Line, M!Command

LEMMA InputLines == M!Input \subseteq M!Line /\ M!Command \subseteq M!Line /\ M!NoLine \in M!Line
  BY DEF M!Input, M!Line, M!NoLine

\* A set of positions that is not empty has a first one, and a last one.
LEMMA FirstPosition ==
  ASSUME NEW n \in Nat, NEW S \in SUBSET (1 .. n), S # {}
  PROVE  \E k \in S : \A j \in S : k <= j
<1>1. S \subseteq Nat
  OBVIOUS
<1>2. \E k \in S : \A j \in S : ~(<<j, k>> \in OpToRel(<, Nat))
  BY <1>1, WFMin, NatLessThanWellFounded
<1>3. PICK k \in S : \A j \in S : ~(j < k)
  BY <1>1, <1>2 DEF OpToRel
<1> QED
  BY <1>3

LEMMA LastPosition ==
  ASSUME NEW n \in Nat, NEW S \in SUBSET (1 .. n), S # {}
  PROVE  \E k \in S : \A j \in S : j <= k
<1> DEFINE T == {n + 1 - k : k \in S}
<1>1. T \in SUBSET (1 .. n) /\ T # {}
  <2>1. PICK i : i \in S
    OBVIOUS
  <2>2. n + 1 - i \in T
    BY <2>1
  <2>3. \A k \in S : n + 1 - k \in 1 .. n
    OBVIOUS
  <2> QED
    BY <2>2, <2>3
<1>2. PICK t \in T : \A u \in T : t <= u
  <2> HIDE DEF T
  <2> QED
    BY <1>1, FirstPosition
<1>3. PICK k \in S : t = n + 1 - k
  BY <1>2
<1>4. ASSUME NEW j \in S PROVE j <= k
  <2>1. n + 1 - j \in T
    BY <1>4
  <2> QED
    BY <1>2, <1>3, <2>1, SMTT(30)
<1> QED
  BY <1>4

LEMMA TableOf == \A s : s \in M!Table <=> \E n \in 0 .. MAX_VARS : s \in [1 .. n -> Name \X Val]
  BY Zenon DEF M!Table, Val

\* A table of variables is a sequence, and First() finds an entry of it.
LEMMA TableIs ==
  ASSUME NEW s \in M!Table, M!SizeAssumption
  PROVE  \E n \in 0 .. MAX_VARS : /\ s \in [1 .. n -> Name \X Val]
                                  /\ Len(s) = n /\ s \in Seq(Name \X Val)
<1>1. PICK n \in 0 .. MAX_VARS : s \in [1 .. n -> Name \X Val]
  BY TableOf
<1>2. n \in Nat
  BY Sizes
<1>3. s \in Seq(Name \X Val)
  BY <1>1, <1>2, IsASeq
<1>4. Len(s) = n
  BY <1>1, <1>2, <1>3, LenProperties
<1> QED
  BY <1>1, <1>3, <1>4

LEMMA FirstIs ==
  ASSUME M!SizeAssumption, NEW s \in M!Table, NEW n, M!Entries(s, n) # {}
  PROVE  M!First(s, n) \in 1 .. Len(s) /\ s[M!First(s, n)] \in Name \X Val
<1>1. PICK m \in 0 .. MAX_VARS : s \in [1 .. m -> Name \X Val] /\ Len(s) = m
  BY TableIs
<1>2. m \in Nat /\ M!Entries(s, n) \in SUBSET (1 .. m)
  BY <1>1, Sizes DEF M!Entries
<1>3. \E i \in M!Entries(s, n) : \A j \in M!Entries(s, n) : i <= j
  BY <1>2, FirstPosition
<1>4. M!First(s, n) \in M!Entries(s, n)
  BY <1>3 DEF M!First
<1> QED
  BY <1>1, <1>2, <1>4

\* get_var_value(), expand_variables() and set_local_var() keep to the values.
LEMMA ValueIs ==
  ASSUME M!SizeAssumption, ShellType, NEW n \in Name
  PROVE  M!GetVarValue(n) \in Val
<1>1. local_vars \in M!Table /\ global_vars \in M!Table /\ env[n] \in Val
  BY DEF ShellType
<1>2. CASE M!Entries(local_vars, n) # {}
  <2>1. local_vars[M!First(local_vars, n)] \in Name \X Val
    BY <1>1, <1>2, FirstIs
  <2> QED
    BY <1>2, <2>1 DEF M!GetVarValue
<1>3. CASE M!Entries(local_vars, n) = {} /\ M!Entries(global_vars, n) # {}
  <2>1. global_vars[M!First(global_vars, n)] \in Name \X Val
    BY <1>1, <1>3, FirstIs
  <2> QED
    BY <1>3, <2>1 DEF M!GetVarValue
<1>4. CASE M!Entries(local_vars, n) = {} /\ M!Entries(global_vars, n) = {}
  BY <1>1, <1>4 DEF M!GetVarValue
<1> QED
  BY <1>2, <1>3, <1>4

LEMMA ExpandIs ==
  ASSUME M!SizeAssumption, ShellType, NEW x \in M!Expr
  PROVE  M!Expand(x) \in Val
<1>1. CASE x \in Value
  BY <1>1 DEF M!Expand, Val
<1>2. CASE x \notin Value
  <2>1. PICK n \in Name : x = <<"$", n>>
    BY <1>2, Zenon DEF M!Expr
  <2>2. x[2] = n
    BY <2>1
  <2>3. M!Expand(x) = M!GetVarValue(n)
    BY <1>2, <2>2, Zenon DEF M!Expand
  <2> QED
    BY <2>3, ValueIs
<1> QED
  BY <1>1, <1>2

LEMMA PutIs ==
  ASSUME M!SizeAssumption, NEW s \in M!Table, NEW n \in Name, NEW v \in Val
  PROVE  M!Put(s, n, v) \in M!Table
<1>1. PICK m \in 0 .. MAX_VARS : /\ s \in [1 .. m -> Name \X Val] /\ Len(s) = m
                                 /\ s \in Seq(Name \X Val)
  BY TableIs
<1>2. m \in Nat /\ MAX_VARS \in Nat
  BY Sizes
<1>3. CASE M!Entries(s, n) # {}
  <2>1. PICK i : i = M!First(s, n)
    OBVIOUS
  <2>2. M!Put(s, n, v) = [s EXCEPT ![i] = <<n, v>>]
    BY <1>3, <2>1 DEF M!Put
  <2>3. [s EXCEPT ![i] = <<n, v>>] \in [1 .. m -> Name \X Val]
    BY <1>1
  <2> QED
    BY <2>2, <2>3, TableOf
<1>4. CASE M!Entries(s, n) = {} /\ m < MAX_VARS
  <2>1. M!Put(s, n, v) = Append(s, <<n, v>>)
    BY <1>1, <1>4 DEF M!Put
  <2>2. Append(s, <<n, v>>) \in [1 .. m + 1 -> Name \X Val]
    <3>1. <<n, v>> \in Name \X Val
      OBVIOUS
    <3>2. PICK t : t = Append(s, <<n, v>>)
      OBVIOUS
    <3>3. t \in Seq(Name \X Val) /\ Len(t) = m + 1
      BY <1>1, <3>1, <3>2, AppendProperties
    <3> QED
      BY <3>2, <3>3, LenProperties
  <2>3. m + 1 \in 0 .. MAX_VARS
    BY <1>1, <1>2, <1>4
  <2> QED
    BY <2>1, <2>2, <2>3, TableOf
<1>5. CASE M!Entries(s, n) = {} /\ ~(m < MAX_VARS)
  BY <1>1, <1>5 DEF M!Put
<1> QED
  BY <1>3, <1>4, <1>5

\* The shell goes on with a line of the block, or at the prompt.
LEMMA ProceedIs ==
  ASSUME NEW ls \in Seq(M!Line), M!Proceed(ls)
  PROVE  pc' \in {"prompt", "exec"} /\ miniline' \in M!Line /\ todo' \in Seq(M!Line)
<1>1. CASE ls = <<>>
  BY <1>1, InputLines DEF M!Proceed
<1>2. CASE ls # <<>>
  <2>1. Head(ls) \in M!Line /\ Tail(ls) \in Seq(M!Line)
    BY <1>2, HeadTailProperties
  <2> QED
    BY <1>2, <2>1 DEF M!Proceed
<1> QED
  BY <1>1, <1>2

LEMMA ResultIs ==
  ASSUME M!SizeAssumption, ShellType, NEW x, M!Result(x)
  PROVE  /\ pc' \in {"prompt", "exec"} /\ miniline' \in M!Line /\ todo' \in Seq(M!Line)
         /\ incond' = FALSE /\ block' = <<>>
<1>1. PICK ls : ls = IF ~incond THEN todo ELSE IF x = 0 THEN block ELSE <<>>
  OBVIOUS
<1>2. ls \in Seq(M!Line)
  BY <1>1 DEF ShellType
<1>3. M!Proceed(ls) /\ incond' = FALSE /\ block' = <<>>
  BY <1>1 DEF M!Result
<1> QED
  BY <1>2, <1>3, ProceedIs

----------------------------------------------------------------------------
(***************************************************************************)
(* The steps that leave the job table alone                                *)
(***************************************************************************)
\* The jobs of the table.
LEMMA JobsAre ==
  ASSUME NEW s \in Seq(Job)
  PROVE  /\ Len(s) \in Nat /\ DOMAIN s = 1 .. Len(s)
         /\ \A i \in 1 .. Len(s) : s[i] \in Job /\ s[i].pid \in AnyPid /\ s[i].stopped \in BOOLEAN
<1>1. Len(s) \in Nat /\ s \in [1 .. Len(s) -> Job]
  BY LenProperties
<1>2. \A i \in 1 .. Len(s) : s[i] \in Job
  BY <1>1
<1> QED
  BY <1>1, <1>2 DEF Job

\* The shell reads, executes or has ended, and no child changes.
LEMMA TableFrame ==
  ASSUME JobsInv, UNCHANGED <<shell, child, jobs, cur, idx, status, astray>>,
         pc \notin Commanding, pc # "overrun", pc' \notin Commanding
  PROVE  Kept' /\ (~astray' => TableInv')
<1>1. M!Listed' = M!Listed /\ ~Reaped /\ ~Reaped'
  BY DEF M!Listed, Reaped, Commanding
<1>2. Kept /\ (~astray => TableInv)
  BY DEF JobsInv
<1>3. IdxJob' /\ Gone' /\ Plain' /\ Legal'
  BY <1>2 DEF Kept, IdxJob, Gone, Plain, Legal, Commanding
<1>4. AllListed'
  BY <1>1, <1>2 DEF Kept, AllListed
<1>5. ASSUME ~astray PROVE TableInv'
  <2>1. CurSet' /\ Foreground' /\ CurChild'
    BY <1>2, <1>5 DEF TableInv, CurSet, Foreground, CurChild
  <2>2. PidsHere' /\ JobsDiffer' /\ StoppedRest'
    BY <1>2, <1>5 DEF TableInv, PidsHere, JobsDiffer, StoppedRest
  <2>3. JobsLive'
    BY <1>1, <1>2, <1>5 DEF TableInv, JobsLive
  <2> QED
    BY <2>1, <2>2, <2>3 DEF TableInv
<1> QED
  BY <1>3, <1>4, <1>5 DEF Kept

\* fgets(): lines are read.
LEMMA ReadJobs ==
  ASSUME M!SizeAssumption, JobsInv, M!ReadLine \/ M!Eof \/ M!ReadThen \/ M!ReadBody \/ M!ReadFi
  PROVE  JobsInv'
<1>1. ShellType
  BY DEF JobsInv
<1>2. /\ pc \notin Commanding /\ pc # "overrun" /\ pc' \notin Commanding /\ pc' \in M!PCs
      /\ UNCHANGED <<shell, todo, local_vars, global_vars, env, fds, child, jobs, fg_pid, cur, idx, status,
                     astray>>
  BY DEF M!ReadLine, M!Eof, M!ReadThen, M!ReadBody, M!ReadFi, M!Reading, Commanding, M!PCs,
         M!jobvars, M!varvars, M!inputvars
<1>3. miniline' \in M!Line
  BY <1>1, InputLines DEF M!ReadLine, M!Eof, M!ReadThen, M!ReadBody, M!ReadFi, ShellType
<1>4. incond' \in BOOLEAN
  BY <1>1 DEF M!ReadLine, M!Eof, M!ReadThen, M!ReadBody, M!ReadFi, ShellType, M!inputvars
<1>5. block' \in Seq(M!Line) /\ Len(block') <= MAX_BLOCK_LINES
  <2>1. CASE UNCHANGED block
    BY <1>1, <2>1 DEF ShellType
  <2>2. CASE block' = <<>>
    BY <2>2, Sizes
  <2>3. ASSUME NEW l \in M!Line, Len(block) < MAX_BLOCK_LINES, block' = Append(block, l)
        PROVE  block' \in Seq(M!Line) /\ Len(block') <= MAX_BLOCK_LINES
    <3>1. block \in Seq(M!Line) /\ MAX_BLOCK_LINES \in Nat
      BY <1>1, Sizes DEF ShellType
    <3>2. block' \in Seq(M!Line) /\ Len(block') = Len(block) + 1
      BY <2>3, <3>1, AppendProperties
    <3> QED
      BY <2>3, <3>1, <3>2, LenProperties
  <2>4. \/ UNCHANGED block \/ block' = <<>>
        \/ \E l \in M!Line : Len(block) < MAX_BLOCK_LINES /\ block' = Append(block, l)
    BY InputLines DEF M!ReadLine, M!Eof, M!ReadThen, M!ReadBody, M!ReadFi, M!BlockRoom, M!inputvars
  <2> QED
    BY <2>1, <2>2, <2>3, <2>4
<1>6. ShellType'
  BY <1>1, <1>2, <1>3, <1>4, <1>5 DEF ShellType
<1> QED
  BY <1>2, <1>6, TableFrame DEF JobsInv

\* execute_command(), but for fg of a job.
LEMMA ExecuteJobs ==
  ASSUME M!SizeAssumption, JobsInv, M!Assign \/ M!Export \/ M!Show \/ M!Exit \/ M!Other \/ M!FgNone
  PROVE  JobsInv'
<1>1. ShellType /\ miniline \in M!Line
  BY DEF JobsInv, ShellType
<1>2. /\ pc = "exec" /\ pc' \in {"prompt", "exec", "exited", "external"}
      /\ miniline' \in M!Line /\ todo' \in Seq(M!Line)
  <2>1. CASE M!Proceed(todo)
    BY <1>1, <2>1, ProceedIs DEF ShellType, M!Assign, M!Export, M!Show, M!Exit, M!Other, M!FgNone, M!Is
  <2>2. CASE M!Exit \/ M!Other
    BY <1>1, <2>2 DEF ShellType, M!Exit, M!Other, M!Is, M!inputvars
  <2>3. CASE M!Assign \/ M!Export \/ M!Show \/ M!FgNone
    BY <2>1, <2>3 DEF M!Assign, M!Export, M!Show, M!FgNone
  <2> QED
    BY <2>2, <2>3
<1>3. UNCHANGED <<shell, incond, block, fds, child, jobs, fg_pid, cur, idx, status, astray>>
  BY DEF M!Assign, M!Export, M!Show, M!Exit, M!Other, M!FgNone, M!inputvars, M!jobvars
<1>4. local_vars' \in M!Table /\ global_vars' \in M!Table /\ env' \in [Name -> Val]
  <2>1. local_vars \in M!Table /\ global_vars \in M!Table /\ env \in [Name -> Val]
    BY <1>1 DEF ShellType
  <2>2. CASE M!Assign
    <3>1. miniline[2] \in Name /\ miniline[3] \in M!Expr
      BY <1>1, <2>2, LineShape DEF M!Assign, M!Is
    <3>2. M!Expand(miniline[3]) \in Val
      BY <1>1, <3>1, ExpandIs
    <3> QED
      BY <2>1, <2>2, <3>1, <3>2, PutIs DEF M!Assign
  <2>3. CASE M!Export
    <3>1. PICK n, v : /\ n = miniline[2] /\ v = IF M!Is("export") THEN M!Expand(miniline[3]) ELSE M!GetVarValue(n)
                      /\ env' = [env EXCEPT ![n] = v] /\ global_vars' = M!Put(global_vars, n, v)
                      /\ local_vars' = local_vars
      BY <2>3 DEF M!Export
    <3>2. n \in Name
      BY <1>1, <2>3, <3>1, LineShape DEF M!Export, M!Is
    <3>3. v \in Val
      <4>1. CASE M!Is("export")
        <5>1. miniline[3] \in M!Expr
          BY <1>1, <4>1, LineShape DEF M!Is
        <5> QED
          BY <1>1, <3>1, <4>1, <5>1, ExpandIs
      <4>2. CASE ~M!Is("export")
        BY <1>1, <3>1, <3>2, <4>2, ValueIs
      <4> QED
        BY <4>1, <4>2
    <3> QED
      BY <2>1, <3>1, <3>2, <3>3, PutIs
  <2>4. CASE M!Show \/ M!Exit \/ M!Other \/ M!FgNone
    BY <2>1, <2>4 DEF M!Show, M!Exit, M!Other, M!FgNone, M!varvars
  <2> QED
    BY <2>2, <2>3, <2>4
<1>5. ShellType'
  BY <1>1, <1>2, <1>3, <1>4 DEF ShellType, M!PCs, M!Reading
<1>6. pc \notin Commanding /\ pc # "overrun" /\ pc' \notin Commanding
  BY <1>2 DEF Commanding
<1> QED
  BY <1>3, <1>5, <1>6, TableFrame DEF JobsInv

\* open() or fork() fails.
LEMMA FailJobs == ASSUME M!SizeAssumption, JobsInv, M!OpenFail \/ M!ForkFail PROVE JobsInv'
<1>1. ShellType
  BY DEF JobsInv
<1>2. /\ pc = "external" /\ M!Result(-1)
      /\ UNCHANGED <<shell, local_vars, global_vars, env, child, jobs, fg_pid, cur, idx, status, astray>>
  BY DEF M!OpenFail, M!ForkFail, M!varvars, M!jobvars
<1>3. /\ pc' \in {"prompt", "exec"} /\ miniline' \in M!Line /\ todo' \in Seq(M!Line)
      /\ incond' = FALSE /\ block' = <<>>
  BY <1>1, <1>2, ResultIs
<1>4. fds' \in 0 .. MaxFd
  BY <1>1, Sizes, SMTT(30) DEF M!OpenFail, M!ForkFail, M!Opened, ShellType
<1>5. ShellType'
  <2>1. Len(block') <= MAX_BLOCK_LINES /\ block' \in Seq(M!Line)
    BY <1>3, Sizes
  <2> QED
    BY <1>1, <1>2, <1>3, <1>4, <2>1 DEF ShellType, M!PCs, M!Reading
<1>6. pc \notin Commanding /\ pc # "overrun" /\ pc' \notin Commanding
  BY <1>2, <1>3 DEF Commanding
<1> QED
  BY <1>2, <1>5, <1>6, TableFrame DEF JobsInv

\* Signals and children: whoever is there stays, and nobody runs who did not.
LEMMA ChildJobs ==
  ASSUME M!SizeAssumption, JobsInv,
         M!Handler \/ M!Terminal \/ \E p \in MiniPid : M!ChildExec(p) \/ M!ChildExit(p) \/ M!ChildKilled(p)
  PROVE  JobsInv'
<1>1. ShellType /\ child \in [MiniPid -> {"none", "new", "run", "stop", "stopped"} \union M!Zombie]
      /\ jobs \in Seq(Job) /\ cur \in MiniPid \union {MiniNone} /\ fg_pid \in MiniPid \union {MiniNone}
  BY DEF JobsInv, ShellType
<1>2. /\ UNCHANGED <<shell, pc, miniline, block, incond, todo, local_vars, global_vars, env, fds, jobs, fg_pid,
                     cur, idx, status, astray>>
      /\ Kept /\ (~astray => TableInv)
  BY DEF M!Handler, M!Terminal, M!ChildExec, M!ChildExit, M!ChildKilled, M!Outside,
         M!inputvars, M!varvars, M!jobvars, JobsInv
<1>3. /\ child' \in [MiniPid -> {"none", "new", "run", "stop", "stopped"} \union M!Zombie]
      /\ \A q \in MiniPid : /\ child'[q] = "none" <=> child[q] = "none"
                            /\ child'[q] \in {"new", "run"} => child[q] \in {"new", "run"}
  <2>1. CASE M!Handler
    BY <1>1, <2>1 DEF M!Handler
  <2>2. CASE M!Terminal
    BY <1>1, <2>2 DEF M!Terminal
  <2>3. ASSUME NEW p \in MiniPid, M!ChildExec(p) \/ M!ChildExit(p) \/ M!ChildKilled(p)
        PROVE  /\ child' \in [MiniPid -> {"none", "new", "run", "stop", "stopped"} \union M!Zombie]
               /\ \A q \in MiniPid : /\ child'[q] = "none" <=> child[q] = "none"
                                     /\ child'[q] \in {"new", "run"} => child[q] \in {"new", "run"}
    <3>1. PICK s : /\ child' = [child EXCEPT ![p] = s]
                   /\ \/ child[p] = "new" /\ s \in {"run", "exit1", "killed"}
                      \/ child[p] = "run" /\ s \in {"exit0", "exit1", "killed"}
                      \/ child[p] \in {"stop", "stopped"} /\ s = "killed"
      BY <2>3 DEF M!ChildExec, M!ChildExit, M!ChildKilled
    <3>2. child'[p] = s /\ \A q \in MiniPid : q # p => child'[q] = child[q]
      BY <1>1, <3>1
    <3>3. child' \in [MiniPid -> {"none", "new", "run", "stop", "stopped"} \union M!Zombie]
      BY <1>1, <3>1 DEF M!Zombie
    <3> QED
      BY <3>1, <3>2, <3>3
  <2> QED
    BY <2>1, <2>2, <2>3
<1>4. ShellType'
  BY <1>1, <1>2, <1>3 DEF ShellType
<1>5. M!Listed' = M!Listed /\ Reaped' = Reaped
  BY <1>2 DEF M!Listed, Reaped
<1>6. Kept'
  <2>1. IdxJob' /\ Plain' /\ Legal'
    BY <1>2 DEF Kept, IdxJob, Plain, Legal
  <2>2. Gone'
    BY <1>1, <1>2, <1>3 DEF Kept, Gone
  <2>3. AllListed'
    BY <1>2, <1>3, <1>5 DEF Kept, AllListed
  <2> QED
    BY <2>1, <2>2, <2>3 DEF Kept
<1>7. ASSUME ~astray PROVE TableInv'
  <2>1. TableInv
    BY <1>2, <1>7
  <2>2. pc \in Commanding => cur \in MiniPid
    BY <1>1, <2>1 DEF TableInv, CurSet
  <2>3. \A i \in 1 .. Len(jobs) : jobs[i].pid \in MiniPid
    BY <1>1, <2>1, JobsAre DEF TableInv, PidsHere, AnyPid
  <2>4. PidsHere' /\ CurSet' /\ Foreground' /\ JobsDiffer'
    BY <1>2, <1>5, <2>1 DEF TableInv, PidsHere, CurSet, Foreground, JobsDiffer
  <2>5. CurChild'
    BY <1>2, <1>3, <1>5, <2>1, <2>2 DEF TableInv, CurChild
  <2>6. JobsLive'
    <3>1. M!Listed \subseteq MiniPid
      BY <2>3 DEF M!Listed
    <3> QED
      BY <1>2, <1>3, <1>5, <2>1, <3>1 DEF TableInv, JobsLive
  <2>7. StoppedRest'
    BY <1>2, <1>3, <2>1, <2>3 DEF TableInv, StoppedRest
  <2> QED
    BY <2>4, <2>5, <2>6, <2>7 DEF TableInv
<1> QED
  BY <1>2, <1>4, <1>6, <1>7 DEF JobsInv

----------------------------------------------------------------------------
(***************************************************************************)
(* The steps that change the job table                                     *)
(***************************************************************************)
\* add_job(), or no room for it.
LEMMA NewJobIs ==
  ASSUME M!SizeAssumption, ShellType, NEW p \in AnyPid, NEW s \in BOOLEAN
  PROVE  /\ M!NewJob(p, s) \in Seq(Job) /\ Len(M!NewJob(p, s)) <= MAX_JOBS[shell]
         /\ \/ /\ Len(jobs) < MAX_JOBS[shell] /\ Len(M!NewJob(p, s)) = Len(jobs) + 1
               /\ \A i \in 1 .. Len(jobs) : M!NewJob(p, s)[i] = jobs[i]
               /\ M!NewJob(p, s)[Len(jobs) + 1] = [pid |-> p, stopped |-> s]
            \/ Len(jobs) = MAX_JOBS[shell] /\ M!NewJob(p, s) = jobs
<1>1. /\ jobs \in Seq(Job) /\ Len(jobs) <= MAX_JOBS[shell] /\ MAX_JOBS[shell] \in Nat /\ Len(jobs) \in Nat
  BY Sizes, JobsAre DEF ShellType
<1>2. PICK j : j = [pid |-> p, stopped |-> s]
  OBVIOUS
<1>3. j \in Job
  BY <1>2 DEF Job
<1>4. CASE Len(jobs) < MAX_JOBS[shell]
  <2>1. M!NewJob(p, s) = Append(jobs, j)
    BY <1>1, <1>2, <1>4 DEF M!NewJob, M!Full
  <2>2. PICK t : t = Append(jobs, j)
    OBVIOUS
  <2>3. /\ t \in Seq(Job) /\ Len(t) = Len(jobs) + 1 /\ t[Len(jobs) + 1] = j
        /\ \A i \in 1 .. Len(jobs) : t[i] = jobs[i]
    BY <1>1, <1>3, <2>2, AppendProperties
  <2> QED
    BY <1>1, <1>2, <1>4, <2>1, <2>2, <2>3
<1>5. CASE ~(Len(jobs) < MAX_JOBS[shell])
  <2>1. M!NewJob(p, s) = jobs /\ Len(jobs) = MAX_JOBS[shell]
    BY <1>1, <1>5 DEF M!NewJob, M!Full
  <2> QED
    BY <1>1, <2>1
<1> QED
  BY <1>4, <1>5

\* A job is taken out.
LEMMA EndedIs ==
  ASSUME NEW s \in Seq(Job), NEW k \in 1 .. Len(s)
  PROVE  /\ RemoveAt(s, k) \in Seq(Job) /\ Len(RemoveAt(s, k)) = Len(s) - 1
         /\ \A i \in 1 .. Len(s) - 1 : RemoveAt(s, k)[i] = s[IF i < k THEN i ELSE i + 1]
<1>1. PICK n \in Nat : n = Len(s)
  BY LenProperties
<1>2. PICK a, b : a = SubSeq(s, 1, k - 1) /\ b = SubSeq(s, k + 1, Len(s))
  OBVIOUS
<1>3. /\ a \in Seq(Job) /\ Len(a) = k - 1 /\ \A i \in 1 .. k - 1 : a[i] = s[i]
  <2>1. \A i \in 1 .. k - 1 : s[i] \in Job
    BY <1>1, JobsAre
  <2>2. /\ a \in Seq(Job) /\ Len(a) = IF 1 <= k - 1 THEN (k - 1) - 1 + 1 ELSE 0
        /\ \A i \in 1 .. (k - 1) - 1 + 1 : a[i] = s[1 + i - 1]
    BY <1>1, <1>2, <2>1, SubSeqProperties
  <2> QED
    BY <1>1, <2>2
<1>4. /\ b \in Seq(Job) /\ Len(b) = n - k /\ \A i \in 1 .. n - k : b[i] = s[k + i]
  <2>1. \A i \in k + 1 .. n : s[i] \in Job
    BY <1>1, JobsAre
  <2>2. /\ b \in Seq(Job) /\ Len(b) = IF k + 1 <= n THEN n - (k + 1) + 1 ELSE 0
        /\ \A i \in 1 .. n - (k + 1) + 1 : b[i] = s[(k + 1) + i - 1]
    BY <1>1, <1>2, <2>1, SubSeqProperties
  <2> QED
    BY <1>1, <2>2
<1>5. PICK t : t = a \o b
  OBVIOUS
<1>6. RemoveAt(s, k) = t
  BY <1>2, <1>5 DEF RemoveAt
<1>7. /\ t \in Seq(Job) /\ Len(t) = Len(a) + Len(b)
      /\ \A i \in 1 .. Len(a) + Len(b) : t[i] = IF i <= Len(a) THEN a[i] ELSE b[i - Len(a)]
  BY <1>3, <1>4, <1>5, ConcatProperties
<1>8. ASSUME NEW i \in 1 .. n - 1 PROVE t[i] = s[IF i < k THEN i ELSE i + 1]
  <2>1. CASE i < k
    <3>1. i <= k - 1 /\ i \in 1 .. k - 1 /\ i \in 1 .. (k - 1) + (n - k)
      BY <1>1, <2>1
    <3> QED
      BY <1>3, <1>4, <1>7, <2>1, <3>1
  <2>2. CASE ~(i < k)
    <3>1. ~(i <= k - 1) /\ i - (k - 1) \in 1 .. n - k /\ k + (i - (k - 1)) = i + 1
         /\ i \in 1 .. (k - 1) + (n - k)
      BY <1>1, <2>2
    <3> QED
      BY <1>3, <1>4, <1>7, <2>2, <3>1
  <2> QED
    BY <2>1, <2>2
<1>9. Len(t) = n - 1
  BY <1>1, <1>3, <1>4, <1>7
<1> QED
  BY <1>1, <1>6, <1>7, <1>8, <1>9

\* fg: the job that it resumes is in the table, and is stopped.
LEMMA FgJobIs ==
  ASSUME ShellType, NEW k, M!FgJob(k) # 0
  PROVE  M!FgJob(k) \in 1 .. Len(jobs) /\ jobs[M!FgJob(k)].stopped
<1>1. PICK n \in Nat : n = Len(jobs)
  BY JobsAre DEF ShellType
<1>2. PICK S : S = {i \in 1 .. Len(jobs) : jobs[i].stopped}
  OBVIOUS
<1>3. M!FgJob(k) = IF k = 0 THEN IF S = {} THEN 0 ELSE CHOOSE i \in S : \A j \in S : j <= i
                 ELSE IF k \in S THEN k ELSE 0
  BY <1>2 DEF M!FgJob
<1>4. S # {} => \E i \in S : \A j \in S : j <= i
  BY <1>1, <1>2, LastPosition
<1>5. M!FgJob(k) \in S
  BY <1>3, <1>4
<1> QED
  BY <1>2, <1>5

LEMMA FgJobs == ASSUME M!SizeAssumption, JobsInv, M!Fg PROVE JobsInv'
<1>1. ShellType /\ jobs \in Seq(Job)
      /\ child \in [MiniPid -> {"none", "new", "run", "stop", "stopped"} \union M!Zombie]
  BY DEF JobsInv, ShellType
<1>2. PICK k, p : k = idx' /\ p = cur'
  OBVIOUS
<1>3. /\ pc = "exec" /\ shell = 3 /\ k = M!FgJob(miniline[2]) /\ k # 0 /\ p = jobs[k].pid
      /\ jobs' = [jobs EXCEPT ![k].stopped = FALSE]
      /\ child' = M!Continued(p)
      /\ pc' = "forked" /\ miniline' = M!NoLine
      /\ UNCHANGED <<shell, block, incond, todo, local_vars, global_vars, env, fds, fg_pid, status, astray>>
  BY <1>2 DEF M!Fg, M!Is, M!Resumed, M!inputvars, M!varvars
<1>4. k \in 1 .. Len(jobs) /\ jobs[k].stopped
  BY <1>1, <1>3, FgJobIs
<1>5. /\ jobs' \in Seq(Job) /\ Len(jobs') = Len(jobs) /\ jobs'[k].pid = p /\ jobs'[k].stopped = FALSE
      /\ \A i \in 1 .. Len(jobs) : jobs'[i].pid = jobs[i].pid /\ (i # k => jobs'[i] = jobs[i])
  <2>1. PICK t, j : t = [jobs EXCEPT ![k] = j] /\ j = [jobs[k] EXCEPT !.stopped = FALSE]
    OBVIOUS
  <2>2. jobs' = t
    BY <1>1, <1>3, <1>4, <2>1, JobsAre
  <2>3. j \in Job /\ j.pid = p /\ j.stopped = FALSE
    BY <1>1, <1>3, <1>4, <2>1, JobsAre DEF Job
  <2>4. t \in Seq(Job) /\ Len(t) = Len(jobs) /\ \A i \in 1 .. Len(jobs) : t[i] = IF i = k THEN j ELSE jobs[i]
    BY <1>1, <1>4, <2>1, <2>3, ExceptSeq
  <2> QED
    BY <1>3, <1>4, <2>2, <2>3, <2>4
<1>6. p \in AnyPid /\ p \in M!Listed
  BY <1>1, <1>3, <1>4, JobsAre DEF M!Listed
<1>7. ~Reaped /\ ~Reaped' /\ pc \notin Commanding /\ pc' \in Commanding /\ Kept /\ (~astray => TableInv)
  BY <1>3 DEF Reaped, Commanding, JobsInv
<1>8. /\ child' \in [MiniPid -> {"none", "new", "run", "stop", "stopped"} \union M!Zombie]
      /\ \A q \in MiniPid : child'[q] = "none" <=> child[q] = "none"
      /\ \A q \in MiniPid : p # MiniNone /\ q # p => child'[q] = child[q]
  BY <1>1, <1>3 DEF M!Continued, M!Named
<1>9. M!Listed' = M!Listed
  BY <1>5 DEF M!Listed
<1>10. ShellType'
  <2>1. /\ k \in 0 .. MAX_JOBS[shell] /\ Len(jobs') <= MAX_JOBS[shell]
    BY <1>1, <1>4, <1>5, Sizes, JobsAre DEF ShellType
  <2>2. miniline' \in M!Line /\ pc' \in M!PCs
    BY <1>3, InputLines DEF M!PCs
  <2> QED
    BY <1>1, <1>2, <1>3, <1>5, <1>6, <1>8, <2>1, <2>2 DEF ShellType, AnyPid
<1>11. Kept'
  <2>1. IdxJob' /\ Gone' /\ Plain' /\ Legal'
    BY <1>2, <1>3, <1>4, <1>5, <1>7 DEF IdxJob, Gone, Plain, Legal
  <2>2. AllListed'
    BY <1>3, <1>7, <1>8, <1>9 DEF Kept, AllListed
  <2> QED
    BY <2>1, <2>2 DEF Kept
<1>12. ASSUME ~astray PROVE TableInv'
  <2>1. TableInv
    BY <1>7, <1>12
  <2>2. p \in MiniPid /\ p # MiniNone /\ child[p] # "none"
    BY <1>3, <1>4, <1>6, <1>7, <2>1 DEF TableInv, PidsHere, JobsLive, AnyPid
  <2>3. PidsHere' /\ CurSet'
    BY <1>2, <1>5, <1>7, <2>1, <2>2 DEF TableInv, PidsHere, CurSet
  <2>4. Foreground'
    BY <1>2, <1>3, <1>5 DEF Foreground
  <2>5. CurChild'
    BY <1>2, <1>3, <1>7, <1>8, <2>2 DEF CurChild
  <2>6. JobsDiffer'
    BY <1>5, <2>1 DEF TableInv, JobsDiffer
  <2>7. JobsLive'
    <3>1. M!Listed \subseteq MiniPid
      BY <1>1, <2>1, JobsAre DEF TableInv, PidsHere, M!Listed, AnyPid
    <3> QED
      BY <1>7, <1>8, <1>9, <2>1, <3>1 DEF TableInv, JobsLive
  <2>8. StoppedRest'
    <3>1. ASSUME NEW i \in 1 .. Len(jobs), jobs'[i].stopped PROVE child'[jobs[i].pid] \notin {"new", "run"}
      <4>1. i # k /\ jobs[i].stopped
        BY <1>5, <3>1
      <4>2. jobs[i].pid # p /\ jobs[i].pid \in MiniPid
        BY <1>1, <1>3, <1>4, <2>1, <4>1, JobsAre DEF TableInv, PidsHere, JobsDiffer, AnyPid
      <4> QED
        BY <1>8, <2>1, <2>2, <4>1, <4>2 DEF TableInv, StoppedRest
    <3> QED
      BY <1>5, <3>1 DEF StoppedRest
  <2> QED
    BY <2>3, <2>4, <2>5, <2>6, <2>7, <2>8 DEF TableInv
<1> QED
  BY <1>3, <1>10, <1>11, <1>12 DEF JobsInv

\* What fork() has returned goes to the foreground, into the table or past its end.
LEMMA ParentKept ==
  ASSUME M!SizeAssumption, JobsInv, NEW p \in AnyPid, pc = "external", M!Opened, M!Parent(p),
         child' \in [MiniPid -> {"none", "new", "run", "stop", "stopped"} \union M!Zombie],
         \A q \in MiniPid : q # p => child'[q] = child[q],
         UNCHANGED <<shell, local_vars, global_vars, env, fg_pid, status>>,
         astray' \in BOOLEAN, astray' => shell = 3
  PROVE  ShellType' /\ (pc' # "overrun" => Kept')
<1>1. ShellType /\ jobs \in Seq(Job) /\ Kept /\ pc \notin Commanding
  BY DEF JobsInv, ShellType, Commanding
<1>2. fds' \in 0 .. MaxFd
  BY <1>1, Sizes DEF M!Opened, ShellType
<1>3. idx' = 0 /\ 0 \in 0 .. MAX_JOBS[shell] /\ Len(jobs) \in Nat
  BY <1>1, Sizes, JobsAre DEF ShellType, M!Parent
<1>4. IdxJob' /\ Legal'
  BY <1>3 DEF IdxJob, Legal
<1>5. CASE ~M!Background
  <2>1. pc' = "forked" /\ cur' = p /\ miniline' = M!NoLine /\ UNCHANGED <<jobs, block, incond, todo>>
    BY <1>5 DEF M!Parent, M!inputvars
  <2>2. ShellType'
    BY <1>1, <1>2, <1>3, <2>1, InputLines DEF ShellType, M!PCs, AnyPid
  <2>3. pc' \in Commanding /\ M!Listed' = M!Listed
    BY <2>1 DEF Commanding, M!Listed
  <2>4. Gone' /\ Plain'
    BY <1>1, <2>1 DEF Kept, Gone, Plain
  <2>5. AllListed'
    BY <1>1, <2>1, <2>3 DEF Kept, AllListed
  <2> QED
    BY <1>4, <2>2, <2>4, <2>5 DEF Kept
<1>6. CASE M!Background /\ M!Overruns
  <2>1. pc' = "overrun" /\ UNCHANGED <<miniline, block, incond, todo, jobs, cur>>
    BY <1>6 DEF M!Parent, M!inputvars
  <2> QED
    BY <1>1, <1>2, <1>3, <2>1 DEF ShellType, M!PCs
<1>7. CASE M!Background /\ ~M!Overruns
  <2>1. jobs' = M!NewJob(p, FALSE) /\ M!Result(0) /\ cur' = cur
    BY <1>7 DEF M!Parent
  <2>2. PICK t : t = jobs'
    OBVIOUS
  <2>3. /\ t \in Seq(Job) /\ Len(t) <= MAX_JOBS[shell]
        /\ \/ /\ Len(jobs) < MAX_JOBS[shell] /\ Len(t) = Len(jobs) + 1
              /\ \A i \in 1 .. Len(jobs) : t[i] = jobs[i]
              /\ t[Len(jobs) + 1] = [pid |-> p, stopped |-> FALSE]
           \/ Len(jobs) = MAX_JOBS[shell] /\ t = jobs
    BY <1>1, <2>1, <2>2, NewJobIs
  <2>4. /\ pc' \in {"prompt", "exec"} /\ miniline' \in M!Line /\ todo' \in Seq(M!Line)
        /\ incond' = FALSE /\ block' = <<>> /\ cur' = cur
    BY <1>1, <2>1, ResultIs
  <2>5. ShellType'
    <3>1. Len(block') <= MAX_BLOCK_LINES /\ block' \in Seq(M!Line) /\ pc' \in M!PCs
      BY <2>4, Sizes DEF M!PCs, M!Reading
    <3> QED
      BY <1>1, <1>2, <1>3, <2>2, <2>3, <2>4, <3>1 DEF ShellType
  <2>6. Gone' /\ Plain' /\ shell # 1
    BY <1>1, <1>7, <2>4, Sizes DEF Gone, Plain, M!Background, ShellType
  <2>7. CASE Len(jobs) < MAX_JOBS[shell] /\ Len(t) = Len(jobs) + 1
    <3>1. \A i \in 1 .. Len(jobs) : i \in 1 .. Len(t) /\ t[i].pid = jobs[i].pid
      BY <1>3, <2>3, <2>7
    <3>2. Len(t) \in 1 .. Len(t) /\ t[Len(t)].pid = p
      BY <1>3, <2>3, <2>7
    <3>3. M!Listed \subseteq M!Listed' /\ p \in M!Listed'
      BY <2>2, <3>1, <3>2 DEF M!Listed
    <3>4. AllListed'
      BY <1>1, <2>7, <3>3 DEF Kept, AllListed
    <3> QED
      BY <1>4, <2>5, <2>6, <3>4 DEF Kept
  <2>8. CASE Len(jobs) = MAX_JOBS[shell] /\ t = jobs
    <3>1. shell # 3
      BY <1>7, <2>8 DEF M!Overruns, M!Full
    <3>2. AllListed'
      BY <2>2, <2>8, <3>1 DEF AllListed
    <3> QED
      BY <1>4, <2>5, <2>6, <3>2 DEF Kept
  <2> QED
    BY <2>3, <2>7, <2>8
<1> QED
  BY <1>5, <1>6, <1>7

\* fork() fails in mini-shell-3.
LEMMA UntestedJobs == ASSUME M!SizeAssumption, JobsInv, M!ForkUntested PROVE JobsInv'
<1>1. /\ pc = "external" /\ shell = 3 /\ M!Opened /\ M!Parent(MiniNone) /\ astray' = TRUE
      /\ UNCHANGED <<shell, local_vars, global_vars, env, child, fg_pid, status>>
  BY DEF M!ForkUntested, M!varvars
<1>2. child' \in [MiniPid -> {"none", "new", "run", "stop", "stopped"} \union M!Zombie]
  BY <1>1 DEF JobsInv, ShellType
<1>3. ShellType' /\ (pc' # "overrun" => Kept')
  BY <1>1, <1>2, ParentKept DEF AnyPid
<1> QED
  BY <1>1, <1>3 DEF JobsInv

\* fork(): a child in the foreground, or a job.
LEMMA ForkJobs == ASSUME M!SizeAssumption, JobsInv, NEW p \in MiniPid, M!Fork(p) PROVE JobsInv'
<1>1. /\ ShellType /\ jobs \in Seq(Job) /\ Kept /\ (~astray => TableInv)
      /\ child \in [MiniPid -> {"none", "new", "run", "stop", "stopped"} \union M!Zombie]
      /\ pc = "external" /\ child[p] = "none" /\ child' = [child EXCEPT ![p] = "new"]
      /\ M!Opened /\ M!Parent(p)
      /\ UNCHANGED <<shell, local_vars, global_vars, env, fg_pid, status, astray>>
  BY DEF JobsInv, ShellType, M!Fork, M!varvars
<1>2. /\ child' \in [MiniPid -> {"none", "new", "run", "stop", "stopped"} \union M!Zombie]
      /\ child'[p] = "new" /\ \A q \in MiniPid : q # p => child'[q] = child[q]
  BY <1>1
<1>3. ShellType' /\ (pc' # "overrun" => Kept')
  <2>1. astray' \in BOOLEAN /\ (astray' => shell = 3)
    BY <1>1 DEF Kept, Legal, ShellType
  <2> QED
    BY <1>1, <1>2, <2>1, ParentKept DEF AnyPid
<1>4. ASSUME ~astray, pc' # "overrun" PROVE TableInv'
  <2>1. TableInv /\ idx' = 0
    BY <1>1, <1>4 DEF M!Parent
  <2>2. ~Reaped /\ pc \notin Commanding /\ cur = MiniNone /\ p # MiniNone
    BY <1>1, <2>1, Sizes DEF Reaped, Commanding, TableInv, CurSet
  <2>3. p \notin M!Listed
    BY <1>1, <2>1, <2>2 DEF TableInv, JobsLive
  <2>4. \A i \in 1 .. Len(jobs) : jobs[i].pid \in MiniPid /\ jobs[i].pid # p
    BY <1>1, <2>1, <2>3, JobsAre DEF TableInv, PidsHere, M!Listed, AnyPid
  <2>5. Len(jobs) \in Nat
    BY <1>1, JobsAre
  <2>6. CASE M!Background
    <3>1. jobs' = M!NewJob(p, FALSE) /\ M!Result(0) /\ cur' = cur
      BY <1>1, <1>4, <2>6 DEF M!Parent
    <3>2. PICK t : t = jobs'
      OBVIOUS
    <3>3. \/ /\ Len(t) = Len(jobs) + 1
             /\ \A i \in 1 .. Len(jobs) : t[i] = jobs[i]
             /\ t[Len(jobs) + 1] = [pid |-> p, stopped |-> FALSE]
          \/ t = jobs
      BY <1>1, <3>1, <3>2, NewJobIs DEF AnyPid
    <3>4. pc' \notin Commanding /\ ~Reaped'
      BY <1>1, <3>1, ResultIs DEF Commanding, Reaped
    <3>5. CurSet' /\ Foreground' /\ CurChild'
      BY <2>2, <3>1, <3>4 DEF CurSet, Foreground, CurChild
    <3>6. \A i \in 1 .. Len(t) :
            \/ i \in 1 .. Len(jobs) /\ t[i] = jobs[i] /\ jobs[i].pid \in MiniPid /\ jobs[i].pid # p
            \/ i = Len(jobs) + 1 /\ t[i].pid = p /\ t[i].stopped = FALSE
      BY <2>4, <2>5, <3>3
    <3>7. PidsHere' /\ JobsDiffer'
      BY <2>1, <2>2, <3>2, <3>6 DEF TableInv, PidsHere, JobsDiffer
    <3>8. JobsLive'
      <4>1. \A i \in 1 .. Len(t) : child'[t[i].pid] # "none"
        BY <1>2, <2>1, <2>2, <3>6 DEF TableInv, JobsLive, M!Listed
      <4> QED
        BY <3>2, <4>1 DEF JobsLive, M!Listed
    <3>9. StoppedRest'
      BY <1>2, <2>1, <3>2, <3>6 DEF TableInv, StoppedRest
    <3> QED
      BY <3>5, <3>7, <3>8, <3>9 DEF TableInv
  <2>7. CASE ~M!Background
    <3>1. pc' = "forked" /\ cur' = p /\ jobs' = jobs
      BY <1>1, <2>7 DEF M!Parent
    <3>2. pc' \in Commanding /\ ~Reaped' /\ M!Listed' = M!Listed
      BY <3>1 DEF Commanding, Reaped, M!Listed
    <3>3. CurSet' /\ Foreground' /\ CurChild'
      BY <1>2, <2>1, <2>2, <2>3, <3>1, <3>2 DEF CurSet, Foreground, CurChild
    <3>4. PidsHere' /\ JobsDiffer' /\ StoppedRest'
      BY <1>2, <2>1, <2>4, <3>1 DEF TableInv, PidsHere, JobsDiffer, StoppedRest
    <3>5. JobsLive'
      BY <1>2, <2>1, <2>2, <2>4, <3>2 DEF TableInv, JobsLive, M!Listed
    <3> QED
      BY <3>3, <3>4, <3>5 DEF TableInv
  <2> QED
    BY <2>6, <2>7
<1> QED
  BY <1>1, <1>3, <1>4 DEF JobsInv

\* fg_pid = pid
LEMMA SetFgJobs == ASSUME M!SizeAssumption, JobsInv, M!SetFg PROVE JobsInv'
<1>1. /\ pc = "forked" /\ pc' = "wait" /\ fg_pid' \in {cur, MiniNone}
      /\ UNCHANGED <<shell, miniline, block, incond, todo, local_vars, global_vars, env, fds, child, jobs, cur,
                     idx, status, astray>>
  BY DEF M!SetFg, M!inputvars, M!varvars
<1>2. ShellType /\ Kept /\ (~astray => TableInv)
  BY <1>1 DEF JobsInv
<1>3. ShellType'
  BY <1>1, <1>2 DEF ShellType, M!PCs
<1>4. pc \in Commanding /\ pc' \in Commanding /\ ~Reaped /\ ~Reaped' /\ M!Listed' = M!Listed
  BY <1>1 DEF Commanding, Reaped, M!Listed
<1>5. Kept'
  BY <1>1, <1>2, <1>4 DEF Kept, IdxJob, Gone, Plain, Legal, AllListed
<1>6. ASSUME ~astray PROVE TableInv'
  <2>1. TableInv
    BY <1>2, <1>6
  <2>2. CurSet' /\ Foreground' /\ CurChild'
    BY <1>1, <1>4, <2>1 DEF TableInv, CurSet, Foreground, CurChild
  <2>3. PidsHere' /\ JobsDiffer' /\ JobsLive' /\ StoppedRest'
    BY <1>1, <1>4, <2>1 DEF TableInv, PidsHere, JobsDiffer, JobsLive, StoppedRest
  <2> QED
    BY <2>2, <2>3 DEF TableInv
<1> QED
  BY <1>1, <1>3, <1>5, <1>6 DEF JobsInv

\* waitpid() of the child that cur names; of any child, if cur is -1.
LEMMA WaitJobs == ASSUME M!SizeAssumption, JobsInv, M!WaitPid PROVE JobsInv'
<1>1. ShellType /\ jobs \in Seq(Job)
      /\ child \in [MiniPid -> {"none", "new", "run", "stop", "stopped"} \union M!Zombie]
  BY DEF JobsInv, ShellType
<1>2. PICK p, s, c :
         /\ p \in M!Named(cur) /\ s = status' /\ c = IF s = "stopped" THEN s ELSE "none"
         /\ child[p] \in M!Zombie \union {"stop"} /\ (shell = 1 => child[p] \in M!Zombie)
         /\ s = IF child[p] = "stop" THEN "stopped" ELSE child[p]
         /\ child' = [child EXCEPT ![p] = c]
  <2>1. PICK p \in M!Named(cur) :
           /\ child[p] \in M!Reportable
           /\ status' = IF child[p] = "stop" THEN "stopped" ELSE child[p]
           /\ child' = [child EXCEPT ![p] = IF status' = "stopped" THEN status' ELSE "none"]
    BY DEF M!WaitPid
  <2>2. child[p] \in M!Zombie \union {"stop"} /\ (shell = 1 => child[p] \in M!Zombie)
    BY <2>1 DEF M!Reportable
  <2> QED
    BY <2>1, <2>2
<1>3. /\ pc = "wait" /\ pc' = "waited"
      /\ UNCHANGED <<shell, miniline, block, incond, todo, local_vars, global_vars, env, fds, jobs, fg_pid,
                  cur, idx, astray>>
  BY DEF M!WaitPid, M!inputvars, M!varvars
<1>4. /\ pc \in Commanding /\ pc' \in Commanding /\ ~Reaped /\ (Reaped' <=> s # "stopped")
      /\ M!Listed' = M!Listed /\ Kept /\ (~astray => TableInv)
  BY <1>2, <1>3 DEF Commanding, Reaped, M!Listed, JobsInv
<1>5. p \in MiniPid /\ (cur # MiniNone => p = cur) /\ s \in M!Zombie \union {"stopped"}
  BY <1>1, <1>2 DEF M!Named, ShellType
<1>6. /\ child' \in [MiniPid -> {"none", "new", "run", "stop", "stopped"} \union M!Zombie]
      /\ child'[p] = c /\ \A q \in MiniPid : q # p => child'[q] = child[q]
      /\ c \in {"none", "stopped"} /\ (c = "none" <=> s # "stopped") /\ child[p] # "none"
  BY <1>1, <1>2, <1>5 DEF M!Zombie
<1>7. ShellType'
  BY <1>1, <1>2, <1>3, <1>5, <1>6 DEF ShellType, M!PCs
<1>8. Kept'
  <2>1. IdxJob' /\ Legal'
    BY <1>3, <1>4 DEF Kept, IdxJob, Legal
  <2>2. Gone'
    BY <1>2, <1>3, <1>5, <1>6 DEF Gone
  <2>3. Plain'
    BY <1>2, <1>3, <1>4 DEF Kept, Plain, M!Zombie
  <2>4. AllListed'
    BY <1>3, <1>4, <1>6 DEF Kept, AllListed
  <2> QED
    BY <2>1, <2>2, <2>3, <2>4 DEF Kept
<1>9. ASSUME ~astray PROVE TableInv'
  <2>1. TableInv /\ p = cur
    BY <1>4, <1>5, <1>9 DEF TableInv, CurSet
  <2>2. PidsHere' /\ CurSet' /\ Foreground' /\ JobsDiffer'
    BY <1>3, <1>4, <2>1 DEF TableInv, PidsHere, CurSet, Foreground, JobsDiffer
  <2>3. CurChild'
    BY <1>3, <1>4, <1>6, <2>1 DEF CurChild
  <2>4. \A i \in 1 .. Len(jobs) : jobs[i].pid \in MiniPid
    BY <1>1, <2>1, JobsAre DEF TableInv, PidsHere, AnyPid
  <2>5. JobsLive'
    BY <1>3, <1>4, <1>6, <2>1, <2>4 DEF TableInv, JobsLive, M!Listed
  <2>6. StoppedRest'
    BY <1>3, <1>6, <2>1, <2>4 DEF TableInv, StoppedRest
  <2> QED
    BY <2>2, <2>3, <2>5, <2>6 DEF TableInv
<1> QED
  BY <1>3, <1>7, <1>8, <1>9 DEF JobsInv

\* waitpid() finds no such child: only after a fork() of mini-shell-3 has failed.
LEMMA WaitFailJobs == ASSUME M!SizeAssumption, JobsInv, M!WaitFail PROVE JobsInv'
<1>1. /\ pc = "wait" /\ pc' = "waited" /\ status' \in M!Zombie \union {"stopped"}
      /\ \A p \in M!Named(cur) : child[p] = "none"
      /\ UNCHANGED <<shell, miniline, block, incond, todo, local_vars, global_vars, env, fds, child, jobs, fg_pid,
                  cur, idx, astray>>
  BY DEF M!WaitFail, M!inputvars, M!varvars
<1>2. /\ ShellType /\ Kept /\ (~astray => TableInv) /\ M!Listed' = M!Listed
      /\ pc \in Commanding /\ pc' \in Commanding /\ ~Reaped
  BY <1>1 DEF JobsInv, M!Listed, Commanding, Reaped
<1>3. cur # MiniNone => child[cur] = "none"
  BY <1>1 DEF M!Named
<1>4. astray /\ shell = 3
  <2>1. CASE astray
    BY <1>2, <2>1 DEF Kept, Legal
  <2>2. CASE ~astray
    BY <1>2, <1>3, <2>2 DEF TableInv, CurSet, CurChild
  <2> QED
    BY <2>1, <2>2
<1>5. ShellType'
  BY <1>1, <1>2 DEF ShellType, M!PCs
<1>6. Kept'
  BY <1>1, <1>2, <1>3, <1>4 DEF Kept, IdxJob, Gone, Plain, Legal, AllListed
<1> QED
  BY <1>1, <1>4, <1>5, <1>6 DEF JobsInv

\* What a table t has to be at the prompt, and what besides as long as no fork()
\* has failed.
Fits(t) ==
  /\ t \in Seq(Job) /\ Len(t) <= MAX_JOBS[shell]
  /\ shell = 1 => t = <<>>
  /\ \A q \in MiniPid : child[q] # "none" =>
       \/ \E i \in 1 .. Len(t) : t[i].pid = q
       \/ shell # 3 /\ Len(t) = MAX_JOBS[shell]
FitsExactly(t) ==
  /\ \A i, j \in 1 .. Len(t) : t[i].pid = t[j].pid => i = j
  /\ \A i \in 1 .. Len(t) : t[i].pid # MiniNone /\ child[t[i].pid] # "none"
  /\ \A i \in 1 .. Len(t) : t[i].stopped => child[t[i].pid] \notin {"new", "run"}

\* After waitpid(): the table gets the command that was stopped, or loses the
\* job that has ended.
LEMMA WaitedJobs == ASSUME M!SizeAssumption, JobsInv, M!Waited PROVE JobsInv'
<1>1. ShellType /\ jobs \in Seq(Job) /\ Len(jobs) <= MAX_JOBS[shell]
      /\ child \in [MiniPid -> {"none", "new", "run", "stop", "stopped"} \union M!Zombie]
  BY DEF JobsInv, ShellType
<1>2. PICK n \in Nat : n = Len(jobs)
  BY <1>1, JobsAre
<1>3. PICK t, p, k : t = jobs' /\ p = cur /\ k = idx
  OBVIOUS
<1>4. /\ pc = "waited" /\ t = M!JobsAfterWait /\ fg_pid' = MiniNone /\ cur' = MiniNone /\ idx' = 0
      /\ status' = "exit0" /\ \E x : M!Result(x)
      /\ UNCHANGED <<shell, local_vars, global_vars, env, fds, child, astray>>
      /\ ~M!NoRoom
  BY <1>3 DEF M!Waited, M!varvars
<1>5. /\ pc' \in {"prompt", "exec"} /\ miniline' \in M!Line /\ todo' \in Seq(M!Line)
      /\ incond' = FALSE /\ block' = <<>>
  BY <1>1, <1>4, ResultIs
<1>6. /\ pc \in Commanding /\ pc' \notin Commanding /\ ~Reaped' /\ Kept /\ (~astray => TableInv)
      /\ Reaped <=> status # "stopped"
  BY <1>4, <1>5 DEF Commanding, Reaped, JobsInv
<1>7. p \in AnyPid /\ (status # "stopped" /\ p # MiniNone => child[p] = "none")
  BY <1>1, <1>3, <1>4, <1>6 DEF Kept, Gone, ShellType, AnyPid
<1>8. \A i \in 1 .. n : jobs[i] \in Job /\ jobs[i].pid \in AnyPid
  BY <1>1, <1>2, JobsAre
<1>9. k # 0 => k \in 1 .. n /\ jobs[k].pid = p /\ shell = 3
  BY <1>2, <1>3, <1>6 DEF Kept, IdxJob
<1>10. k = 0 /\ status = "stopped" => ~(shell = 3 /\ n = MAX_JOBS[shell])
  BY <1>2, <1>3, <1>4 DEF M!NoRoom, M!Overruns, M!Full
<1>11. MAX_JOBS[shell] \in Nat
  BY <1>1, Sizes DEF ShellType
<1>12. /\ shell = 1 => jobs = <<>> /\ status # "stopped"
       /\ \A q \in MiniPid : child[q] # "none" =>
            \/ \E i \in 1 .. n : jobs[i].pid = q
            \/ shell # 3 /\ n = MAX_JOBS[shell]
            \/ q = p
  BY <1>2, <1>3, <1>6 DEF Kept, Plain, AllListed, M!Listed
<1>13. ASSUME ~astray
       PROVE  /\ p \in MiniPid /\ child[p] \notin {"new", "run"} /\ (child[p] = "none" <=> status # "stopped")
              /\ \A i, j \in 1 .. n : jobs[i].pid = jobs[j].pid => i = j
              /\ \A i \in 1 .. n : /\ jobs[i].pid # MiniNone
                                   /\ child[jobs[i].pid] = "none" => status # "stopped" /\ jobs[i].pid = p
              /\ \A i \in 1 .. n : jobs[i].stopped => child[jobs[i].pid] \notin {"new", "run"}
              /\ k = 0 => \A i \in 1 .. n : jobs[i].pid # p
  <2>1. TableInv
    BY <1>6, <1>13
  <2>2. p \in MiniPid /\ child[p] \notin {"new", "run"} /\ (child[p] = "none" <=> status # "stopped")
    BY <1>3, <1>4, <1>6, <1>7, <2>1 DEF TableInv, CurSet, CurChild, AnyPid
  <2>3. \A i, j \in 1 .. n : jobs[i].pid = jobs[j].pid => i = j
    BY <1>2, <2>1 DEF TableInv, JobsDiffer
  <2>4. \A i \in 1 .. n : /\ jobs[i].pid # MiniNone
                          /\ child[jobs[i].pid] = "none" => status # "stopped" /\ jobs[i].pid = p
    BY <1>2, <1>3, <1>6, <2>1 DEF TableInv, PidsHere, JobsLive, M!Listed
  <2>5. \A i \in 1 .. n : jobs[i].stopped => child[jobs[i].pid] \notin {"new", "run"}
    BY <1>2, <2>1 DEF TableInv, StoppedRest
  <2>6. k = 0 => \A i \in 1 .. n : jobs[i].pid # p
    BY <1>2, <1>3, <1>6, <2>1 DEF TableInv, Foreground, M!Listed
  <2> QED
    BY <2>2, <2>3, <2>4, <2>5, <2>6
<1>14. ASSUME Fits(t), ~astray => FitsExactly(t) PROVE JobsInv'
  <2>1. ShellType'
    <3>1. Len(block') <= MAX_BLOCK_LINES /\ block' \in Seq(M!Line) /\ pc' \in M!PCs
      BY <1>5, Sizes DEF M!PCs, M!Reading
    <3>2. 0 \in 0 .. MAX_JOBS[shell] /\ "exit0" \in M!Zombie
      BY <1>11 DEF M!Zombie
    <3>3. jobs' \in Seq(Job) /\ Len(jobs') <= MAX_JOBS[shell]
      BY <1>3, <1>14 DEF Fits
    <3> QED
      BY <1>1, <1>4, <1>5, <3>1, <3>2, <3>3 DEF ShellType
  <2>2. IdxJob' /\ Gone' /\ Plain' /\ Legal'
    BY <1>3, <1>4, <1>5, <1>6, <1>14 DEF Kept, IdxJob, Gone, Plain, Legal, Fits
  <2>3. AllListed'
    BY <1>3, <1>4, <1>14 DEF AllListed, M!Listed, Fits
  <2>4. ASSUME ~astray PROVE TableInv'
    <3>1. CurSet' /\ Foreground' /\ CurChild'
      BY <1>4, <1>6 DEF CurSet, Foreground, CurChild
    <3>2. PidsHere' /\ JobsDiffer' /\ StoppedRest'
      BY <1>3, <1>4, <1>14, <2>4 DEF PidsHere, JobsDiffer, StoppedRest, FitsExactly
    <3>3. JobsLive'
      BY <1>3, <1>4, <1>14, <2>4 DEF JobsLive, M!Listed, FitsExactly
    <3> QED
      BY <3>1, <3>2, <3>3 DEF TableInv
  <2> QED
    BY <1>4, <2>1, <2>2, <2>3, <2>4 DEF JobsInv, Kept
<1>15. CASE status = "stopped" /\ k = 0
  <2>1. t = M!NewJob(p, TRUE)
    BY <1>3, <1>4, <1>15 DEF M!JobsAfterWait
  <2>2. /\ t \in Seq(Job) /\ Len(t) <= MAX_JOBS[shell]
        /\ \/ /\ n < MAX_JOBS[shell] /\ Len(t) = n + 1
              /\ \A i \in 1 .. n : t[i] = jobs[i]
              /\ t[n + 1] = [pid |-> p, stopped |-> TRUE]
           \/ n = MAX_JOBS[shell] /\ t = jobs
    BY <1>1, <1>2, <1>7, <2>1, NewJobIs
  <2>3. Fits(t)
    <3>1. CASE n < MAX_JOBS[shell] /\ Len(t) = n + 1
      <4>1. \A i \in 1 .. n : i \in 1 .. Len(t) /\ t[i] = jobs[i]
        BY <2>2, <3>1
      <4>2. n + 1 \in 1 .. Len(t) /\ t[n + 1].pid = p
        BY <2>2, <3>1
      <4>3. ASSUME NEW q \in MiniPid, child[q] # "none" PROVE \E i \in 1 .. Len(t) : t[i].pid = q
        BY <1>12, <3>1, <4>1, <4>2, <4>3
      <4> QED
        BY <1>12, <1>15, <2>2, <4>3 DEF Fits
    <3>2. CASE n = MAX_JOBS[shell] /\ t = jobs
      BY <1>2, <1>10, <1>12, <1>15, <2>2, <3>2 DEF Fits
    <3> QED
      BY <2>2, <3>1, <3>2
  <2>4. ASSUME ~astray PROVE FitsExactly(t)
    <3>1. \A i \in 1 .. Len(t) :
            \/ i \in 1 .. n /\ t[i] = jobs[i] /\ jobs[i].pid # p
            \/ i = n + 1 /\ t[i].pid = p /\ t[i].stopped = TRUE
      BY <1>2, <1>13, <1>15, <2>2, <2>4
    <3>2. \A i, j \in 1 .. Len(t) : t[i].pid = t[j].pid => i = j
      BY <1>13, <2>4, <3>1
    <3>3. \A i \in 1 .. Len(t) : /\ t[i].pid # MiniNone /\ child[t[i].pid] # "none"
                                 /\ (t[i].stopped => child[t[i].pid] \notin {"new", "run"})
      BY <1>13, <1>15, <2>4, <3>1, Sizes
    <3> QED
      BY <3>2, <3>3 DEF FitsExactly
  <2> QED
    BY <1>14, <2>3, <2>4
<1>16. CASE status = "stopped" /\ k # 0
  <2>1. t = [jobs EXCEPT ![k].stopped = TRUE]
    BY <1>3, <1>4, <1>16 DEF M!JobsAfterWait
  <2>2. PICK j : j = [jobs[k] EXCEPT !.stopped = TRUE]
    OBVIOUS
  <2>3. t = [jobs EXCEPT ![k] = j]
    BY <1>1, <1>2, <1>9, <1>16, <2>1, <2>2, JobsAre
  <2>4. j \in Job /\ j.pid = p
    BY <1>8, <1>9, <1>16, <2>2 DEF Job
  <2>5. t \in Seq(Job) /\ Len(t) = n /\ \A i \in 1 .. n : t[i] = IF i = k THEN j ELSE jobs[i]
    BY <1>1, <1>2, <1>9, <1>16, <2>3, <2>4, ExceptSeq
  <2>6. \A i \in 1 .. n : t[i].pid = jobs[i].pid /\ (i # k => t[i] = jobs[i])
    BY <1>9, <1>16, <2>4, <2>5
  <2>7. Fits(t)
    <3>1. ASSUME NEW q \in MiniPid, child[q] # "none" PROVE \E i \in 1 .. n : t[i].pid = q
      BY <1>9, <1>12, <1>16, <2>6, <3>1
    <3> QED
      BY <1>1, <1>2, <1>12, <1>16, <2>5, <3>1 DEF Fits
  <2>8. ASSUME ~astray PROVE FitsExactly(t)
    <3>1. \A i \in 1 .. n : child[jobs[i].pid] # "none"
      BY <1>13, <1>16, <2>8
    <3>2. child[t[k].pid] \notin {"new", "run"}
      BY <1>9, <1>13, <1>16, <2>6, <2>8
    <3>3. \A i \in 1 .. n : t[i].pid # MiniNone /\ child[t[i].pid] # "none"
      BY <1>13, <2>6, <2>8, <3>1
    <3>4. \A i \in 1 .. n : t[i].stopped => child[t[i].pid] \notin {"new", "run"}
      BY <1>13, <2>6, <2>8, <3>2
    <3>5. \A i, m \in 1 .. n : t[i].pid = t[m].pid => i = m
      BY <1>13, <2>6, <2>8
    <3> QED
      BY <2>5, <3>3, <3>4, <3>5 DEF FitsExactly
  <2> QED
    BY <1>14, <2>7, <2>8
<1>17. CASE status # "stopped" /\ k = 0
  <2>1. t = jobs
    BY <1>3, <1>4, <1>17 DEF M!JobsAfterWait
  <2>2. ASSUME NEW q \in MiniPid, child[q] # "none" PROVE q # p
    BY <1>7, <1>17, <2>2, Sizes
  <2>3. Fits(t)
    BY <1>1, <1>2, <1>12, <2>1, <2>2 DEF Fits
  <2>4. ASSUME ~astray PROVE FitsExactly(t)
    BY <1>2, <1>13, <1>17, <2>1, <2>4 DEF FitsExactly
  <2> QED
    BY <1>14, <2>3, <2>4
<1>18. CASE status # "stopped" /\ k # 0
  <2>1. t = RemoveAt(jobs, k)
    BY <1>3, <1>4, <1>18 DEF M!JobsAfterWait, M!Ended, M!RemoveAt, RemoveAt
  <2>2. k \in 1 .. n /\ jobs[k].pid = p /\ shell = 3
    BY <1>9, <1>18
  <2>3. /\ t \in Seq(Job) /\ Len(t) = n - 1
        /\ \A i \in 1 .. n - 1 : t[i] = jobs[IF i < k THEN i ELSE i + 1]
    BY <1>1, <1>2, <2>1, <2>2, EndedIs
  <2>4. \A i \in 1 .. n - 1 : (IF i < k THEN i ELSE i + 1) \in 1 .. n /\ (IF i < k THEN i ELSE i + 1) # k
    BY <2>2
  <2>5. ASSUME NEW q \in MiniPid, child[q] # "none" PROVE \E i \in 1 .. n - 1 : t[i].pid = q
    <3>1. q # p
      BY <1>7, <1>18, <2>5, Sizes
    <3>2. PICK m \in 1 .. n : jobs[m].pid = q
      BY <1>12, <2>2, <2>5, <3>1
    <3>3. m # k
      BY <2>2, <3>1, <3>2
    <3>4. CASE m < k
      <4>1. m \in 1 .. n - 1 /\ t[m] = jobs[m]
        BY <2>2, <2>3, <3>4
      <4> QED
        BY <3>2, <4>1
    <3>5. CASE m > k
      <4>1. m - 1 \in 1 .. n - 1 /\ ~(m - 1 < k) /\ (m - 1) + 1 = m
        BY <2>2, <3>5
      <4>2. t[m - 1] = jobs[m]
        BY <2>3, <4>1
      <4> QED
        BY <3>2, <4>1, <4>2
    <3> QED
      BY <2>2, <3>3, <3>4, <3>5
  <2>6. Fits(t)
    <3>1. Len(t) <= MAX_JOBS[shell]
      BY <1>1, <1>2, <1>11, <2>3
    <3> QED
      BY <2>2, <2>3, <2>5, <3>1 DEF Fits
  <2>7. ASSUME ~astray PROVE FitsExactly(t)
    <3>1. \A i \in 1 .. n - 1 : \E m \in 1 .. n : t[i] = jobs[m] /\ m # k /\ jobs[m].pid # p
      BY <1>13, <2>2, <2>3, <2>4, <2>7
    <3>2. \A i, j \in 1 .. n - 1 : t[i].pid = t[j].pid => i = j
      <4> SUFFICES ASSUME NEW i \in 1 .. n - 1, NEW j \in 1 .. n - 1, t[i].pid = t[j].pid PROVE i = j
        OBVIOUS
      <4>1. PICK a \in 1 .. n : a = (IF i < k THEN i ELSE i + 1) /\ t[i] = jobs[a]
        BY <2>3, <2>4
      <4>2. PICK b \in 1 .. n : b = (IF j < k THEN j ELSE j + 1) /\ t[j] = jobs[b]
        BY <2>3, <2>4
      <4>3. a = b
        BY <1>13, <2>7, <4>1, <4>2
      <4> QED
        BY <2>2, <4>1, <4>2, <4>3
    <3>3. \A i \in 1 .. n - 1 : /\ t[i].pid # MiniNone /\ child[t[i].pid] # "none"
                                /\ (t[i].stopped => child[t[i].pid] \notin {"new", "run"})
      BY <1>13, <2>7, <3>1
    <3> QED
      BY <2>3, <3>2, <3>3 DEF FitsExactly
  <2> QED
    BY <1>14, <2>6, <2>7
<1> QED
  BY <1>15, <1>16, <1>17, <1>18

\* mini-shell-3 writes past its table.
LEMMA NoRoomJobs == ASSUME M!SizeAssumption, JobsInv, M!WaitedNoRoom PROVE JobsInv'
<1>1. /\ pc' = "overrun"
      /\ UNCHANGED <<shell, miniline, block, incond, todo, local_vars, global_vars, env, fds, child, jobs, fg_pid,
                  cur, idx, status, astray>>
  BY DEF M!WaitedNoRoom, M!inputvars, M!varvars, M!jobvars
<1> QED
  BY <1>1 DEF JobsInv, ShellType, M!PCs

LEMMA InitJobs == ASSUME M!SizeAssumption, M!Init PROVE JobsInv
<1>1. /\ shell \in Shells /\ pc = "prompt" /\ miniline = M!NoLine /\ incond = FALSE /\ block = <<>> /\ todo = <<>>
      /\ local_vars = <<>> /\ global_vars = <<>> /\ env \in [Name -> Val] /\ fds = 0
      /\ child = [p \in MiniPid |-> "none"] /\ jobs = <<>> /\ fg_pid = MiniNone /\ cur = MiniNone /\ idx = 0
      /\ status = "exit0" /\ astray = FALSE
  BY Zenon DEF M!Init, Val
<1>2. shell \in 1 .. 3 /\ MAX_JOBS[shell] \in Nat
  BY <1>1, Sizes
<1>3. <<>> \in M!Table
  <2>1. 0 \in 0 .. MAX_VARS
    BY Sizes
  <2>2. <<>> \in [1 .. 0 -> Name \X Val]
    OBVIOUS
  <2> QED
    BY <2>1, <2>2, TableOf
<1>4. ShellType
  <2>1. <<>> \in Seq(M!Line) /\ <<>> \in Seq(Job) /\ Len(<<>>) = 0
    OBVIOUS
  <2>2. 0 <= MAX_BLOCK_LINES /\ 0 \in 0 .. MaxFd /\ 0 \in 0 .. MAX_JOBS[shell] /\ 0 <= MAX_JOBS[shell]
    BY <1>2, Sizes
  <2>3. "prompt" \in M!PCs /\ "exit0" \in M!Zombie
    BY DEF M!PCs, M!Reading, M!Zombie
  <2>4. child \in [MiniPid -> {"none", "new", "run", "stop", "stopped"} \union M!Zombie]
    BY <1>1
  <2>5. /\ shell \in Shells /\ pc \in M!PCs /\ miniline \in M!Line /\ incond \in BOOLEAN
        /\ block \in Seq(M!Line) /\ Len(block) <= MAX_BLOCK_LINES /\ todo \in Seq(M!Line)
        /\ fds \in 0 .. MaxFd /\ jobs \in Seq(Job) /\ Len(jobs) <= MAX_JOBS[shell]
        /\ fg_pid \in MiniPid \union {MiniNone} /\ cur \in MiniPid \union {MiniNone}
        /\ idx \in 0 .. MAX_JOBS[shell] /\ status \in M!Zombie \union {"stopped"} /\ astray \in BOOLEAN
    BY <1>1, <2>1, <2>2, <2>3, InputLines
  <2> QED
    BY <1>1, <1>3, <2>4, <2>5, Zenon DEF ShellType
<1>5. TableInv
  BY <1>1 DEF TableInv, PidsHere, CurSet, Foreground, CurChild, JobsDiffer, JobsLive, StoppedRest,
              Commanding, M!Listed
<1>6. Kept
  BY <1>1 DEF Kept, IdxJob, Gone, Plain, Legal, AllListed
<1> QED
  BY <1>4, <1>5, <1>6 DEF JobsInv

----------------------------------------------------------------------------
\* JobsInv holds in every behaviour of the mini-shells.
THEOREM JobsInvariance == M!SizeAssumption => (M!Spec => []JobsInv)
<1> SUFFICES ASSUME M!SizeAssumption PROVE M!Spec => []JobsInv
  OBVIOUS
<1>1. M!Init => JobsInv
  BY InitJobs
<1>2. JobsInv /\ [M!Next]_M!vars => JobsInv'
  <2> SUFFICES ASSUME JobsInv, [M!Next]_M!vars PROVE JobsInv'
    OBVIOUS
  <2>1. CASE M!ReadLine \/ M!Eof \/ M!ReadThen \/ M!ReadBody \/ M!ReadFi
    BY <2>1, ReadJobs
  <2>2. CASE M!Execute
    BY <2>2, ExecuteJobs, FgJobs DEF M!Execute
  <2>3. CASE M!External
    BY <2>3, FailJobs, ForkJobs, UntestedJobs, SetFgJobs, WaitJobs, WaitFailJobs, WaitedJobs, NoRoomJobs
    DEF M!External
  <2>4. CASE M!Handler \/ M!Terminal \/ \E p \in MiniPid : M!ChildExec(p) \/ M!ChildExit(p) \/ M!ChildKilled(p)
    BY <2>4, ChildJobs
  <2>5. CASE UNCHANGED M!vars
    <3>1. UNCHANGED <<shell, pc, miniline, block, incond, todo, local_vars, global_vars, env, fds, child, jobs,
                      fg_pid, cur, idx, status, astray>>
      BY <2>5 DEF M!vars, M!inputvars, M!varvars, M!jobvars
    <3>2. ShellType'
      BY <3>1 DEF JobsInv, ShellType
    <3>3. TableInv => TableInv'
      BY <3>1 DEF TableInv, PidsHere, CurSet, Foreground, CurChild, JobsDiffer, JobsLive, StoppedRest,
                  M!Listed, Reaped
    <3>4. Kept => Kept'
      BY <3>1 DEF Kept, IdxJob, Gone, Plain, Legal, AllListed, M!Listed
    <3> QED
      BY <3>1, <3>2, <3>3, <3>4 DEF JobsInv
  <2> QED
    BY <2>1, <2>2, <2>3, <2>4, <2>5 DEF M!Next
<1> QED
  BY <1>1, <1>2, PTL DEF M!Spec

\* add_job(), waitpid(), fg, sigtstp_handler(): for any number of pids and jobs, at
\* the prompt the table has every child that was not reaped and, as long as no fork()
\* of mini-shell-3 has failed, each once and nothing else, and a job that is shown as
\* stopped does not run; until mini-shell-3 writes past its table.
THEOREM JobsExactHolds == M!SizeAssumption => (M!Spec => []JobsExact)
<1> SUFFICES ASSUME M!SizeAssumption PROVE M!Spec => []JobsExact
  OBVIOUS
<1>1. JobsInv => JobsExact
  <2> SUFFICES ASSUME JobsInv, pc # "overrun" PROVE JobsExact
    BY DEF JobsExact, M!JobsExact
  <2>1. M!TypeOK /\ ShellType /\ Kept /\ (~astray => TableInv)
    BY TypeIs DEF JobsInv
  <2>2. pc = "prompt" => pc \notin Commanding /\ ~Reaped
    BY DEF Commanding, Reaped
  <2>3. shell \in 1 .. 3 /\ MAX_JOBS[shell] \in Nat \ {0}
    BY <2>1, Sizes DEF ShellType
  <2>4. shell # 3 /\ Len(jobs) = MAX_JOBS[shell] => shell = 2 /\ M!Full
    BY <2>1, <2>3 DEF Kept, Plain, M!Full
  <2>5. pc = "prompt" => \A p \in MiniPid : child[p] # "none" => p \in M!Listed \/ (shell = 2 /\ M!Full)
    BY <2>1, <2>2, <2>4 DEF Kept, AllListed
  <2>6. ~astray => M!ListsExactly
    BY <2>1, <2>2 DEF TableInv, M!ListsExactly, JobsDiffer, JobsLive, StoppedRest
  <2> QED
    BY <2>1, <2>5, <2>6 DEF JobsExact, M!JobsExact
<1> QED
  BY JobsInvariance, <1>1, PTL

=============================================================================
