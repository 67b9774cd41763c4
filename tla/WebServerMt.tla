---------------------------- MODULE WebServerMt -----------------------------
(***************************************************************************)
(* webserver-mt.c of lab 9: main() accepts connections and puts their      *)
(* descriptors into a ring, a pool of workers takes them out and serves    *)
(* them.  Connections and the files that are served share the process's    *)
(* descriptors, whose numbers the kernel hands out again once closed.      *)
(*                                                                         *)
(* A critical section under the mutex is one step; pthread_cond_wait()     *)
(* ends one and begins another.  A signal wakes one waiter if there is any *)
(* and a waiter may also wake for no reason, as POSIX allows.              *)
(*                                                                         *)
(* Nothing ignores SIGPIPE: a write() to a client that has gone ends the   *)
(* process, with every connection it has.                                  *)
(***************************************************************************)
EXTENDS Naturals, Sequences, FiniteSets

CONSTANTS MAX_QUEUE,
          Workers,     \* the THREAD_POOL_SIZE threads
          FD,          \* the descriptors the process may have open
          None

ASSUME QueueAssumption == MAX_QUEUE \in Nat \ {0}
ASSUME FDAssumption == IsFiniteSet(FD) /\ None \notin FD

VARIABLES
  queue, front, rear, count,  \* the ring
  open,        \* the open descriptors
  acceptor,    \* main(): "start", "accept", "put" or "wait"
  accepted,    \* its client_fd
  worker,      \* a worker: "none", "get", "wait", "read", "open", "send", "close"
  client,      \* its client_fd
  file,        \* its file_fd
  killed,      \* a signal has ended the process
  pending      \* history: the descriptors enqueued and not yet taken

ringvars == <<queue, front, rear, count>>
vars == <<ringvars, open, acceptor, accepted, worker, client, file, pending,
          killed>>

Slots == 0 .. MAX_QUEUE - 1

TypeOK ==
  /\ queue \in [Slots -> FD \union {None}]
  /\ front \in Slots /\ rear \in Slots
  /\ count \in 0 .. MAX_QUEUE
  /\ open \in SUBSET FD
  /\ acceptor \in {"start", "accept", "put", "wait"}
  /\ accepted \in FD \union {None}
  /\ worker \in [Workers -> {"none", "get", "wait", "read", "open", "send", "close"}]
  /\ client \in [Workers -> FD \union {None}]
  /\ file \in [Workers -> FD \union {None}]
  /\ killed \in BOOLEAN
  /\ pending \in Seq(FD)

Init ==
  /\ queue = [k \in Slots |-> None]
  /\ front = 0 /\ rear = 0 /\ count = 0
  /\ open = {}
  /\ acceptor = "start" /\ accepted = None
  /\ worker = [w \in Workers |-> "none"]
  /\ client = [w \in Workers |-> None]
  /\ file = [w \in Workers |-> None]
  /\ killed = FALSE
  /\ pending = <<>>

----------------------------------------------------------------------------
(***************************************************************************)
(* main() and enqueue()                                                    *)
(***************************************************************************)

\* listen(), and pthread_create() of the pool.
Start ==
  /\ acceptor = "start" /\ acceptor' = "accept"
  /\ worker' = [w \in Workers |-> "get"]
  /\ UNCHANGED <<ringvars, open, accepted, client, file, pending>>

\* accept() returns a descriptor; when it fails, main() tries again.
Accept(f) ==
  /\ acceptor = "accept" /\ f \in FD \ open
  /\ open' = open \union {f}
  /\ accepted' = f
  /\ acceptor' = "put"
  /\ UNCHANGED <<ringvars, worker, client, file, pending>>

\* The worker states after pthread_cond_signal(&cond_nonempty).
Signalled_Nobody == {worker}
Signalled ==
  LET waiting == {w \in Workers : worker[w] = "wait"}
  IN IF waiting = {} THEN {worker}
     ELSE {[worker EXCEPT ![w] = "get"] : w \in waiting}

EnqueueWait ==
  /\ acceptor = "put" /\ count = MAX_QUEUE
  /\ acceptor' = "wait"
  /\ UNCHANGED <<ringvars, open, accepted, worker, client, file, pending>>

Enqueue ==
  /\ acceptor = "put" /\ count # MAX_QUEUE
  /\ queue' = [queue EXCEPT ![rear] = accepted]
  /\ rear' = (rear + 1) % MAX_QUEUE
  /\ count' = count + 1
  /\ worker' \in Signalled
  /\ pending' = Append(pending, accepted)
  /\ acceptor' = "accept" /\ accepted' = None
  /\ UNCHANGED <<front, open, client, file>>

----------------------------------------------------------------------------
(***************************************************************************)
(* dequeue()                                                               *)
(***************************************************************************)

\* The test of dequeue()'s while.
Empty == count = 0

DequeueWait(w) ==
  /\ worker[w] = "get" /\ Empty
  /\ worker' = [worker EXCEPT ![w] = "wait"]
  /\ UNCHANGED <<ringvars, open, acceptor, accepted, client, file, pending>>

\* The descriptor taken.
Oldest_Newest == queue[(rear + MAX_QUEUE - 1) % MAX_QUEUE]
Oldest == queue[front]

\* main() after pthread_cond_signal(&cond_nonfull).
NonFull == IF acceptor = "wait" THEN "put" ELSE acceptor

\* pending without the connection f, wherever f is in it.
Without(f) ==
  LET at == CHOOSE k \in 1 .. Len(pending) : pending[k] = f
  IN IF \E k \in 1 .. Len(pending) : pending[k] = f
     THEN [k \in 1 .. Len(pending) - 1 |->
             IF k < at THEN pending[k] ELSE pending[k + 1]]
     ELSE pending

Dequeue(w) ==
  /\ worker[w] = "get" /\ ~Empty
  /\ client' = [client EXCEPT ![w] = Oldest]
  /\ front' = (front + 1) % MAX_QUEUE
  /\ count' = count - 1
  /\ acceptor' = NonFull
  /\ worker' = [worker EXCEPT ![w] = "read"]
  /\ pending' = Without(Oldest)
  /\ UNCHANGED <<queue, rear, open, accepted, file>>

\* pthread_cond_wait() returns without a signal.
Spurious ==
  /\ \/ acceptor = "wait" /\ acceptor' = "put" /\ UNCHANGED worker
     \/ /\ \E w \in Workers : /\ worker[w] = "wait"
                              /\ worker' = [worker EXCEPT ![w] = "get"]
        /\ UNCHANGED acceptor
  /\ UNCHANGED <<ringvars, open, accepted, client, file, pending>>

----------------------------------------------------------------------------
(***************************************************************************)
(* handle_request()                                                        *)
(***************************************************************************)

\* close(client_fd) and return.
Finish(w) ==
  /\ open' = open \ {client[w]}
  /\ client' = [client EXCEPT ![w] = None]
  /\ worker' = [worker EXCEPT ![w] = "get"]

\* Nothing to read, or not a GET (405), which the client is there to be told: close.
HandleRefuse(w) ==
  /\ worker[w] = "read" /\ Finish(w)
  /\ UNCHANGED <<ringvars, acceptor, accepted, file, pending>>

\* A GET: on to open().
HandleGet(w) ==
  /\ worker[w] = "read"
  /\ worker' = [worker EXCEPT ![w] = "open"]
  /\ UNCHANGED <<ringvars, open, acceptor, accepted, client, file, pending>>

\* open() fails, for want of the file or of a descriptor: 404, close.
HandleNotFound(w) ==
  /\ worker[w] = "open" /\ Finish(w)
  /\ UNCHANGED <<ringvars, acceptor, accepted, file, pending>>

HandleOpen(w, f) ==
  /\ worker[w] = "open" /\ f \in FD \ open
  /\ open' = open \union {f}
  /\ file' = [file EXCEPT ![w] = f]
  /\ worker' = [worker EXCEPT ![w] = "send"]
  /\ UNCHANGED <<ringvars, acceptor, accepted, client, pending>>

\* What close(file_fd) after the last write leaves open.
FileClosed_Client(w) == open \ {client[w]}
FileClosed(w) == open \ {file[w]}

HandleSent(w) ==
  /\ worker[w] = "send"
  /\ open' = FileClosed(w)
  /\ file' = [file EXCEPT ![w] = None]
  /\ worker' = [worker EXCEPT ![w] = "close"]
  /\ UNCHANGED <<ringvars, acceptor, accepted, client, pending>>

HandleClose(w) ==
  /\ worker[w] = "close" /\ Finish(w)
  /\ UNCHANGED <<ringvars, acceptor, accepted, file, pending>>

\* SIGPIPE at a write() of the answer, be it the 405, the 404 or the file: the
\* client has gone.  So also if sscanf() writes past method[] or path[] and the
\* process does not survive that; what else it may come to is not followed.
Killed(w) ==
  /\ worker[w] \in {"read", "open", "send"}
  /\ killed' = TRUE
  /\ UNCHANGED <<ringvars, open, acceptor, accepted, worker, client, file, pending>>

----------------------------------------------------------------------------
Handle(w) == \/ HandleRefuse(w) \/ HandleGet(w) \/ HandleNotFound(w)
             \/ (\E f \in FD : HandleOpen(w, f)) \/ HandleSent(w)
             \/ HandleClose(w)

WorkerStep(w) == DequeueWait(w) \/ Dequeue(w) \/ Handle(w)

Step == \/ Start \/ \E f \in FD : Accept(f)
        \/ EnqueueWait \/ Enqueue \/ Spurious
        \/ \E w \in Workers : WorkerStep(w)

\* The process is there, and stays.
Running == ~killed /\ UNCHANGED killed

Next == \/ Running /\ Step
        \/ ~killed /\ \E w \in Workers : Killed(w)
        \/ killed /\ UNCHANGED vars

Spec == Init /\ [][Next]_vars

\* Every thread goes on when it can, as long as there is a process; that includes
\* the reads and the writes of handle_request(), so a client is assumed to send,
\* to read, or to go away.  The one that goes away while it is answered may end
\* the process (Killed).  No client is obliged to come.
Fairness == /\ WF_vars(Running /\ (EnqueueWait \/ Enqueue))
            /\ \A w \in Workers : WF_vars(Running /\ WorkerStep(w))

FairSpec == Spec /\ Fairness

----------------------------------------------------------------------------
(***************************************************************************)
(* Properties                                                              *)
(***************************************************************************)
Queued == {queue[(front + k) % MAX_QUEUE] : k \in 0 .. count - 1}
Owned(w) == {client[w], file[w]} \ {None}

\* enqueue()/dequeue()/handle_request(): every open descriptor is in exactly
\* one place, the ring or one thread, and nothing that a thread or the ring
\* holds has been closed: no connection is served twice or by two workers, no
\* reused number is closed by its former owner, none leaks, and the ring stays
\* within its bounds (TypeOK).
FdsOwnedOnce ==
  /\ TypeOK
  /\ open = Queued \union ({accepted} \ {None}) \union UNION {Owned(w) : w \in Workers}
  /\ Cardinality(Queued) = count
  /\ accepted \notin Queued
  /\ \A w \in Workers : Owned(w) \intersect (Queued \union {accepted}) = {}
  /\ \A v, w \in Workers : v # w => Owned(v) \intersect Owned(w) = {}

\* enqueue()/dequeue(): the ring is a queue: the connections not yet taken are
\* in it, in the order in which they were accepted.
RingIsFifo ==
  pending = [k \in 1 .. count |-> queue[(front + k - 1) % MAX_QUEUE]]

\* dequeue(): the workers take connections as long as there are any; no signal is
\* wasted on a worker that finds the ring empty again.  The ring being a queue
\* (RingIsFifo), every connection is taken: unless a client that leaves while it
\* is answered ends the server, and with it the connections of all the others.
EveryConnectionTaken ==
  <>killed \/ []<>(count = 0) \/ []<><<\E w \in Workers : Dequeue(w)>>_vars

\* enqueue(): main() does not wait for room for ever, as long as there is a server.
AcceptorGoesOn == (acceptor = "wait") ~> (acceptor = "accept" \/ killed)
=============================================================================
