----------------------------- MODULE ByteStream -----------------------------
(***************************************************************************)
(* What a pipe promises: a bounded queue of bytes with two ends, each of   *)
(* which is closed once.  Bytes come out in the order they went in, none   *)
(* twice, none skipped, and nothing goes in once either end is closed.     *)
(* A byte that copyout() fails to hand to its reader is out all the same.  *)
(***************************************************************************)
EXTENDS Naturals, Sequences

CONSTANTS Byte, Capacity, None

VARIABLES queue,      \* the bytes in flight
          out,        \* the byte that came out last
          readopen, writeopen

vars == <<queue, out, readopen, writeopen>>

Init == queue = <<>> /\ out = None /\ readopen = TRUE /\ writeopen = TRUE

Put(b) ==
  /\ readopen /\ writeopen /\ Len(queue) < Capacity
  /\ queue' = Append(queue, b)
  /\ UNCHANGED <<out, readopen, writeopen>>

Get ==
  /\ readopen /\ queue # <<>>
  /\ out' = Head(queue)
  /\ queue' = Tail(queue)
  /\ UNCHANGED <<readopen, writeopen>>

CloseRead == readopen /\ readopen' = FALSE /\ UNCHANGED <<queue, out, writeopen>>
CloseWrite == writeopen /\ writeopen' = FALSE /\ UNCHANGED <<queue, out, readopen>>

Next == (\E b \in Byte : Put(b)) \/ Get \/ CloseRead \/ CloseWrite

Spec == Init /\ [][Next]_vars
=============================================================================
