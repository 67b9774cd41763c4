------------------------------ MODULE MCThreads -----------------------------
(***************************************************************************)
(* The threaded programs of labs 8 and 9, for TLC: webserver-mt,           *)
(* wc_mt_overlap and wc_mt.  One of them is started, which says which.     *)
(***************************************************************************)
EXTENDS WebServerMt

CONSTANTS CHUNK_SIZE, BUFFER_CAPACITY, SLACK, Consumers, MaxText, MAX_THREADS, MaxTextMt

VARIABLES which,
          text, pos, inside, chunk, ring, in, out, ocount, is_done, total_word_count, prod, cons,
          mine, wc, main,
          mtext, num_threads, args, thread, created, joined, total

ovars == <<text, pos, inside, chunk, ring, in, out, ocount, is_done, total_word_count, prod, cons,
           mine, wc, main>>
mvars == <<mtext, num_threads, args, thread, created, joined, total>>

O == INSTANCE WcOverlap WITH count <- ocount
T == INSTANCE WcMt WITH text <- mtext, MaxText <- MaxTextMt

ASSUME O!SizeAssumption /\ T!SizeAssumption

MCInit ==
  /\ Init /\ O!Init /\ T!Init
  /\ which \in {"webserver-mt", "wc_mt_overlap", "wc_mt"}
  /\ which # "wc_mt_overlap" => text = <<>>
  /\ which # "wc_mt" => mtext = <<>> /\ num_threads = 1

MCNext ==
  \/ which = "webserver-mt" /\ Next /\ UNCHANGED <<which, ovars, mvars>>
  \/ which = "wc_mt_overlap" /\ O!Next /\ UNCHANGED <<which, vars, mvars>>
  \/ which = "wc_mt" /\ T!Next /\ UNCHANGED <<which, vars, ovars>>

MCSpec == MCInit /\ [][MCNext]_<<which, vars, ovars, mvars>> /\ Fairness /\ O!Fairness

\* WcOverlap and WcMt: what main() prints is the number of words; on the way,
\* the total and the chunks in the ring account for all that was read, and the
\* threads of wc_mt count disjoint blocks.
PrintsWordCount == /\ O!Accounted /\ O!PrintsWordCount
                   /\ T!BlocksDisjoint /\ T!PrintsWordCount

\* WebServerMt: main() and the workers go on, on whichever side of the ring,
\* as long as no client that leaves ends the server.
ServerGoesOn == EveryConnectionTaken /\ AcceptorGoesOn

\* WcOverlap: main() gets to its end, if no word is too long for a chunk.
Finishes == O!Finishes
=============================================================================
