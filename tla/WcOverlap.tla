----------------------------- MODULE WcOverlap ------------------------------
(***************************************************************************)
(* wc_mt_overlap.c of lab 8: a producer reads a file in chunks that end    *)
(* between words, a ring of chunks under a mutex and two condition         *)
(* variables, consumers that count the words of a chunk and add to a       *)
(* total, and main(), which joins them all and prints the total.           *)
(*                                                                         *)
(* A critical section under the mutex is one step; pthread_cond_wait()     *)
(* ends one and begins another.  A signal wakes one waiter if there is any *)
(* and a waiter may also wake for no reason, as POSIX allows.              *)
(*                                                                         *)
(* A chunk is extended to the end of its last word without a look at the   *)
(* size of its buffer.  A word that is too long for it is written past the *)
(* end of the allocation; what the program does from there is undefined    *)
(* and the model stops.                                                    *)
(***************************************************************************)
EXTENDS WordCount, FiniteSetsExt

CONSTANTS CHUNK_SIZE, BUFFER_CAPACITY,
          SLACK,       \* bytes of a chunk's buffer beyond CHUNK_SIZE (256)
          Consumers,   \* the consumer threads
          MaxText,     \* bound of the model: characters in the file
          None

SizeAssumption == /\ CHUNK_SIZE \in Nat \ {0}
                  /\ BUFFER_CAPACITY \in Nat \ {0}
                  /\ SLACK \in Nat
                  /\ MaxText \in Nat
                  /\ IsFiniteSet(Consumers) /\ Consumers # {}

VARIABLES
  text,         \* the file
  pos,          \* characters the producer has read
  inside,       \* prev_ends_in_word
  chunk,        \* the producer's chunk, None when it has none
  ring, in, out, count, is_done, total_word_count,   \* the globals
  prod,         \* the producer: "none", "read", "put", "wait", "finish", "end",
                \* "exit" or "overrun"
  cons,         \* a consumer: "none", "get", "wait", "count", "add", "end"
  mine,         \* the chunk a consumer has taken
  wc,           \* its wc
  main          \* "start", "join" or "end"

vars == <<text, pos, inside, chunk, ring, in, out, count, is_done,
          total_word_count, prod, cons, mine, wc, main>>

\* A chunk: the text from .. to, and starts_inside_word.
Chunk == [from : 1 .. MaxText, to : 1 .. MaxText, inside : BOOLEAN]
Slots == 0 .. BUFFER_CAPACITY - 1

TypeOK ==
  /\ text \in Texts(MaxText)
  /\ pos \in 0 .. Len(text)
  /\ inside \in BOOLEAN
  /\ chunk \in Chunk \union {None}
  /\ ring \in [Slots -> Chunk \union {None}]
  /\ in \in Slots /\ out \in Slots
  /\ count \in 0 .. BUFFER_CAPACITY
  /\ is_done \in BOOLEAN
  /\ total_word_count \in Nat
  /\ prod \in {"none", "read", "put", "wait", "finish", "end", "exit", "overrun"}
  /\ cons \in [Consumers -> {"none", "get", "wait", "count", "add", "end"}]
  /\ mine \in [Consumers -> Chunk \union {None}]
  /\ wc \in [Consumers -> Nat]
  /\ main \in {"start", "join", "end"}

Init ==
  /\ text \in Texts(MaxText)
  /\ pos = 0 /\ inside = FALSE /\ chunk = None
  /\ ring = [k \in Slots |-> None]
  /\ in = 0 /\ out = 0 /\ count = 0
  /\ is_done = FALSE /\ total_word_count = 0
  /\ prod = "none"
  /\ cons = [c \in Consumers |-> "none"]
  /\ mine = [c \in Consumers |-> None]
  /\ wc = [c \in Consumers |-> 0]
  /\ main = "start"

\* main(): the arguments are right, and pthread_create() starts the threads.
Start ==
  /\ main = "start" /\ main' = "join"
  /\ prod' = "read"
  /\ cons' = [c \in Consumers |-> "get"]
  /\ UNCHANGED <<text, pos, inside, chunk, ring, in, out, count, is_done,
                 total_word_count, mine, wc>>

----------------------------------------------------------------------------
\* pthread_cond_signal(&not_empty): cons after it, with one waiter woken.
Signalled ==
  IF \E c \in Consumers : cons[c] = "wait"
  THEN {[cons EXCEPT ![c] = "get"] : c \in {d \in Consumers : cons[d] = "wait"}}
  ELSE {cons}

\* The end of a chunk whose fread() ended at k: up to the end of the word.
WordEnd(k) == CHOOSE e \in k .. Len(text) :
                /\ \A j \in k .. e - 1 : text[j]
                /\ e = Len(text) \/ ~text[e]

Smaller(a, b) == IF a < b THEN a ELSE b

\* Where the chunk after pos ends, and whether its buffer holds that much.
ChunkEnd == WordEnd(Smaller(pos + CHUNK_SIZE, Len(text)))
Fits == ChunkEnd - pos <= CHUNK_SIZE + SLACK

\* fread() and the fgetc() loop.
ProduceRead ==
  /\ prod = "read" /\ pos < Len(text) /\ Fits
  /\ chunk' = [from |-> pos + 1, to |-> ChunkEnd, inside |-> inside]
  /\ inside' = text[ChunkEnd]
  /\ pos' = ChunkEnd
  /\ prod' = "put"
  /\ UNCHANGED <<text, ring, in, out, count, is_done, total_word_count, cons,
                 mine, wc, main>>

\* The fgetc() loop writes past the end of the buffer.
ProduceOverrun ==
  /\ prod = "read" /\ pos < Len(text) /\ ~Fits
  /\ prod' = "overrun"
  /\ UNCHANGED <<text, pos, inside, chunk, ring, in, out, count, is_done,
                 total_word_count, cons, mine, wc, main>>

\* fread() returns 0.
ProduceEof ==
  /\ prod = "read" /\ pos = Len(text)
  /\ prod' = "finish"
  /\ UNCHANGED <<text, pos, inside, chunk, ring, in, out, count, is_done,
                 total_word_count, cons, mine, wc, main>>

\* fopen() or malloc() fails: exit(1).
ProduceFail ==
  /\ prod = "read" /\ prod' = "exit"
  /\ UNCHANGED <<text, pos, inside, chunk, ring, in, out, count, is_done,
                 total_word_count, cons, mine, wc, main>>

\* The test of the producer's while.
Full == count = BUFFER_CAPACITY

ProduceWait ==
  /\ prod = "put" /\ Full
  /\ prod' = "wait"
  /\ UNCHANGED <<text, pos, inside, chunk, ring, in, out, count, is_done,
                 total_word_count, cons, mine, wc, main>>

ProducePut ==
  /\ prod = "put" /\ ~Full
  /\ ring' = [ring EXCEPT ![in] = chunk]
  /\ in' = (in + 1) % BUFFER_CAPACITY
  /\ count' = count + 1
  /\ chunk' = None
  /\ cons' \in Signalled
  /\ prod' = "read"
  /\ UNCHANGED <<text, pos, inside, out, is_done, total_word_count, mine, wc,
                 main>>

\* cons after the broadcast that follows is_done = 1.
Broadcast_Signal == IF \E c \in Consumers : cons[c] = "wait"
                    THEN CHOOSE f \in Signalled : TRUE ELSE cons
Broadcast == [c \in Consumers |-> IF cons[c] = "wait" THEN "get" ELSE cons[c]]

ProduceFinish ==
  /\ prod = "finish"
  /\ is_done' = TRUE
  /\ cons' = Broadcast
  /\ prod' = "end"
  /\ UNCHANGED <<text, pos, inside, chunk, ring, in, out, count,
                 total_word_count, mine, wc, main>>

----------------------------------------------------------------------------
\* The two tests of a consumer.
MustWait == count = 0 /\ ~is_done
NoMore_Done == is_done
NoMore == count = 0 /\ is_done

ConsumeWait(c) ==
  /\ cons[c] = "get" /\ MustWait
  /\ cons' = [cons EXCEPT ![c] = "wait"]
  /\ UNCHANGED <<text, pos, inside, chunk, ring, in, out, count, is_done,
                 total_word_count, prod, mine, wc, main>>

ConsumeEnd(c) ==
  /\ cons[c] = "get" /\ NoMore
  /\ cons' = [cons EXCEPT ![c] = "end"]
  /\ UNCHANGED <<text, pos, inside, chunk, ring, in, out, count, is_done,
                 total_word_count, prod, mine, wc, main>>

\* Take a chunk and signal not_full, which only the producer waits for.
ConsumeGet(c) ==
  /\ cons[c] = "get" /\ ~MustWait /\ ~NoMore
  /\ mine' = [mine EXCEPT ![c] = ring[out]]
  /\ out' = (out + 1) % BUFFER_CAPACITY
  /\ count' = count - 1
  /\ prod' = IF prod = "wait" THEN "put" ELSE prod
  /\ cons' = [cons EXCEPT ![c] = "count"]
  /\ UNCHANGED <<text, pos, inside, chunk, ring, in, is_done,
                 total_word_count, wc, main>>

\* count_words_in_chunk(): skip the rest of a word, then the common loop.
CountChunk(k) ==
  LET first == IF k.inside
               THEN CHOOSE e \in k.from .. k.to + 1 :
                      /\ \A j \in k.from .. e - 1 : text[j]
                      /\ e = k.to + 1 \/ ~text[e]
               ELSE k.from
  IN CountLoop(text, first, k.to)

ConsumeCount(c) ==
  /\ cons[c] = "count"
  /\ wc' = [wc EXCEPT ![c] = CountChunk(mine[c])]
  /\ cons' = [cons EXCEPT ![c] = "add"]
  /\ UNCHANGED <<text, pos, inside, chunk, ring, in, out, count, is_done,
                 total_word_count, prod, mine, main>>

\* total_word_count += wc, under the mutex, and free().
ConsumeAdd(c) ==
  /\ cons[c] = "add"
  /\ total_word_count' = total_word_count + wc[c]
  /\ wc' = [wc EXCEPT ![c] = 0]
  /\ mine' = [mine EXCEPT ![c] = None]
  /\ cons' = [cons EXCEPT ![c] = "get"]
  /\ UNCHANGED <<text, pos, inside, chunk, ring, in, out, count, is_done,
                 prod, main>>

\* pthread_cond_wait() returns without a signal.
Spurious ==
  /\ \/ /\ prod = "wait" /\ prod' = "put" /\ UNCHANGED cons
     \/ /\ \E c \in Consumers : /\ cons[c] = "wait"
                                /\ cons' = [cons EXCEPT ![c] = "get"]
        /\ UNCHANGED prod
  /\ UNCHANGED <<text, pos, inside, chunk, ring, in, out, count, is_done,
                 total_word_count, mine, wc, main>>

\* main(): everybody is joined; the total is printed.
Join ==
  /\ main = "join" /\ prod = "end" /\ \A c \in Consumers : cons[c] = "end"
  /\ main' = "end"
  /\ UNCHANGED <<text, pos, inside, chunk, ring, in, out, count, is_done,
                 total_word_count, prod, cons, mine, wc>>

----------------------------------------------------------------------------
\* The process has ended, with main() or with the producer's exit(1), or nothing
\* more is said of it.
Ended == main = "end" \/ prod \in {"exit", "overrun"}

Produce == /\ ~Ended
           /\ \/ ProduceRead \/ ProduceOverrun \/ ProduceEof \/ ProduceWait
              \/ ProducePut \/ ProduceFinish
Consume(c) == /\ ~Ended
              /\ \/ ConsumeWait(c) \/ ConsumeEnd(c) \/ ConsumeGet(c)
                 \/ ConsumeCount(c) \/ ConsumeAdd(c)

Next == \/ Start \/ Produce \/ ProduceFail \/ Join
        \/ \E c \in Consumers : Consume(c)
        \/ ~Ended /\ Spurious
        \/ Ended /\ UNCHANGED vars

Spec == Init /\ [][Next]_vars

\* Every thread that can go on does in the end.
Fairness == /\ WF_vars(Produce) /\ WF_vars(Join)
            /\ \A c \in Consumers : WF_vars(Consume(c))

FairSpec == Spec /\ Fairness

----------------------------------------------------------------------------
(***************************************************************************)
(* Properties                                                              *)
(***************************************************************************)

\* The words of the chunks that are on their way to the total.
Queued == {ring[(out + k) % BUFFER_CAPACITY] : k \in 0 .. count - 1}
Taken == {mine[c] : c \in {d \in Consumers : cons[d] \in {"count", "add"}}}
Held == IF chunk = None THEN {} ELSE {chunk}
OnTheWay == MapThenSumSet(CountChunk, Queued \union Taken \union Held)

\* producer()/consumer(): at any moment the total and the chunks in the ring
\* and in the threads' hands account for exactly the words read so far: no
\* chunk is overwritten, taken twice or dropped, no word is split, and the ring
\* stays within its bounds (TypeOK).  Nothing is said once a chunk has overrun
\* its buffer.
Accounted == TypeOK /\ total_word_count + OnTheWay = Words(SubSeq(text, 1, pos))

\* main(): what is printed is the number of words in the file.
PrintsWordCount == main = "end" => total_word_count = Words(text)

\* A word of more than SLACK characters.
LongWord == \E j \in 1 .. Len(text) - SLACK : \A k \in j .. j + SLACK : text[k]

\* Every thread ends and main() prints, or the producer gave up: no signal is
\* missed and the broadcast at the end reaches everybody who waits.  Not so for
\* a file with a word of more than SLACK characters, which the loop that looks
\* for the end of a word may write past the end of the chunk's buffer; no other
\* file does that.
Finishes ==
  (main = "join") ~> \/ main = "end" \/ prod = "exit"
                     \/ prod = "overrun" /\ LongWord
=============================================================================
