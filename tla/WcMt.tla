-------------------------------- MODULE WcMt --------------------------------
(***************************************************************************)
(* wc_mt.c of lab 8: main() reads a file into memory, cuts it into one     *)
(* block per thread, moves both ends of every block past the word they cut *)
(* through, starts each thread as soon as its block is known, and adds up  *)
(* what the threads have counted as it joins them.                         *)
(***************************************************************************)
EXTENDS WordCount

CONSTANTS MAX_THREADS,   \* most threads the program accepts
          MaxText        \* bound of the model: characters in the file

SizeAssumption == MAX_THREADS \in Nat \ {0} /\ MaxText \in Nat

VARIABLES
  text,          \* the file in memory
  num_threads,
  args,          \* args[i]: start, end and count of each thread
  thread,        \* thread i: "none", "run", "end"
  created,       \* threads created so far: the i of main()'s first loop
  joined,        \* threads joined so far: the i of the second
  total          \* the sum so far

vars == <<text, num_threads, args, thread, created, joined, total>>

Threads == 0 .. MAX_THREADS - 1
Arg == [start : 0 .. Len(text), end : 0 .. Len(text), count : 0 .. Len(text)]

TypeOK ==
  /\ text \in Texts(MaxText)
  /\ num_threads \in 1 .. MAX_THREADS
  /\ args \in [Threads -> Arg]
  /\ thread \in [Threads -> {"none", "run", "end"}]
  /\ created \in 0 .. num_threads
  /\ joined \in 0 .. num_threads
  /\ total \in 0 .. Len(text)

Init ==
  /\ text \in Texts(MaxText)
  /\ num_threads \in 1 .. MAX_THREADS
  /\ args = [i \in Threads |-> [start |-> 0, end |-> 0, count |-> 0]]
  /\ thread = [i \in Threads |-> "none"]
  /\ created = 0 /\ joined = 0 /\ total = 0

----------------------------------------------------------------------------
size == Len(text)
block == size \div num_threads

\* buffer[k] is a word character; indices in the program begin at 0.
IsWordChar(k) == text[k + 1]

\* while(k < size && is_word_char(buffer[k])) k++
PastWord(k) == CHOOSE e \in k .. size :
                 /\ \A j \in k .. e - 1 : IsWordChar(j)
                 /\ e = size \/ ~IsWordChar(e)

Start(i) == IF i = 0 THEN 0 ELSE PastWord(i * block)

End(i) == IF i = num_threads - 1 THEN size ELSE PastWord((i + 1) * block)

\* One iteration of the first loop: fill args[i], pthread_create().
Create ==
  /\ created < num_threads
  /\ args' = [args EXCEPT ![created].start = Start(created),
                          ![created].end = End(created)]
  /\ thread' = [thread EXCEPT ![created] = "run"]
  /\ created' = created + 1
  /\ UNCHANGED <<text, num_threads, joined, total>>

\* count_words() of thread i; nobody else writes what it reads.
CountWords(i) ==
  /\ thread[i] = "run"
  /\ args' = [args EXCEPT ![i].count =
                CountLoop(text, args[i].start + 1, args[i].end)]
  /\ thread' = [thread EXCEPT ![i] = "end"]
  /\ UNCHANGED <<text, num_threads, created, joined, total>>

\* What pthread_join() of thread i waits for.
Joinable(i) == thread[i] = "end"

\* One iteration of the second loop.
Join ==
  /\ created = num_threads /\ joined < num_threads
  /\ Joinable(joined)
  /\ total' = total + args[joined].count
  /\ joined' = joined + 1
  /\ UNCHANGED <<text, num_threads, args, thread, created>>

\* main() has returned.
Done == joined = num_threads /\ UNCHANGED vars

Next == Create \/ (\E i \in Threads : CountWords(i)) \/ Join \/ Done

Spec == Init /\ [][Next]_vars

----------------------------------------------------------------------------
\* main(): the blocks handed out so far are disjoint and end where they began,
\* or later, so that no character is counted by two threads, however short the
\* blocks are and however long the words, and none passes the end of the file
\* (TypeOK).
BlocksDisjoint ==
  /\ TypeOK
  /\ \A i, j \in 0 .. created - 1 :
       /\ args[i].start <= args[i].end
       /\ i < j => args[i].end <= args[j].start

\* main(): the total printed is the number of words of the file, for any
\* number of threads, more threads than characters included.
PrintsWordCount == joined = num_threads => total = Words(text)
=============================================================================
