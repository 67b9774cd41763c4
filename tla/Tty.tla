--------------------------------- MODULE Tty --------------------------------
(***************************************************************************)
(* What the console promises to its readers: keys are edited a line at a   *)
(* time, a finished line can no longer be edited, and finished lines are   *)
(* read in order, at most one of them, and nothing beyond an end of file,  *)
(* by each read().                                                         *)
(***************************************************************************)
EXTENDS Naturals, Sequences

CONSTANTS Proc, Letter, Room, Counts

VARIABLES lines,   \* what has been finished and not been read
          edit,    \* the line that is being typed
          want,    \* want[p]: how many bytes p's read() still wants, 0 if in none
          got      \* got[p]: the bytes that it has

vars == <<lines, edit, want, got>>

Init == /\ lines = <<>> /\ edit = <<>>
        /\ want = [p \in Proc |-> 0] /\ got = [p \in Proc |-> <<>>]

Add(c) ==
  /\ Len(lines) + Len(edit) < Room
  /\ IF c \in {"nl", "^D"} \/ Len(lines) + Len(edit) = Room - 1
     THEN lines' = lines \o Append(edit, c) /\ edit' = <<>>
     ELSE edit' = Append(edit, c) /\ UNCHANGED lines
  /\ UNCHANGED <<want, got>>

Erase == /\ edit # <<>>
         /\ \/ edit' = SubSeq(edit, 1, Len(edit) - 1)     \* ^H
            \/ edit' = <<>>                               \* ^U
         /\ UNCHANGED <<lines, want, got>>

Read(p) == /\ want[p] = 0
           /\ \E n \in Counts : want' = [want EXCEPT ![p] = n]
           /\ got' = [got EXCEPT ![p] = <<>>]
           /\ UNCHANGED <<lines, edit>>

Get(p) ==
  /\ want[p] > 0 /\ lines # <<>> /\ Head(lines) # "^D"
  /\ got' = [got EXCEPT ![p] = Append(@, Head(lines))]
  /\ want' = [want EXCEPT ![p] = IF Head(lines) = "nl" THEN 0 ELSE @ - 1]
  /\ lines' = Tail(lines)
  /\ UNCHANGED edit

\* An end of file ends a read() that has something, and the next one has nothing.
Eof(p) ==
  /\ want[p] > 0 /\ lines # <<>> /\ Head(lines) = "^D"
  /\ want' = [want EXCEPT ![p] = 0]
  /\ lines' = IF got[p] = <<>> THEN Tail(lines) ELSE lines
  /\ UNCHANGED <<edit, got>>

\* The process is killed, or its buffer is no memory and the byte is lost.
Fail(p) ==
  /\ want[p] > 0
  /\ want' = [want EXCEPT ![p] = 0]
  /\ lines' = lines \/ (lines # <<>> /\ Head(lines) # "^D" /\ lines' = Tail(lines))
  /\ UNCHANGED <<edit, got>>

Next == \/ \E c \in Letter \union {"nl", "^D"} : Add(c)
        \/ Erase
        \/ \E p \in Proc : Read(p) \/ Get(p) \/ Eof(p) \/ Fail(p)

Spec == Init /\ [][Next]_vars
=============================================================================
