----------------------------- MODULE BlockStore -----------------------------
(***************************************************************************)
(* What the buffer cache promises to the file system: every block has one  *)
(* content, at most one process has it at a time, and only that process    *)
(* sees or changes it.                                                     *)
(***************************************************************************)
CONSTANTS Proc, Block, Value, NoBlock, NoValue, Blank

VARIABLES content,   \* content[n]: of block n
          has,       \* has[p]: the block that bread() has given to p, or NoBlock
          seen       \* seen[p]: its content as p sees it

vars == <<content, has, seen>>

Init == /\ content = [n \in Block |-> Blank]
        /\ has = [p \in Proc |-> NoBlock]
        /\ seen = [p \in Proc |-> NoValue]

Bread(p, n) ==
  /\ has[p] = NoBlock /\ \A q \in Proc : has[q] # n
  /\ has' = [has EXCEPT ![p] = n]
  /\ seen' = [seen EXCEPT ![p] = content[n]]
  /\ UNCHANGED content

Change(p, v) ==
  /\ has[p] # NoBlock
  /\ content' = [content EXCEPT ![has[p]] = v]
  /\ seen' = [seen EXCEPT ![p] = v]
  /\ UNCHANGED has

Brelse(p) ==
  /\ has[p] # NoBlock
  /\ has' = [has EXCEPT ![p] = NoBlock]
  /\ seen' = [seen EXCEPT ![p] = NoValue]
  /\ UNCHANGED content

Next == \E p \in Proc : \/ \E n \in Block : Bread(p, n)
                        \/ \E v \in Value : Change(p, v)
                        \/ Brelse(p)

Spec == Init /\ [][Next]_vars
=============================================================================
