---------------------------- MODULE Xv6LogProofs ----------------------------
(***************************************************************************)
(* Proofs about Xv6Log, for every number of processes, blocks and values   *)
(* and every size of the log: types, mutual exclusion of commit() and      *)
(* file system calls, that begin_op() reserves enough log space and leaves *)
(* nobody asleep, and that the log makes the disk atomic across crashes.   *)
(***************************************************************************)
EXTENDS Xv6Log, FiniteSetTheorems, TLAPS

USE SizeAssumption, OpAssumption, BlockAssumption, ValAssumption

Booting == {"boot", "replay", "reset"}
Committing == {"write", "head", "install", "clear", "done"}

Active == {o \in Op : op[o] = "active"}

\* The loops of write_log() and install_trans() stay inside the header.
TailInv ==
  /\ phase \in {"write", "install", "replay"} => tail <= Len(lh)
  /\ phase \in {"head", "boot"} => tail = 1
  /\ phase = "head" => 1 <= Len(lh)
  /\ Len(lh) <= LOGSIZE /\ Len(head) <= LOGSIZE

\* commit() and recovery run while no file system call does.
QuietInv ==
  /\ committing <=> phase \in Committing
  /\ phase # "none" => Active = {}
  /\ phase \in Booting => \A o \in Op : op[o] = "idle"

\* log.outstanding counts the calls in progress.
CountInv == outstanding = Cardinality(Active)

\* A call's blocks are in the log, and they are no more than it may log.
TouchedInv ==
  \A o \in Op : /\ Cardinality(touched[o]) <= OpBlocks
                /\ op[o] = "active" => touched[o] \subseteq Logged

\* What the calls in progress have reserved and not used: one credit <<o, k>>
\* for each block that call o may still add.
Credits == {c \in Op \X (1 .. MAXOPBLOCKS) :
              op[c[1]] = "active" /\ Cardinality(touched[c[1]]) < c[2]}

\* The log and the credits fit in the header.
SpaceInv == Len(lh) + Cardinality(Credits) <= LOGSIZE

\* The inductive invariant.
IInv == TypeOK /\ TailInv /\ QuietInv /\ CountInv /\ TouchedInv /\ SpaceInv

----------------------------------------------------------------------------
\* Every set of blocks is finite, and so are the sets of calls and credits.
LEMMA Finite ==
  /\ \A S \in SUBSET Block : IsFiniteSet(S) /\ Cardinality(S) \in Nat
  /\ IsFiniteSet(Active) /\ Cardinality(Active) \in Nat
  /\ IsFiniteSet(Credits) /\ Cardinality(Credits) \in Nat
<1>1. \A S \in SUBSET Block : IsFiniteSet(S) /\ Cardinality(S) \in Nat
  BY FS_Subset, FS_CardinalityType
<1>2. IsFiniteSet(Active)
  BY FS_Subset DEF Active
<1>3. IsFiniteSet(Op \X (1 .. MAXOPBLOCKS))
  <2>1. IsFiniteSet(1 .. MAXOPBLOCKS)
    BY FS_Interval
  <2> QED
    BY <2>1, FS_Product
<1>4. IsFiniteSet(Credits)
  BY <1>3, FS_Subset DEF Credits
<1> QED
  BY <1>1, <1>2, <1>4, FS_CardinalityType

\* A block added to a set of blocks counts once.
LEMMA AddOne ==
  ASSUME NEW S, NEW x, IsFiniteSet(S), Cardinality(S) \in Nat
  PROVE  /\ x \in S => Cardinality(S \union {x}) = Cardinality(S) + 1 - 1
         /\ x \notin S => Cardinality(S \union {x}) = Cardinality(S) + 1
<1>1. x \in S => S \union {x} = S
  OBVIOUS
<1>2. x \notin S => Cardinality(S \union {x}) = Cardinality(S) + 1
  BY FS_AddElement
<1> QED
  BY <1>1, <1>2

\* Appending a block to the header adds it to the blocks of the header.
LEMMA AppendRange ==
  ASSUME NEW s \in Seq(Block), NEW b \in Block
  PROVE  {Append(s, b)[i] : i \in 1 .. Len(Append(s, b))}
           = {s[i] : i \in 1 .. Len(s)} \union {b}
<1> DEFINE t == Append(s, b)
<1>1. /\ Len(s) \in Nat /\ Len(t) = Len(s) + 1 /\ t[Len(s) + 1] = b
      /\ \A i \in 1 .. Len(s) : t[i] = s[i]
  OBVIOUS
<1> HIDE DEF t
<1>2. 1 .. Len(t) = (1 .. Len(s)) \union {Len(s) + 1}
  BY <1>1
<1>3. {t[i] : i \in 1 .. Len(t)} = {s[i] : i \in 1 .. Len(s)} \union {b}
  BY <1>1, <1>2
<1> QED
  BY <1>3 DEF t

\* Fewer calls in progress, each with as many credits as it had at most, hold
\* fewer credits.
LEMMA CreditsShrink ==
  ASSUME Credits' \subseteq Credits
  PROVE  /\ Cardinality(Credits') \in Nat
         /\ Cardinality(Credits') <= Cardinality(Credits)
BY Finite, FS_Subset, FS_CardinalityType

\* Credits are at most what begin_op() computes: MAXOPBLOCKS per call.
LEMMA CreditsBound ==
  ASSUME NEW A \in SUBSET Op, NEW C \in SUBSET (A \X (1 .. MAXOPBLOCKS))
  PROVE  /\ Cardinality(C) \in Nat
         /\ Cardinality(C) <= Cardinality(A) * MAXOPBLOCKS
<1>1. /\ IsFiniteSet(1 .. MAXOPBLOCKS)
      /\ Cardinality(1 .. MAXOPBLOCKS) = MAXOPBLOCKS
  BY FS_Interval
<1>2. IsFiniteSet(A)
  BY FS_Subset
<1>3. /\ IsFiniteSet(A \X (1 .. MAXOPBLOCKS))
      /\ Cardinality(A \X (1 .. MAXOPBLOCKS)) = Cardinality(A) * MAXOPBLOCKS
  BY <1>1, <1>2, FS_Product
<1> QED
  BY <1>3, FS_Subset, FS_CardinalityType

\* A call that is let in is one more.
LEMMA ActiveAdd ==
  ASSUME NEW o \in Op, TypeOK, op[o] # "active",
         op' = [op EXCEPT ![o] = "active"]
  PROVE  Cardinality(Active') = Cardinality(Active) + 1
<1>1. Active' = Active \union {o} /\ o \notin Active
  BY DEF Active, TypeOK
<1> QED
  BY <1>1, Finite, FS_AddElement

\* A call that ends is one less, whoever wakeup() wakes.
LEMMA ActiveRemove ==
  ASSUME NEW o \in Op, op[o] = "active", Active' = Active \ {o}
  PROVE  Cardinality(Active') = Cardinality(Active) - 1
<1>1. o \in Active
  BY DEF Active
<1> QED
  BY <1>1, Finite, FS_RemoveElement

----------------------------------------------------------------------------
\* Initially nothing is logged and nobody is active.
LEMMA InitIInv == Init => IInv
<1> SUFFICES ASSUME Init PROVE IInv
  OBVIOUS
<1>1. TypeOK
  <2>1. committing \in BOOLEAN
    BY DEF Init
  <2>2. /\ op \in [Op -> {"idle", "begin", "asleep", "active", "commit"}]
        /\ touched \in [Op -> SUBSET Block] /\ outstanding \in Nat
        /\ lh \in Seq(Block) /\ head \in Seq(Block)
    BY DEF Init
  <2>3. /\ cache \in [Block -> Val \union {None}] /\ pinned \in SUBSET Block
        /\ home \in [Block -> Val] /\ logd \in [1 .. LOGSIZE -> Val]
        /\ phase \in Phases /\ tail \in 1 .. LOGSIZE + 1
    BY DEF Init, Phases
  <2> QED
    BY <2>1, <2>2, <2>3 DEF TypeOK
<1>2. TailInv /\ QuietInv
  BY DEF Init, TailInv, QuietInv, Active, Booting, Committing
<1>3. CountInv /\ TouchedInv /\ SpaceInv
  <2>1. Active = {} /\ Credits = {}
    BY DEF Init, Active, Credits
  <2>2. Cardinality({}) = 0
    BY FS_EmptySet
  <2> QED
    BY <2>1, <2>2 DEF Init, CountInv, TouchedInv, SpaceInv
<1> QED
  BY <1>1, <1>2, <1>3 DEF IInv

\* Every step keeps the types and the loop bounds.
LEMMA TypeStep == IInv /\ [Next]_vars => TypeOK' /\ TailInv'
<1> SUFFICES ASSUME IInv, [Next]_vars PROVE TypeOK' /\ TailInv'
  OBVIOUS
<1> USE DEF IInv, TypeOK, TailInv, Phases, opvars, bufvars, diskvars, comvars
<1>1. ASSUME NEW o \in Op, \/ Call(o) \/ BeginSleep(o) \/ BeginOp(o) \/ Kill(o)
      PROVE TypeOK' /\ TailInv'
  <2>1. CASE Call(o)
    BY <2>1 DEF Call
  <2>2. CASE BeginSleep(o)
    BY <2>2 DEF BeginSleep
  <2>3. CASE BeginOp(o)
    BY <2>3 DEF BeginOp
  <2>4. CASE Kill(o)
    BY <2>4 DEF Kill
  <2> QED
    BY <1>1, <2>1, <2>2, <2>3, <2>4
<1>2. ASSUME NEW o \in Op, EndOp(o) PROVE TypeOK' /\ TailInv'
  BY <1>2 DEF EndOp, Awake
<1>3. ASSUME NEW o \in Op, EndOpCommit(o) PROVE TypeOK' /\ TailInv'
  BY <1>3 DEF EndOpCommit
<1>4. ASSUME NEW o \in Op, EndCommit(o) PROVE TypeOK' /\ TailInv'
  <2>1. committing' \in BOOLEAN
    BY <1>4 DEF EndCommit
  <2>2. op' \in [Op -> {"idle", "begin", "asleep", "active", "commit"}]
    BY <1>4 DEF EndCommit, Awake
  <2>3. phase' = "none" /\ UNCHANGED <<touched, outstanding, lh, tail>>
    BY <1>4 DEF EndCommit
  <2>4. UNCHANGED <<cache, pinned, home, logd, head>>
    BY <1>4 DEF EndCommit
  <2> QED
    BY <2>1, <2>2, <2>3, <2>4
<1>5. ASSUME NEW o \in Op, NEW b \in Block, NEW v \in Val, LogWrite(o, b, v)
      PROVE TypeOK' /\ TailInv'
  BY <1>5 DEF LogWrite, Absorbed, Pinned, TooBig, QuietInv, Active
<1>6. ASSUME NEW b \in Block, Read(b) \/ Evict(b) PROVE TypeOK' /\ TailInv'
  BY <1>6 DEF Read, Evict
<1>7. CASE WriteLog
  BY <1>7 DEF WriteLog, Contents
<1>8. CASE WriteHead
  BY <1>8 DEF WriteHead
<1>9. CASE Install
  BY <1>9 DEF Install
<1>10. CASE Clear
  BY <1>10 DEF Clear
<1>11. CASE Crash
  <2>1. committing' \in BOOLEAN
    BY <1>11 DEF Crash
  <2>2. /\ op' \in [Op -> {"idle", "begin", "asleep", "active", "commit"}]
        /\ touched' \in [Op -> SUBSET Block] /\ outstanding' \in Nat
        /\ lh' = <<>> /\ lh' \in Seq(Block)
    BY <1>11 DEF Crash
  <2>3. /\ cache' \in [Block -> Val \union {None}] /\ pinned' \in SUBSET Block
        /\ UNCHANGED <<home, logd, head>>
        /\ phase' = "boot" /\ tail' = 1
    BY <1>11 DEF Crash
  <2> QED
    BY <2>1, <2>2, <2>3
<1>12. CASE ReadHead
  BY <1>12 DEF ReadHead
<1>13. CASE Replay
  BY <1>13 DEF Replay
<1>14. CASE Reset
  BY <1>14 DEF Reset
<1>15. CASE UNCHANGED vars
  BY <1>15 DEF vars
<1> QED
  BY <1>1, <1>2, <1>3, <1>4, <1>5, <1>6, <1>7, <1>8, <1>9, <1>10, <1>11, <1>12,
     <1>13, <1>14, <1>15 DEF Next, OpStep, CommitStep, Recover

\* Every step keeps commit() and recovery apart from the calls, and the count.
LEMMA QuietStep == IInv /\ [Next]_vars => QuietInv' /\ CountInv'
<1> SUFFICES ASSUME IInv, [Next]_vars PROVE QuietInv' /\ CountInv'
  OBVIOUS
<1> USE DEF IInv, TypeOK, QuietInv, CountInv, Booting, Committing, opvars,
            bufvars, diskvars, comvars
<1>1. ASSUME UNCHANGED <<Active, outstanding>> PROVE CountInv'
  BY <1>1
<1>2. ASSUME NEW o \in Op, Call(o) \/ BeginSleep(o) \/ Kill(o)
      PROVE QuietInv' /\ CountInv'
  <2>1. UNCHANGED <<Active, outstanding, phase, committing>>
    BY <1>2 DEF Call, BeginSleep, Kill, Active
  <2>2. phase \notin Booting
    BY <1>2 DEF Call, BeginSleep, Kill, Up
  <2> QED
    BY <1>1, <2>1, <2>2
<1>3. ASSUME NEW o \in Op, BeginOp(o) PROVE QuietInv' /\ CountInv'
  <2>1. Cardinality(Active') = Cardinality(Active) + 1
    <3>1. op[o] # "active" /\ op' = [op EXCEPT ![o] = "active"]
      BY <1>3 DEF BeginOp
    <3> QED
      BY <3>1, ActiveAdd
  <2>2. phase = "none" /\ phase' = "none" /\ ~committing'
    BY <1>3 DEF BeginOp, MustWait, Phases
  <2> QED
    BY <1>3, <2>1, <2>2 DEF BeginOp
<1>4. ASSUME NEW o \in Op, EndOp(o) PROVE QuietInv' /\ CountInv'
  <2>1. Active' = Active \ {o}
    BY <1>4 DEF EndOp, Active, Awake
  <2>2. Cardinality(Active') = Cardinality(Active) - 1
    BY <1>4, <2>1, ActiveRemove DEF EndOp
  <2>3. phase = "none" /\ phase' = "none" /\ committing' = committing
    BY <1>4 DEF EndOp, Active
  <2> QED
    BY <1>4, <2>2, <2>3 DEF EndOp
<1>5. ASSUME NEW o \in Op, EndOpCommit(o) PROVE QuietInv' /\ CountInv'
  <2>1. Active' = Active \ {o}
    BY <1>5 DEF EndOpCommit, Active
  <2>2. Cardinality(Active') = 0
    <3>1. op[o] = "active" /\ Cardinality(Active) = 1
      BY <1>5 DEF EndOpCommit
    <3>2. Cardinality(Active') = Cardinality(Active) - 1
      BY <2>1, <3>1, ActiveRemove
    <3> QED
      BY <3>1, <3>2
  <2>3. Active' = {}
    <3>1. IsFiniteSet(Active')
      BY <2>1, Finite, FS_RemoveElement
    <3> QED
      BY <2>2, <3>1, FS_EmptySet
  <2> QED
    BY <1>5, <2>2, <2>3 DEF EndOpCommit
<1>6. ASSUME NEW o \in Op, EndCommit(o) PROVE QuietInv' /\ CountInv'
  <2>1. UNCHANGED <<Active, outstanding>> /\ phase' = "none" /\ ~committing'
    BY <1>6 DEF EndCommit, Active, Awake
  <2> QED
    BY <1>1, <2>1
<1>7. ASSUME NEW o \in Op, NEW b \in Block, NEW v \in Val, LogWrite(o, b, v)
      PROVE QuietInv' /\ CountInv'
  BY <1>7, <1>1 DEF LogWrite, Active
<1>8. ASSUME NEW b \in Block, Read(b) \/ Evict(b) PROVE QuietInv' /\ CountInv'
  BY <1>8, <1>1 DEF Read, Evict, Active
<1>9. CASE CommitStep \/ Recover
  <2>1. UNCHANGED <<Active, op, outstanding, committing>>
    BY <1>9 DEF CommitStep, Recover, WriteLog, WriteHead, Install, Clear,
       ReadHead, Replay, Reset, Active
  <2>2. \/ phase \in Committing /\ phase' \in Committing
        \/ phase \in Booting /\ phase' \in Booting \union {"none"}
    BY <1>9 DEF CommitStep, Recover, WriteLog, WriteHead, Install, Clear,
       ReadHead, Replay, Reset
  <2> QED
    BY <1>1, <2>1, <2>2
<1>10. CASE Crash
  <2>1. Active' = {} /\ phase' = "boot" /\ outstanding' = 0 /\ ~committing'
    BY <1>10 DEF Crash, Active
  <2> QED
    BY <1>10, <2>1, FS_EmptySet DEF Crash
<1>11. CASE UNCHANGED vars
  BY <1>11, <1>1 DEF vars, Active
<1> QED
  BY <1>2, <1>3, <1>4, <1>5, <1>6, <1>7, <1>8, <1>9, <1>10, <1>11
     DEF Next, OpStep

\* A step that appends nothing to the log and gives nobody credit keeps the
\* reservations covered.
LEMMA SpaceKept ==
  ASSUME IInv, lh' \in Seq(Block), Len(lh') <= Len(lh),
         Credits' \subseteq Credits
  PROVE  SpaceInv'
BY CreditsShrink, Finite DEF IInv, TypeOK, SpaceInv

\* Every step keeps the log and the reservations within the header.
LEMMA SpaceStep == IInv /\ [Next]_vars => TouchedInv' /\ SpaceInv'
<1> SUFFICES ASSUME IInv, [Next]_vars PROVE TouchedInv' /\ SpaceInv'
  OBVIOUS
<1> TypeOK' /\ QuietInv' /\ CountInv'
  BY TypeStep, QuietStep
<1> USE DEF IInv, TypeOK, opvars, bufvars, diskvars, comvars
<1>1. ASSUME NEW o \in Op, \/ Call(o) \/ BeginSleep(o) \/ Kill(o) \/ EndOp(o)
                            \/ EndOpCommit(o) \/ EndCommit(o)
      PROVE TouchedInv' /\ SpaceInv'
  <2>1. /\ UNCHANGED <<lh, touched>>
        /\ \A u \in Op : op'[u] = "active" => op[u] = "active"
    BY <1>1 DEF Call, BeginSleep, Kill, EndOp, EndOpCommit, EndCommit, Awake
  <2>2. Credits' \subseteq Credits
    BY <2>1 DEF Credits
  <2>3. TouchedInv'
    BY <2>1 DEF TouchedInv, Logged
  <2>4. lh' \in Seq(Block) /\ Len(lh') <= Len(lh)
    BY <2>1
  <2> HIDE DEF IInv, TypeOK
  <2>5. SpaceInv'
    BY <2>2, <2>4, SpaceKept
  <2> QED
    BY <2>3, <2>5
<1>2. ASSUME NEW o \in Op, BeginOp(o) PROVE TouchedInv' /\ SpaceInv'
  <2>1. TouchedInv'
    BY <1>2, FS_EmptySet DEF BeginOp, TouchedInv, Logged
  <2>2. SpaceInv'
    <3>1. Len(lh) + (outstanding + 1) * MAXOPBLOCKS <= LOGSIZE /\ lh' = lh
      BY <1>2 DEF BeginOp, MustWait, Reserved
    <3>2. Cardinality(Active') = outstanding + 1
      BY <1>2 DEF BeginOp, CountInv
    <3>3. /\ Active' \in SUBSET Op
          /\ Credits' \in SUBSET (Active' \X (1 .. MAXOPBLOCKS))
      BY DEF Active, Credits
    <3>4. /\ Cardinality(Credits') \in Nat
          /\ Cardinality(Credits') <= Cardinality(Active') * MAXOPBLOCKS
      BY <3>3, CreditsBound
    <3>5. Cardinality(Credits') <= (outstanding + 1) * MAXOPBLOCKS
      BY <3>2, <3>4
    <3>6. (outstanding + 1) * MAXOPBLOCKS \in Nat
      OBVIOUS
    <3> QED
      BY <3>1, <3>4, <3>5, <3>6 DEF SpaceInv
  <2> QED
    BY <2>1, <2>2
<1>3. ASSUME NEW o \in Op, NEW b \in Block, NEW v \in Val, LogWrite(o, b, v)
      PROVE TouchedInv' /\ SpaceInv'
  <2> DEFINE T == touched[o] \union {b}
             k == Cardinality(touched[o]) + 1
  <2>1. /\ op' = op /\ op[o] = "active"
        /\ touched' = [touched EXCEPT ![o] = T]
        /\ lh' = IF b \in Logged THEN lh ELSE Append(lh, b)
        /\ Cardinality(T) <= OpBlocks
    BY <1>3 DEF LogWrite, Absorbed
  <2>2. /\ touched[o] \in SUBSET Block /\ IsFiniteSet(touched[o])
        /\ Cardinality(touched[o]) \in Nat
    BY Finite
  <2>3. /\ b \in touched[o] => Cardinality(T) = k - 1
        /\ b \notin touched[o] => Cardinality(T) = k
    BY <2>2, AddOne
  <2>4. Logged' = Logged \union {b}
    <3>1. CASE b \in Logged
      BY <2>1, <3>1 DEF Logged
    <3>2. CASE b \notin Logged
      <4>1. lh' = Append(lh, b) /\ lh \in Seq(Block)
        BY <2>1, <3>2
      <4> HIDE DEF IInv, TypeOK
      <4> QED
        BY <4>1, AppendRange DEF Logged
    <3> QED
      BY <3>1, <3>2
  <2>5. TouchedInv'
    <3> SUFFICES ASSUME NEW u \in Op
                 PROVE  /\ Cardinality(touched'[u]) <= OpBlocks
                        /\ op'[u] = "active" => touched'[u] \subseteq Logged'
      BY DEF TouchedInv
    <3>1. CASE u = o
      BY <2>1, <2>4, <3>1 DEF TouchedInv
    <3>2. CASE u # o
      BY <2>1, <2>4, <3>2 DEF TouchedInv
    <3> QED
      BY <3>1, <3>2
  <2>6. Credits' \subseteq Credits
    <3> SUFFICES ASSUME NEW c \in Credits' PROVE c \in Credits
      OBVIOUS
    <3>1. CASE c[1] = o
      BY <2>1, <2>2, <2>3, <3>1 DEF Credits
    <3>2. CASE c[1] # o
      BY <2>1, <3>2 DEF Credits
    <3> QED
      BY <3>1, <3>2
  <2>7. CASE b \in Logged
    <3>1. lh' \in Seq(Block) /\ Len(lh') <= Len(lh)
      BY <2>1, <2>7
    <3> HIDE DEF IInv, TypeOK
    <3>2. SpaceInv'
      BY <2>6, <3>1, SpaceKept
    <3> QED
      BY <2>5, <3>2
  <2>8. CASE b \notin Logged
    <3>1. b \notin touched[o]
      BY <2>1, <2>8 DEF TouchedInv
    <3>2. Cardinality(T) = k /\ k \in 1 .. MAXOPBLOCKS
      BY <2>1, <2>2, <2>3, <3>1
    <3>3. <<o, k>> \in Credits
      BY <2>1, <2>2, <3>2 DEF Credits
    <3>4. <<o, k>> \notin Credits'
      BY <2>1, <3>2 DEF Credits
    <3>5. \A c \in Credits :
            Cardinality(Credits \ {c}) = Cardinality(Credits) - 1
      BY Finite, FS_RemoveElement
    <3>6. IsFiniteSet(Credits \ {<<o, k>>})
      BY Finite, FS_RemoveElement
    <3>7. /\ Cardinality(Credits') <= Cardinality(Credits) - 1
          /\ Cardinality(Credits') \in Nat
      <4>1. Credits' \in SUBSET (Credits \ {<<o, k>>})
        BY <2>6, <3>4
      <4>2. /\ Cardinality(Credits') <= Cardinality(Credits \ {<<o, k>>})
            /\ IsFiniteSet(Credits')
        BY <4>1, <3>6, FS_Subset
      <4> QED
        BY <4>2, <3>3, <3>5, FS_CardinalityType
    <3>8. Len(lh') = Len(lh) + 1 /\ Len(lh) \in Nat
      BY <2>1, <2>8
    <3>9. Cardinality(Credits) \in Nat
      BY Finite
    <3> QED
      BY <2>5, <3>7, <3>8, <3>9 DEF SpaceInv
  <2> QED
    BY <2>7, <2>8
<1>4. ASSUME UNCHANGED <<op, touched>>, Active = {} \/ UNCHANGED lh,
             Len(lh') <= LOGSIZE
      PROVE  TouchedInv' /\ SpaceInv'
  <2>1. Credits' = Credits
    BY <1>4 DEF Credits
  <2>2. CASE UNCHANGED lh
    <3>1. TouchedInv'
      BY <1>4, <2>2 DEF TouchedInv, Logged
    <3>2. lh' \in Seq(Block) /\ Len(lh') <= Len(lh)
      BY <2>2
    <3> HIDE DEF IInv, TypeOK
    <3>3. SpaceInv'
      BY <2>1, <3>2, SpaceKept
    <3> QED
      BY <3>1, <3>3
  <2>3. CASE Active = {}
    <3>1. Credits = {}
      BY <2>3 DEF Credits, Active
    <3>2. Cardinality(Credits') = 0
      BY <2>1, <3>1, FS_EmptySet
    <3> QED
      BY <1>4, <2>3, <3>2 DEF TouchedInv, SpaceInv, Active
  <2> QED
    BY <1>4, <2>2, <2>3
<1>5. ASSUME NEW b \in Block, Read(b) \/ Evict(b) PROVE TouchedInv' /\ SpaceInv'
  BY <1>4, <1>5 DEF Read, Evict, TailInv
<1>6. CASE CommitStep \/ Recover
  <2>1. UNCHANGED <<op, touched>> /\ phase # "none"
    BY <1>6 DEF CommitStep, Recover, WriteLog, WriteHead, Install, Clear,
       ReadHead, Replay, Reset
  <2>2. Len(lh') <= LOGSIZE
    BY TypeStep DEF TailInv
  <2> QED
    BY <1>4, <2>1, <2>2 DEF QuietInv
<1>7. CASE Crash
  <2>1. Credits' = {}
    BY <1>7 DEF Crash, Credits
  <2>2. Cardinality({}) = 0 /\ Len(lh') = 0
    BY <1>7, FS_EmptySet DEF Crash
  <2> QED
    BY <1>7, <2>1, <2>2 DEF Crash, TouchedInv, SpaceInv
<1>8. CASE UNCHANGED vars
  BY <1>4, <1>8 DEF vars, TailInv
<1> QED
  BY <1>1, <1>2, <1>3, <1>5, <1>6, <1>7, <1>8 DEF Next, OpStep
----------------------------------------------------------------------------
(***************************************************************************)
(* The theorems.                                                           *)
(***************************************************************************)

\* The inductive invariant holds in every reachable state.
THEOREM Invariance == Spec => []IInv
<1>1. IInv /\ [Next]_vars => IInv'
  BY TypeStep, QuietStep, SpaceStep DEF IInv
<1> QED
  BY InitIInv, <1>1, PTL DEF Spec

\* The state keeps its types; in particular write_log() and install_trans()
\* never read past the header's blocks.
THEOREM TypeCorrect == Spec => []TypeOK
<1>1. IInv => TypeOK
  BY DEF IInv
<1> QED
  BY Invariance, <1>1, PTL

\* begin_op()/log_write(): no call in progress can meet the panic "too big a
\* transaction", provided that a call logs fewer than MAXOPBLOCKS blocks, with
\* room to spare for what the log on disk lacks of LOGSIZE.
THEOREM SpaceSuffices ==
  ASSUME OpBlocks < MAXOPBLOCKS,
         LOGSIZE + OpBlocks + 1 < LogBlocks + MAXOPBLOCKS
  PROVE  Spec => []LogSpace
<1>1. IInv => LogSpace
  <2> SUFFICES ASSUME IInv, NEW o \in Op, op[o] = "active" PROVE ~TooBig
    BY DEF LogSpace
  <2> DEFINE n == Cardinality(touched[o])
             mine == {o} \X (n + 1 .. MAXOPBLOCKS)
  <2>1. n \in Nat /\ n <= OpBlocks
    BY Finite DEF IInv, TypeOK, TouchedInv
  <2>2. /\ IsFiniteSet(n + 1 .. MAXOPBLOCKS)
        /\ Cardinality(n + 1 .. MAXOPBLOCKS) = MAXOPBLOCKS - n
    <3> HIDE DEF n
    <3>1. n + 1 \in Int /\ MAXOPBLOCKS \in Int /\ ~(n + 1 > MAXOPBLOCKS)
      BY <2>1
    <3>2. /\ IsFiniteSet(n + 1 .. MAXOPBLOCKS)
          /\ Cardinality(n + 1 .. MAXOPBLOCKS) = MAXOPBLOCKS - (n + 1) + 1
      BY <3>1, FS_Interval
    <3> QED
      BY <2>1, <3>2
  <2>3. IsFiniteSet({o}) /\ Cardinality({o}) = 1
    BY FS_Singleton
  <2>4. Cardinality(mine) = MAXOPBLOCKS - n
    <3>1. Cardinality(mine) = 1 * (MAXOPBLOCKS - n)
      BY ZenonT(60), <2>2, <2>3, FS_Product
    <3> QED
      BY <2>1, <3>1
  <2>5. mine \in SUBSET Credits
    BY <2>1 DEF Credits
  <2>6. MAXOPBLOCKS - n <= Cardinality(Credits) /\ Cardinality(Credits) \in Nat
    BY <2>4, <2>5, Finite, FS_Subset
  <2>7. Len(lh) \in Nat /\ Len(lh) + Cardinality(Credits) <= LOGSIZE
    BY DEF IInv, TypeOK, SpaceInv
  <2> QED
    BY <2>1, <2>6, <2>7 DEF TooBig
<1> QED
  BY Invariance, <1>1, PTL

----------------------------------------------------------------------------
(***************************************************************************)
(* The state of the disk and of the buffers through commit(), install and  *)
(* recovery, for the refinement of AtomicDisk.                             *)
(***************************************************************************)
Distinct(s) == \A i, j \in 1 .. Len(s) : s[i] = s[j] => i = j

\* log_write() absorbs: no block is twice in a header.  The header on disk is
\* empty before the commit point, and the one in memory after it.
HeaderInv ==
  /\ Distinct(lh) /\ Distinct(head)
  /\ phase \in {"none", "write", "head", "done"} => head = <<>>
  /\ phase \in {"install", "clear", "replay", "reset"} => head = lh
  /\ phase \in {"done", "boot"} => lh = <<>>
  /\ phase = "none" /\ Active = {} => lh = <<>>

\* A buffer that is not in the log, or not any more, is what the disk has.
Clean(b) == cache[b] \in {None, home[b]}

\* Whether a home block may differ from its buffer: b is in the log and not
\* installed yet.
Dirty(b) ==
  \/ phase \in {"none", "write", "head"} /\ b \in Logged
  \/ phase = "install" /\ \E k \in tail .. Len(lh) : lh[k] = b

\* bpin() keeps what is not installed in the cache; write_log() has copied the
\* blocks below tail to the log, install_trans() the ones below tail home.
BufferInv ==
  /\ \A b \in Block : Clean(b) \/ Dirty(b)
  /\ \A b \in Block : Dirty(b) => b \in pinned /\ cache[b] # None
  /\ phase = "write" => \A k \in 1 .. tail - 1 : logd[k] = cache[lh[k]]
  /\ phase = "head" => \A k \in 1 .. Len(lh) : logd[k] = cache[lh[k]]
  /\ phase = "install" => \A k \in tail .. Len(lh) : logd[k] = cache[lh[k]]
  /\ phase \in {"install", "replay"} =>
       \A k \in 1 .. tail - 1 : logd[k] = home[lh[k]]
  /\ phase \in {"clear", "reset"} =>
       \A k \in 1 .. Len(lh) : logd[k] = home[lh[k]]

DiskInv == IInv /\ HeaderInv /\ BufferInv

\* Nothing is on the log's blocks and no buffer is dirty.
LEMMA InitDiskInv == Init => DiskInv
<1> SUFFICES ASSUME Init PROVE DiskInv
  OBVIOUS
<1>1. HeaderInv
  BY DEF Init, HeaderInv, Distinct
<1>2. BufferInv
  BY DEF Init, BufferInv, Clean, Dirty, Logged
<1> QED
  BY <1>1, <1>2, InitIInv DEF DiskInv

\* log_write() puts a block in the header once.
LEMMA AbsorbDistinct ==
  ASSUME NEW s \in Seq(Block), Distinct(s), NEW b \in Block,
         \A k \in 1 .. Len(s) : s[k] # b
  PROVE  Distinct(Append(s, b))
<1> DEFINE t == Append(s, b)
<1>1. /\ Len(s) \in Nat /\ Len(t) = Len(s) + 1 /\ t[Len(s) + 1] = b
      /\ \A i \in 1 .. Len(s) : t[i] = s[i]
  OBVIOUS
<1> HIDE DEF t
<1>2. ASSUME NEW i \in 1 .. Len(t), NEW j \in 1 .. Len(t), t[i] = t[j]
      PROVE  i = j
  <2>1. CASE i \in 1 .. Len(s) /\ j \in 1 .. Len(s)
    BY <1>1, <1>2, <2>1 DEF Distinct
  <2>2. CASE i = Len(s) + 1 \/ j = Len(s) + 1
    BY <1>1, <1>2, <2>2
  <2> QED
    BY <1>1, <2>1, <2>2
<1> QED
  BY <1>2 DEF Distinct, t

\* Every step keeps the headers.
LEMMA HeaderStep == DiskInv /\ [Next]_vars => HeaderInv'
<1> SUFFICES ASSUME DiskInv, [Next]_vars PROVE HeaderInv'
  OBVIOUS
<1>t. IInv' /\ IInv /\ HeaderInv
  BY TypeStep, QuietStep, SpaceStep DEF IInv, DiskInv
<1> HIDE DEF IInv
<1> USE DEF HeaderInv, opvars, bufvars, diskvars, comvars
<1>1. ASSUME UNCHANGED <<lh, head, phase>>, Active # {} => Active' # {}
      PROVE  HeaderInv'
  BY <1>1, <1>t
<1>2. ASSUME NEW o \in Op, Call(o) \/ BeginSleep(o) \/ BeginOp(o) \/ Kill(o)
      PROVE  HeaderInv'
  <2>1. UNCHANGED <<lh, head, phase>>
    BY <1>2 DEF Call, BeginSleep, BeginOp, Kill
  <2>2. Active \subseteq Active'
    BY <1>2, <1>t DEF Call, BeginSleep, BeginOp, Kill, Active, IInv, TypeOK
  <2> QED
    BY <1>1, <2>1, <2>2
<1>3. ASSUME NEW o \in Op, EndOp(o) PROVE HeaderInv'
  <2>1. UNCHANGED <<lh, head, phase>>
    BY <1>3 DEF EndOp
  <2>2. Cardinality(Active') # 0
    BY <1>3, <1>t DEF EndOp, IInv, CountInv, TypeOK
  <2> QED
    BY <1>1, <2>1, <2>2, FS_EmptySet
<1>4. ASSUME NEW o \in Op, EndOpCommit(o) PROVE HeaderInv'
  <2>1. phase = "none"
    BY <1>4, <1>t DEF EndOpCommit, IInv, QuietInv, Active
  <2> QED
    BY <1>4, <1>t, <2>1 DEF EndOpCommit
<1>5. ASSUME NEW o \in Op, EndCommit(o) PROVE HeaderInv'
  BY <1>5, <1>t DEF EndCommit
<1>6. ASSUME NEW o \in Op, NEW b \in Block, NEW v \in Val, LogWrite(o, b, v)
      PROVE  HeaderInv'
  <2>1. phase = "none" /\ phase' = "none" /\ Active' # {} /\ head' = head
    BY <1>6, <1>t DEF LogWrite, IInv, QuietInv, Active
  <2>2. Distinct(lh')
    <3>1. CASE b \in Logged
      BY <1>6, <1>t, <3>1 DEF LogWrite, Absorbed
    <3>2. CASE b \notin Logged
      <4>1. lh' = Append(lh, b) /\ \A k \in 1 .. Len(lh) : lh[k] # b
        BY <1>6, <3>2 DEF LogWrite, Absorbed, Logged
      <4>2. lh \in Seq(Block)
        BY <1>t DEF IInv, TypeOK
      <4> QED
        BY <1>t, <4>1, <4>2, AbsorbDistinct
    <3> QED
      BY <3>1, <3>2
  <2> QED
    BY <1>t, <2>1, <2>2
<1>7. ASSUME NEW b \in Block, Read(b) \/ Evict(b) PROVE HeaderInv'
  BY <1>1, <1>7 DEF Read, Evict, Active
<1>8. CASE WriteLog
  BY <1>8, <1>t DEF WriteLog
<1>9. CASE WriteHead
  BY <1>9, <1>t DEF WriteHead
<1>10. CASE Install
  BY <1>10, <1>t DEF Install
<1>11. CASE Clear
  BY <1>11, <1>t DEF Clear, Distinct
<1>12. CASE Crash
  BY <1>12, <1>t DEF Crash, Distinct
<1>13. CASE ReadHead
  BY <1>13, <1>t DEF ReadHead
<1>14. CASE Replay
  BY <1>14, <1>t DEF Replay
<1>15. CASE Reset
  BY <1>15, <1>t DEF Reset, Distinct
<1>16. CASE UNCHANGED vars
  BY <1>1, <1>16 DEF vars, Active
<1> QED
  BY <1>2, <1>3, <1>4, <1>5, <1>6, <1>7, <1>8, <1>9, <1>10, <1>11, <1>12, <1>13,
     <1>14, <1>15, <1>16 DEF Next, OpStep, CommitStep, Recover

\* Every step keeps buffers, log blocks and home blocks in line.
LEMMA BufferStep == DiskInv /\ [Next]_vars => BufferInv'
<1> SUFFICES ASSUME DiskInv, [Next]_vars PROVE BufferInv'
  OBVIOUS
<1>t. IInv' /\ IInv /\ HeaderInv /\ BufferInv
  BY TypeStep, QuietStep, SpaceStep DEF IInv, DiskInv
<1>u. /\ lh \in Seq(Block) /\ Len(lh) \in Nat /\ Len(lh) <= LOGSIZE
      /\ \A k \in 1 .. Len(lh) : lh[k] \in Block
      /\ cache \in [Block -> Val \union {None}] /\ home \in [Block -> Val]
      /\ logd \in [1 .. LOGSIZE -> Val] /\ tail \in 1 .. LOGSIZE + 1
      /\ phase \in Phases
  BY <1>t DEF IInv, TypeOK, TailInv
<1>v. TailInv
  BY <1>t DEF IInv
<1> HIDE DEF IInv
<1> USE DEF BufferInv, Clean, Dirty, Logged, opvars, bufvars, diskvars, comvars
<1>1. ASSUME UNCHANGED <<lh, cache, pinned, home, logd, phase, tail>>
      PROVE  BufferInv'
  BY <1>1, <1>t
<1>2. ASSUME NEW o \in Op,
             \/ Call(o) \/ BeginSleep(o) \/ BeginOp(o) \/ Kill(o) \/ EndOp(o)
      PROVE  BufferInv'
  BY <1>1, <1>2 DEF Call, BeginSleep, BeginOp, Kill, EndOp
<1>3. ASSUME NEW o \in Op, EndOpCommit(o) PROVE BufferInv'
  <2>1. phase = "none"
    BY <1>3, <1>t DEF EndOpCommit, IInv, QuietInv, Active
  <2>2. CASE lh = <<>>
    BY <1>3, <1>t, <1>u, <2>1, <2>2 DEF EndOpCommit
  <2>3. CASE lh # <<>>
    BY <1>3, <1>t, <1>u, <2>1, <2>3 DEF EndOpCommit
  <2> QED
    BY <2>2, <2>3
<1>4. ASSUME NEW o \in Op, EndCommit(o) PROVE BufferInv'
  <2>1. lh = <<>> /\ lh' = lh
    BY <1>4, <1>t DEF EndCommit, HeaderInv
  <2> QED
    BY <1>4, <1>t, <2>1 DEF EndCommit
<1>5. ASSUME NEW o \in Op, NEW b \in Block, NEW v \in Val, LogWrite(o, b, v)
      PROVE  BufferInv'
  <2>1. phase = "none" /\ phase' = "none"
    BY <1>5, <1>t DEF LogWrite, IInv, QuietInv, Active
  <2>2. Logged' = Logged \union {b}
    <3>1. CASE b \in Logged
      BY <1>5, <3>1 DEF LogWrite, Absorbed
    <3>2. CASE b \notin Logged
      BY <1>5, <1>u, <3>2, AppendRange DEF LogWrite, Absorbed
    <3> QED
      BY <3>1, <3>2
  <2>3. Logged' \subseteq pinned'
    <3>1. Logged \subseteq pinned
      BY <1>t, <1>u, <2>1
    <3>2. pinned \subseteq pinned' /\ b \in pinned'
      BY <1>5, <3>1 DEF LogWrite, Pinned
    <3> QED
      BY <2>2, <3>1, <3>2
  <2>4. cache' = [cache EXCEPT ![b] = v] /\ UNCHANGED home /\ v # None
    BY <1>5 DEF LogWrite
  <2> HIDE DEF Logged
  <2> QED
    BY <1>t, <1>u, <2>1, <2>2, <2>3, <2>4
<1>6. ASSUME NEW b \in Block, Read(b) \/ Evict(b) PROVE BufferInv'
  <2>1. /\ UNCHANGED <<lh, pinned, home, logd, phase, tail>> /\ ~Dirty(b)
        /\ \E c \in {None, home[b]} : cache' = [cache EXCEPT ![b] = c]
    BY <1>6, <1>t DEF Read, Evict
  <2>2. \A d \in Block : (Clean(d) \/ Dirty(d))'
    BY <1>t, <1>u, <2>1
  <2>3. \A d \in Block : Dirty(d)' => d \in pinned' /\ cache'[d] # None
    BY <1>t, <1>u, <2>1
  <2>4. \A k \in 1 .. Len(lh) : Dirty(lh[k]) => cache'[lh[k]] = cache[lh[k]]
    BY <1>u, <2>1
  <2>5. /\ phase = "write" => \A k \in 1 .. tail - 1 : Dirty(lh[k])
        /\ phase = "head" => \A k \in 1 .. Len(lh) : Dirty(lh[k])
        /\ phase = "install" => \A k \in tail .. Len(lh) : Dirty(lh[k])
    BY <1>u, <1>v DEF TailInv
  <2> HIDE DEF Dirty, Clean
  <2>6. phase' = "write" => \A k \in 1 .. tail' - 1 : logd'[k] = cache'[lh'[k]]
    BY <1>t, <1>u, <1>v, <2>1, <2>4, <2>5 DEF TailInv
  <2>7. phase' = "head" => \A k \in 1 .. Len(lh') : logd'[k] = cache'[lh'[k]]
    BY <1>t, <1>u, <2>1, <2>4, <2>5
  <2>8. phase' = "install" => \A k \in tail' .. Len(lh') : logd'[k] = cache'[lh'[k]]
    BY <1>t, <1>u, <2>1, <2>4, <2>5
  <2> QED
    BY <1>t, <2>1, <2>2, <2>3, <2>6, <2>7, <2>8
<1>7. CASE WriteLog
  <2>1. tail \in 1 .. Len(lh) /\ lh[tail] \in Block /\ Dirty(lh[tail])
    BY <1>7, <1>u, <1>v DEF WriteLog, TailInv
  <2>2. logd' = [logd EXCEPT ![tail] = cache[lh[tail]]] /\ tail \in 1 .. LOGSIZE
    <3>1. cache[lh[tail]] # None
      BY <1>t, <2>1
    <3> QED
      BY <1>7, <1>u, <2>1, <3>1 DEF WriteLog, Contents
  <2>3. \A k \in 1 .. tail : logd'[k] = cache[lh[k]]
    BY <1>7, <1>t, <1>u, <2>1, <2>2 DEF WriteLog
  <2>4. CASE tail < Len(lh)
    BY <1>7, <1>t, <1>u, <2>3, <2>4 DEF WriteLog
  <2>5. CASE ~(tail < Len(lh))
    BY <1>7, <1>t, <1>u, <2>1, <2>3, <2>5 DEF WriteLog
  <2> QED
    BY <2>4, <2>5
<1>8. CASE WriteHead
  BY <1>8, <1>t, <1>u, <1>v DEF WriteHead, TailInv
<1>9. CASE Install
  <2>0. tail \in 1 .. Len(lh) /\ tail \in 1 .. LOGSIZE
    BY <1>9, <1>u, <1>v DEF Install, TailInv
  <2>1. PICK c \in Block : c = lh[tail]
    BY <1>u, <2>0
  <2>2. \A k \in 1 .. Len(lh) : k # tail => lh[k] # c
    BY <1>t, <1>u, <2>0, <2>1 DEF HeaderInv, Distinct
  <2>3. /\ home' = [home EXCEPT ![c] = logd[tail]]
        /\ cache' = [cache EXCEPT ![c] = logd[tail]]
        /\ pinned' = pinned \ {c} /\ UNCHANGED <<lh, logd>>
    BY <1>9, <2>1 DEF Install
  <2>4. \A b \in Block \ {c} : cache'[b] = cache[b] /\ home'[b] = home[b]
    BY <1>u, <2>3
  <2>5. cache'[c] = home'[c] /\ cache'[c] \in Val
    BY <1>u, <2>0, <2>1, <2>3
  <2>6. \A k \in 1 .. tail : logd'[k] = home'[lh'[k]]
    BY <1>9, <1>t, <1>u, <2>0, <2>1, <2>2, <2>3, <2>4 DEF Install
  <2>7. CASE tail < Len(lh)
    <3>1. phase' = "install" /\ tail' = tail + 1 /\ phase = "install"
      BY <1>9, <2>7 DEF Install
    <3>2. \A b \in Block : Dirty(b)' <=> Dirty(b) /\ b # c
      BY <1>u, <2>0, <2>1, <2>2, <2>3, <3>1
    <3>3. \A b \in Block : (Clean(b) \/ Dirty(b))'
      <4>1. ASSUME NEW b \in Block, b # c PROVE (Clean(b) \/ Dirty(b))'
        BY <1>t, <2>4, <3>2, <4>1
      <4> QED
        BY <2>5, <4>1
    <3>4. \A b \in Block : Dirty(b)' => b \in pinned' /\ cache'[b] # None
      BY <1>t, <2>3, <2>4, <3>2
    <3>5. \A k \in tail' .. Len(lh') : logd'[k] = cache'[lh'[k]]
      BY <1>t, <1>u, <2>0, <2>1, <2>2, <2>3, <2>4, <3>1
    <3> QED
      BY <2>6, <3>1, <3>3, <3>4, <3>5, <1>u
  <2>8. CASE ~(tail < Len(lh))
    <3>1. phase' = "clear" /\ tail = Len(lh) /\ phase = "install"
      BY <1>9, <1>u, <2>0, <2>1, <2>8 DEF Install
    <3>2. \A b \in Block : Dirty(b) => b = c
      BY <1>u, <2>0, <2>1, <3>1
    <3>3. \A b \in Block : Clean(b)'
      BY <1>t, <2>4, <2>5, <3>2
    <3> QED
      BY <2>3, <2>6, <3>1, <3>3
  <2> QED
    BY <2>7, <2>8
<1>10. CASE Clear
  BY <1>10, <1>t, <1>u DEF Clear
<1>11. CASE Crash
  BY <1>11, <1>t DEF Crash
<1>12. CASE ReadHead
  <2>1. phase = "boot" /\ tail = 1 /\ tail' = tail /\ lh' = head
    BY <1>12, <1>v DEF ReadHead, TailInv
  <2>2. CASE head = <<>>
    BY <1>12, <1>t, <2>1, <2>2 DEF ReadHead
  <2>3. CASE head # <<>>
    BY <1>12, <1>t, <2>1, <2>3 DEF ReadHead
  <2> QED
    BY <2>2, <2>3
<1>13. CASE Replay
  <2>0. tail \in 1 .. Len(lh) /\ tail \in 1 .. LOGSIZE
    BY <1>13, <1>u, <1>v DEF Replay, TailInv
  <2>1. PICK c \in Block : c = lh[tail]
    BY <1>u, <2>0
  <2>2. \A k \in 1 .. Len(lh) : k # tail => lh[k] # c
    BY <1>t, <1>u, <2>0, <2>1 DEF HeaderInv, Distinct
  <2>3. /\ home' = [home EXCEPT ![c] = logd[tail]]
        /\ cache' = [cache EXCEPT ![c] = logd[tail]]
        /\ UNCHANGED <<lh, logd>>
    BY <1>13, <2>1 DEF Replay
  <2>4. \A b \in Block : Clean(b)'
    BY <1>13, <1>t, <1>u, <2>0, <2>1, <2>3 DEF Replay
  <2>5. \A k \in 1 .. tail : logd'[k] = home'[lh'[k]]
    BY <1>13, <1>t, <1>u, <2>0, <2>1, <2>2, <2>3 DEF Replay
  <2>6. CASE tail < Len(lh)
    BY <1>13, <1>u, <2>4, <2>5, <2>6 DEF Replay
  <2>7. CASE ~(tail < Len(lh))
    BY <1>13, <1>u, <2>0, <2>1, <2>3, <2>4, <2>5, <2>7 DEF Replay
  <2> QED
    BY <2>6, <2>7
<1>14. CASE Reset
  BY <1>14, <1>t DEF Reset
<1>15. CASE UNCHANGED vars
  BY <1>1, <1>15 DEF vars
<1> QED
  BY <1>2, <1>3, <1>4, <1>5, <1>6, <1>7, <1>8, <1>9, <1>10, <1>11, <1>12, <1>13,
     <1>14, <1>15 DEF Next, OpStep, CommitStep, Recover

\* The disk invariant holds in every reachable state.
THEOREM DiskInvariance == Spec => []DiskInv
<1>1. DiskInv /\ [Next]_vars => DiskInv'
  <2>1. IInv /\ [Next]_vars => IInv'
    BY TypeStep, QuietStep, SpaceStep DEF IInv
  <2> QED
    BY <2>1, HeaderStep, BufferStep DEF DiskInv
<1> QED
  BY InitDiskInv, <1>1, PTL DEF Spec

----------------------------------------------------------------------------
(***************************************************************************)
(* begin_op() and end_op(): sleep and wakeup.                              *)
(***************************************************************************)

\* Nobody sleeps on &log when there is nobody to wake it, provided that an
\* empty log has room for one call (param.h: LOGSIZE is MAXOPBLOCKS*3).
THEOREM NoStrandedSleeper ==
  ASSUME MAXOPBLOCKS <= LOGSIZE
  PROVE  Spec => []SleeperHasWaker
<1>1. Init => SleeperHasWaker
  BY DEF Init, SleeperHasWaker
<1>2. DiskInv /\ SleeperHasWaker /\ [Next]_vars => SleeperHasWaker'
  <2> SUFFICES ASSUME DiskInv, SleeperHasWaker, [Next]_vars
               PROVE  SleeperHasWaker'
    OBVIOUS
  <2>t. TypeOK /\ QuietInv /\ CountInv /\ HeaderInv
    BY DEF DiskInv, IInv
  <2> USE DEF SleeperHasWaker, TypeOK, opvars, bufvars, diskvars, comvars
  <2>1. ASSUME NEW o \in Op, BeginSleep(o) PROVE SleeperHasWaker'
    <3>1. ASSUME outstanding = 0, ~committing PROVE FALSE
      <4>1. Active = {}
        BY <2>t, <3>1, Finite, FS_EmptySet DEF CountInv
      <4>2. phase = "none"
        BY <2>1, <2>t, <3>1 DEF BeginSleep, QuietInv, Booting, Committing, Phases
      <4>3. Len(lh) = 0
        BY <2>t, <4>1, <4>2 DEF HeaderInv
      <4> QED
        BY <2>1, <3>1, <4>3 DEF BeginSleep, MustWait, Reserved
    <3> QED
      BY <2>1, <2>t, <3>1 DEF BeginSleep
  <2>2. ASSUME NEW o \in Op, Call(o) \/ BeginOp(o) \/ Kill(o)
        PROVE  SleeperHasWaker'
    BY <2>2, <2>t DEF Call, BeginOp, Kill
  <2>3. ASSUME NEW o \in Op, EndOp(o) \/ EndCommit(o) PROVE SleeperHasWaker'
    <3>1. \A u \in Op : op'[u] # "asleep"
      BY <2>3, <2>t DEF EndOp, EndCommit, Awake
    <3> QED
      BY <3>1
  <2>4. ASSUME NEW o \in Op, EndOpCommit(o) PROVE SleeperHasWaker'
    BY <2>4 DEF EndOpCommit
  <2>5. ASSUME NEW o \in Op, NEW b \in Block, NEW v \in Val, LogWrite(o, b, v)
        PROVE  SleeperHasWaker'
    BY <2>5 DEF LogWrite
  <2>6. ASSUME NEW b \in Block, Read(b) \/ Evict(b) PROVE SleeperHasWaker'
    BY <2>6 DEF Read, Evict
  <2>7. CASE CommitStep \/ Recover
    BY <2>7 DEF CommitStep, Recover, WriteLog, WriteHead, Install, Clear,
       ReadHead, Replay, Reset
  <2>8. CASE Crash
    BY <2>8 DEF Crash
  <2>9. CASE UNCHANGED vars
    BY <2>9 DEF vars
  <2> QED
    BY <2>1, <2>2, <2>3, <2>4, <2>5, <2>6, <2>7, <2>8, <2>9 DEF Next, OpStep
<1> QED
  BY DiskInvariance, <1>1, <1>2, PTL DEF Spec

----------------------------------------------------------------------------
(***************************************************************************)
(* The log implements AtomicDisk.                                          *)
(***************************************************************************)

\* What recovery makes of home blocks h, log blocks l and header s.
Overlay(h, l, s) ==
  [b \in Block |-> IF \E i \in 1 .. Len(s) : s[i] = b
                   THEN l[CHOOSE i \in 1 .. Len(s) : s[i] = b]
                   ELSE h[b]]

\* A block is read from its one place in the log, or from home.
LEMMA OverlayAt ==
  ASSUME NEW h, NEW l, NEW s \in Seq(Block), Distinct(s)
  PROVE  /\ \A k \in 1 .. Len(s) : Overlay(h, l, s)[s[k]] = l[k]
         /\ \A b \in Block :
              (\A k \in 1 .. Len(s) : s[k] # b) => Overlay(h, l, s)[b] = h[b]
<1>1. ASSUME NEW k \in 1 .. Len(s) PROVE Overlay(h, l, s)[s[k]] = l[k]
  <2> DEFINE c == CHOOSE i \in 1 .. Len(s) : s[i] = s[k]
  <2>1. c \in 1 .. Len(s) /\ s[c] = s[k]
    OBVIOUS
  <2>2. c = k
    BY <2>1 DEF Distinct
  <2>3. s[k] \in Block
    OBVIOUS
  <2>4. Overlay(h, l, s)[s[k]] = l[c]
    BY <2>3 DEF Overlay
  <2> QED
    BY <2>2, <2>4
<1>2. ASSUME NEW b \in Block, \A k \in 1 .. Len(s) : s[k] # b
      PROVE  Overlay(h, l, s)[b] = h[b]
  BY <1>2 DEF Overlay
<1> QED
  BY <1>1, <1>2

\* Two disks that recovery makes the same of.
LEMMA OverlaySame ==
  ASSUME NEW h, NEW l, NEW s, NEW g, NEW m, NEW t,
         \A b \in Block : Overlay(h, l, s)[b] = Overlay(g, m, t)[b]
  PROVE  Overlay(h, l, s) = Overlay(g, m, t)
BY DEF Overlay

\* An empty header leaves the home blocks as they are.
LEMMA OverlayEmpty ==
  ASSUME NEW h \in [Block -> Val], NEW l
  PROVE  Overlay(h, l, <<>>) = h
BY DEF Overlay

\* A log that is installed changes nothing when it is replayed.
LEMMA OverlayInstalled ==
  ASSUME NEW h \in [Block -> Val], NEW l, NEW s \in Seq(Block), Distinct(s),
         \A k \in 1 .. Len(s) : l[k] = h[s[k]]
  PROVE  Overlay(h, l, s) = h
<1>1. ASSUME NEW b \in Block PROVE Overlay(h, l, s)[b] = h[b]
  <2>1. CASE \E k \in 1 .. Len(s) : s[k] = b
    BY <2>1, OverlayAt
  <2>2. CASE \A k \in 1 .. Len(s) : s[k] # b
    BY <2>2, OverlayAt
  <2> QED
    BY <2>1, <2>2
<1> QED
  BY <1>1 DEF Overlay

\* Nor does it matter what the home blocks of the blocks in the log are.
LEMMA OverlayInstall ==
  ASSUME NEW h, NEW g, NEW l, NEW s \in Seq(Block), Distinct(s),
         \A b \in Block : (\A j \in 1 .. Len(s) : s[j] # b) => g[b] = h[b]
  PROVE  Overlay(g, l, s) = Overlay(h, l, s)
<1>1. ASSUME NEW b \in Block PROVE Overlay(g, l, s)[b] = Overlay(h, l, s)[b]
  <2>1. CASE \E j \in 1 .. Len(s) : s[j] = b
    BY <2>1, OverlayAt
  <2>2. CASE \A j \in 1 .. Len(s) : s[j] # b
    BY <2>2, OverlayAt
  <2> QED
    BY <2>1, <2>2
<1> QED
  BY <1>1, OverlaySame

\* Initially all three disks are the one that mkfs made.
LEMMA AbsInit == Init => Abs!Init
<1> SUFFICES ASSUME Init PROVE Abs!Init
  OBVIOUS
<1>1. home = [b \in Block |-> InitVal] /\ head = <<>> /\ Up
  BY DEF Init, Up
<1>2. Durable = home
  <2>1. Durable = Overlay(home, logd, head)
    BY DEF Durable, Overlay
  <2>2. home \in [Block -> Val]
    BY <1>1
  <2> QED
    BY <1>1, <2>1, <2>2, OverlayEmpty
<1>3. Seen = home
  BY <1>1 DEF Seen, Contents, Init
<1>4. {o \in Op : op[o] = "active"} = {}
  BY DEF Init
<1> QED
  BY <1>1, <1>2, <1>3, <1>4 DEF Abs!Init

\* Every step of the log is a step of the atomic disk or leaves it alone.
LEMMA AbsStep == DiskInv /\ DiskInv' /\ [Next]_vars => [Abs!Next]_(Abs!vars)
<1> SUFFICES ASSUME DiskInv, DiskInv', [Next]_vars
             PROVE  [Abs!Next]_(Abs!vars)
  OBVIOUS
<1>t. TypeOK /\ TailInv /\ QuietInv /\ HeaderInv /\ BufferInv
  BY DEF DiskInv, IInv
<1>u. TypeOK' /\ HeaderInv' /\ BufferInv'
  BY DEF DiskInv, IInv
<1>d. /\ Durable = Overlay(home, logd, head)
      /\ Durable' = Overlay(home', logd', head')
  BY DEF Durable, Overlay
<1>a. Active = {o \in Op : op[o] = "active"}
  BY DEF Active
<1> USE DEF opvars, bufvars, diskvars, comvars
<1>1. ASSUME UNCHANGED <<home, logd, head>> PROVE Durable' = Durable
  BY <1>1, <1>d
<1>2. ASSUME UNCHANGED <<home, logd, head, cache>>, Up' <=> Up
      PROVE  Seen' = Seen
  BY <1>2, <1>1 DEF Seen, Contents
<1>3. ASSUME UNCHANGED <<Durable, Seen, op>> PROVE UNCHANGED Abs!vars
  BY <1>3 DEF Abs!vars
<1>4. ASSUME NEW o \in Op, \/ Call(o) \/ BeginSleep(o) \/ Kill(o)
                           \/ EndCommit(o)
      PROVE  UNCHANGED Abs!vars
  <2>1. UNCHANGED <<home, logd, head, cache>> /\ (Up' <=> Up)
    BY <1>4 DEF Call, BeginSleep, Kill, EndCommit, Up
  <2>2. Active' = Active
    BY <1>4, <1>t DEF Call, BeginSleep, Kill, EndCommit, Awake, Active, TypeOK
  <2> QED
    BY <1>1, <1>2, <1>a, <2>1, <2>2 DEF Abs!vars, Active
<1>5. ASSUME NEW o \in Op, BeginOp(o) PROVE Abs!Begin(o)
  <2>1. UNCHANGED <<home, logd, head, cache>> /\ (Up' <=> Up)
    BY <1>5 DEF BeginOp, Up
  <2>2. Active' = Active \union {o} /\ o \notin Active
    BY <1>5, <1>t DEF BeginOp, Active, TypeOK
  <2> QED
    BY <1>1, <1>2, <2>1, <2>2 DEF Abs!Begin, Active
<1>6. ASSUME NEW o \in Op, EndOp(o) \/ EndOpCommit(o) PROVE Abs!End(o)
  <2>1. phase = "none"
    BY <1>6, <1>t DEF EndOp, EndOpCommit, QuietInv, Active
  <2>2. UNCHANGED <<home, logd, head, cache>> /\ (Up' <=> Up)
    BY <1>6, <2>1 DEF EndOp, EndOpCommit, Up
  <2>3. Active' = Active \ {o} /\ o \in Active
    BY <1>6, <1>t DEF EndOp, EndOpCommit, Awake, Active, TypeOK
  <2> QED
    BY <1>1, <1>2, <2>2, <2>3 DEF Abs!End, Active
<1>7. ASSUME NEW o \in Op, NEW b \in Block, NEW v \in Val, LogWrite(o, b, v)
      PROVE  Abs!Write(o, b, v)
  <2>1. phase = "none" /\ phase' = "none" /\ o \in Active
    BY <1>7, <1>t DEF LogWrite, QuietInv, Active
  <2>2. cache' = [cache EXCEPT ![b] = v] /\ UNCHANGED <<home, logd, head, op>>
    BY <1>7 DEF LogWrite
  <2>3. Seen' = [Seen EXCEPT ![b] = v]
    BY <1>t, <2>1, <2>2 DEF Seen, Up, Contents, TypeOK
  <2> QED
    BY <1>1, <2>1, <2>2, <2>3 DEF Abs!Write, Active
<1>8. ASSUME NEW b \in Block, Read(b) \/ Evict(b) PROVE UNCHANGED Abs!vars
  <2>1. UNCHANGED <<home, logd, head, op, phase>> /\ (Up' <=> Up)
    BY <1>8 DEF Read, Evict, Up
  <2>2. \A d \in Block : Contents(d)' = Contents(d)
    <3>1. CASE Read(b)
      BY <1>t, <3>1 DEF Read, Contents, TypeOK
    <3>2. CASE Evict(b)
      <4>1. cache[b] = home[b]
        BY <1>t, <3>2 DEF Evict, BufferInv, Clean
      <4> QED
        BY <1>t, <3>2, <4>1 DEF Evict, Contents, TypeOK
    <3> QED
      BY <1>8, <3>1, <3>2
  <2>3. Seen' = Seen
    BY <1>1, <2>1, <2>2 DEF Seen
  <2> QED
    BY <1>1, <1>3, <2>1, <2>3
<1>9. CASE WriteLog
  <2>1. /\ head = <<>> /\ head' = <<>> /\ Up /\ Up'
        /\ UNCHANGED <<home, cache, op>>
    BY <1>9, <1>t DEF WriteLog, HeaderInv, Up
  <2>2. Durable' = Durable
    BY <1>d, <1>t, <2>1, OverlayEmpty DEF TypeOK
  <2>3. Seen' = Seen
    BY <2>1 DEF Seen, Contents
  <2> QED
    BY <1>3, <2>1, <2>2, <2>3
<1>10. CASE WriteHead
  <2>1. /\ phase = "head" /\ phase' = "install" /\ head' = lh /\ Up /\ Up'
        /\ UNCHANGED <<home, cache, logd, op, lh>>
    BY <1>10 DEF WriteHead, Up
  <2>2. lh \in Seq(Block) /\ Distinct(lh)
    BY <1>t DEF TypeOK, HeaderInv
  <2>3. ASSUME NEW b \in Block PROVE Durable'[b] = Contents(b)
    <3>1. CASE \E k \in 1 .. Len(lh) : lh[k] = b
      <4>1. PICK k \in 1 .. Len(lh) : lh[k] = b
        BY <3>1
      <4>2. Durable'[b] = logd[k]
        BY <1>d, <2>1, <2>2, <4>1, OverlayAt
      <4>3. logd[k] = cache[b] /\ cache[b] # None
        BY <1>t, <2>1, <4>1 DEF BufferInv, Dirty, Logged
      <4> QED
        BY <4>2, <4>3 DEF Contents
    <3>2. CASE \A k \in 1 .. Len(lh) : lh[k] # b
      <4>1. Durable'[b] = home[b]
        BY <1>d, <2>1, <2>2, <3>2, OverlayAt
      <4>2. Clean(b)
        BY <1>t, <2>1, <3>2 DEF BufferInv, Dirty, Logged
      <4> QED
        BY <4>1, <4>2 DEF Contents, Clean
    <3> QED
      BY <3>1, <3>2
  <2>4. Durable' = Seen
    BY <2>1, <2>3 DEF Seen, Durable
  <2>5. Seen' = Seen
    BY <2>1 DEF Seen, Contents
  <2>6. Active = {}
    BY <1>t, <2>1 DEF QuietInv
  <2>7. Abs!Commit
    BY <2>1, <2>4, <2>5, <2>6 DEF Abs!Commit, Active
  <2> QED
    BY <2>7 DEF Abs!Next
<1>11. CASE Install
  <2>1. /\ phase = "install" /\ head = lh /\ head' = head /\ Up /\ Up'
        /\ UNCHANGED <<logd, op, lh>> /\ tail \in 1 .. Len(lh)
        /\ home' = [home EXCEPT ![lh[tail]] = logd[tail]]
        /\ cache' = [cache EXCEPT ![lh[tail]] = logd[tail]]
    BY <1>11, <1>t DEF Install, HeaderInv, TailInv, TypeOK, Up
  <2>2. lh \in Seq(Block) /\ Distinct(lh) /\ lh[tail] \in Block
    BY <1>t, <2>1 DEF TypeOK, HeaderInv
  <2>3. Durable' = Durable
    <3>1. \A b \in Block :
            (\A j \in 1 .. Len(lh) : lh[j] # b) => home'[b] = home[b]
      BY <1>t, <2>1 DEF TypeOK
    <3>2. Overlay(home', logd, lh) = Overlay(home, logd, lh)
      BY <2>2, <3>1, OverlayInstall
    <3> QED
      BY <1>d, <2>1, <3>2
  <2>4. logd[tail] = cache[lh[tail]] /\ cache[lh[tail]] # None
    BY <1>t, <2>1, <2>2 DEF BufferInv, Dirty, TypeOK
  <2>5. \A d \in Block : Contents(d)' = Contents(d)
    BY <1>t, <2>1, <2>2, <2>4 DEF Contents, TypeOK
  <2>6. Seen' = Seen
    BY <2>1, <2>5 DEF Seen
  <2> QED
    BY <1>3, <2>1, <2>3, <2>6
<1>12. CASE Clear
  <2>1. /\ phase = "clear" /\ head = lh /\ head' = <<>> /\ Up /\ Up'
        /\ UNCHANGED <<home, cache, logd, op>>
    BY <1>12, <1>t DEF Clear, HeaderInv, Up
  <2>2. Durable = home
    BY <1>d, <1>t, <2>1, OverlayInstalled DEF BufferInv, HeaderInv, TypeOK
  <2>3. Durable' = home
    BY <1>d, <1>t, <2>1, OverlayEmpty DEF TypeOK
  <2>4. Seen' = Seen
    BY <2>1 DEF Seen, Contents
  <2> QED
    BY <1>3, <2>1, <2>2, <2>3, <2>4
<1>13. CASE Crash
  <2>1. UNCHANGED <<home, logd, head>> /\ ~Up' /\ Active' = {}
    BY <1>13 DEF Crash, Up, Active
  <2>2. Seen' = Durable
    BY <1>1, <2>1 DEF Seen
  <2>3. Abs!Crash
    BY <1>1, <2>1, <2>2 DEF Abs!Crash, Active
  <2> QED
    BY <2>3 DEF Abs!Next
<1>14. CASE ReadHead
  <2>1. UNCHANGED <<home, logd, head, op>> /\ ~Up /\ ~Up'
    BY <1>14 DEF ReadHead, Up
  <2> QED
    BY <1>1, <1>3, <2>1 DEF Seen
<1>15. CASE Replay
  <2>1. /\ phase = "replay" /\ head = lh /\ head' = head /\ ~Up /\ ~Up'
        /\ UNCHANGED <<logd, op>> /\ tail \in 1 .. Len(lh)
        /\ home' = [home EXCEPT ![lh[tail]] = logd[tail]]
    BY <1>15, <1>t DEF Replay, HeaderInv, TailInv, TypeOK, Up
  <2>2. lh \in Seq(Block) /\ Distinct(lh)
    BY <1>t DEF TypeOK, HeaderInv
  <2>3. Durable' = Durable
    <3>1. \A b \in Block :
            (\A j \in 1 .. Len(lh) : lh[j] # b) => home'[b] = home[b]
      BY <1>t, <2>1 DEF TypeOK
    <3>2. Overlay(home', logd, lh) = Overlay(home, logd, lh)
      BY <2>2, <3>1, OverlayInstall
    <3> QED
      BY <1>d, <2>1, <3>2
  <2> QED
    BY <1>3, <2>1, <2>3 DEF Seen
<1>16. CASE Reset
  <2>1. /\ phase = "reset" /\ head = lh /\ head' = <<>> /\ ~Up /\ Up'
        /\ UNCHANGED <<home, cache, logd, op>>
    BY <1>16, <1>t DEF Reset, HeaderInv, Up
  <2>2. Durable = home
    BY <1>d, <1>t, <2>1, OverlayInstalled DEF BufferInv, HeaderInv, TypeOK
  <2>3. Durable' = home
    BY <1>d, <1>t, <2>1, OverlayEmpty DEF TypeOK
  <2>4. \A b \in Block : Contents(b)' = home[b]
    BY <1>t, <2>1 DEF BufferInv, Clean, Dirty, Contents
  <2>5. Seen' = Seen
    BY <1>t, <2>1, <2>2, <2>4 DEF Seen, TypeOK
  <2> QED
    BY <1>3, <2>1, <2>2, <2>3, <2>5
<1>17. CASE UNCHANGED vars
  <2>1. UNCHANGED <<home, logd, head, cache, op>> /\ (Up' <=> Up)
    BY <1>17 DEF vars, Up
  <2> QED
    BY <1>1, <1>2, <1>3, <2>1
<1> QED
  BY <1>4, <1>5, <1>6, <1>7, <1>8, <1>9, <1>10, <1>11, <1>12, <1>13, <1>14,
     <1>15, <1>16, <1>17 DEF Next, OpStep, CommitStep, Recover, Abs!Next

\* log.c: a crash at any point, during recovery too, leaves every committed call
\* whole and none in part; eviction, absorption and the order of the block
\* writes never show.
THEOREM LogImplementsAtomicDisk == Spec => ImplementsAtomicDisk
BY DiskInvariance, AbsInit, AbsStep, PTL
   DEF Spec, ImplementsAtomicDisk, Abs!Spec
=============================================================================
