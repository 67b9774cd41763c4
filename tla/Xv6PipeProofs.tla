---------------------------- MODULE Xv6PipeProofs ---------------------------
(***************************************************************************)
(* Proofs about Xv6Pipe, for every set of processes, every size of the     *)
(* ring and every width of the counters that is a multiple of it.          *)
(***************************************************************************)
EXTENDS Xv6Pipe, Integers, SequenceTheorems, TLAPS

LockPCs == {"write", "wfull", "rtest", "rempty", "read"}
ReaderPCs == {"rcall", "rtest", "rempty", "rsleep", "read"}
WriterPCs == {"wcall", "write", "wfull", "wsleep"}
ClosingRead(p) == pc[p] \in {"cread", "xread"}
ClosingWrite(p) == pc[p] \in {"cwrite", "xwrite"}

\* pi->lock is held exactly where the code of its holder says.
LockHeld == \A p \in Proc : pc[p] \in LockPCs <=> lock = p

\* A process in piperead() or pipewrite() has the descriptor it came with.
FdsHeld == \A p \in Proc : /\ pc[p] \in ReaderPCs => p \in rfd
                           /\ pc[p] \in WriterPCs => p \in wfd

\* An end is open as long as somebody has a descriptor of it, and until the
\* one process that closed the last one is through with pipeclose().
ReadEnd ==
  /\ rfd # {} => readopen
  /\ \A p \in Proc : ClosingRead(p) => rfd = {} /\ readopen
  /\ \A p, q \in Proc : ClosingRead(p) /\ ClosingRead(q) => p = q
WriteEnd ==
  /\ wfd # {} => writeopen
  /\ \A p \in Proc : ClosingWrite(p) => wfd = {} /\ writeopen
  /\ \A p, q \in Proc : ClosingWrite(p) /\ ClosingWrite(q) => p = q

\* The page goes with the second end.
FreedInv == freed <=> ~readopen /\ ~writeopen

\* The ring never holds more than it has room for.
Occ(w, r) == (w + UINT - r) % UINT
CountInv == Occ(nwrite, nread) <= PIPESIZE

\* A writer that is about to sleep has seen the ring full, and from then on it
\* is full unless a reader, who wakes the writer when done, is at it.
WaitInv ==
  /\ \A p \in Proc : At(p, "wfull") => Full /\ readopen
  /\ (\E p \in Proc : At(p, "wsleep")) =>
       readopen /\ (Full \/ \E q \in Proc : At(q, "read"))

\* A reader that has come past its while and has read nothing finds a byte or
\* the write end closed.
ReadInv == \A p \in Proc :
             At(p, "read") /\ i[p] = 0 /\ Empty => ~writeopen

\* The inductive invariant.
Control == LockHeld /\ FdsHeld /\ ReadEnd /\ WriteEnd /\ FreedInv
Data == CountInv /\ WaitInv /\ ReadInv /\ EofIsFinal
IInv == TypeOK /\ Control /\ Data
----------------------------------------------------------------------------
(***************************************************************************)
(* The arithmetic of the ring.                                             *)
(***************************************************************************)

\* The counters are wider than the ring.
LEMMA Width == PIPESIZE \in Nat /\ PIPESIZE > 0 /\ UINT \in Nat /\ PIPESIZE < UINT
<1> PICK k \in 2 .. UINT : UINT = k * PIPESIZE
  BY WidthAssumption
<1> QED
  BY WidthAssumption

\* nread++ and nwrite++ count up and start again at 0.
LEMMA IncValue ==
  ASSUME NEW k \in 0 .. UINT - 1
  PROVE  Inc(k) = IF k = UINT - 1 THEN 0 ELSE k + 1
<1>1. k + 1 \in 0 .. 2 * UINT - 1 /\ UINT \in Nat \ {0}
  BY Width
<1>2. (k + 1) % UINT = IF k + 1 < UINT THEN k + 1 ELSE k + 1 - UINT
  BY <1>1
<1> QED
  BY <1>2, Width DEF Inc

\* The number of bytes in the ring, from the two counters.
LEMMA OccValue ==
  ASSUME NEW w \in 0 .. UINT - 1, NEW r \in 0 .. UINT - 1
  PROVE  /\ Occ(w, r) = IF w >= r THEN w - r ELSE w + UINT - r
         /\ Occ(w, r) \in 0 .. UINT - 1
<1>1. w + UINT - r \in 0 .. 2 * UINT - 1 /\ UINT \in Nat \ {0}
  BY Width
<1>2. Occ(w, r) = IF w + UINT - r < UINT THEN w + UINT - r
                  ELSE w + UINT - r - UINT
  BY <1>1 DEF Occ
<1> QED
  BY <1>2, Width

\* The tests of the code against the number of bytes in the ring.
LEMMA Tests ==
  ASSUME NEW w \in 0 .. UINT - 1, NEW r \in 0 .. UINT - 1
  PROVE  /\ r = w <=> Occ(w, r) = 0
         /\ w = (r + PIPESIZE) % UINT <=> Occ(w, r) = PIPESIZE
<1>1. r + PIPESIZE \in 0 .. 2 * UINT - 1 /\ UINT \in Nat \ {0}
  BY Width
<1>2. (r + PIPESIZE) % UINT = IF r + PIPESIZE < UINT THEN r + PIPESIZE
                              ELSE r + PIPESIZE - UINT
  <2>1. CASE r + PIPESIZE < UINT
    BY <1>1, <2>1
  <2>2. CASE r + PIPESIZE >= UINT
    BY <1>1, <2>2, Width
  <2> QED
    BY <2>1, <2>2, Width
<1> QED
  <2>1. /\ Occ(w, r) = IF w >= r THEN w - r ELSE w + UINT - r
        /\ Occ(w, r) \in 0 .. UINT - 1
    BY OccValue
  <2> HIDE DEF Occ
  <2> DEFINE s == (r + PIPESIZE) % UINT
  <2>2. s = IF r + PIPESIZE < UINT THEN r + PIPESIZE
            ELSE r + PIPESIZE - UINT
    BY <1>2
  <2> HIDE DEF s
  <2>3. /\ r = w <=> Occ(w, r) = 0
        /\ w = s <=> Occ(w, r) = PIPESIZE
    BY <2>1, <2>2, Width
  <2> QED
    BY <2>3 DEF s

\* A byte more and a byte less, across the wrap of the counters.
LEMMA OccStep ==
  ASSUME NEW w \in 0 .. UINT - 1, NEW r \in 0 .. UINT - 1
  PROVE  /\ Inc(w) \in 0 .. UINT - 1
         /\ Occ(w, r) < PIPESIZE => Occ(Inc(w), r) = Occ(w, r) + 1
         /\ Occ(w, r) > 0 => Occ(w, Inc(r)) = Occ(w, r) - 1
<1>1. Inc(w) \in 0 .. UINT - 1 /\ Inc(r) \in 0 .. UINT - 1
  BY IncValue, Width
<1>2. /\ Occ(w, r) = IF w >= r THEN w - r ELSE w + UINT - r
      /\ Occ(Inc(w), r) = IF Inc(w) >= r THEN Inc(w) - r ELSE Inc(w) + UINT - r
      /\ Occ(w, Inc(r)) = IF w >= Inc(r) THEN w - Inc(r) ELSE w + UINT - Inc(r)
  BY <1>1, OccValue
<1> QED
  BY <1>1, <1>2, IncValue, Width

\* The same of the counters of the pipe: a byte that pipewrite() puts.
LEMMA PutCount ==
  ASSUME TypeOK, CountInv, ~Full
  PROVE  /\ Occ(Inc(nwrite), nread) = Occ(nwrite, nread) + 1
         /\ Occ(nwrite, nread) \in 0 .. PIPESIZE - 1
<1>1. nwrite \in 0 .. UINT - 1 /\ nread \in 0 .. UINT - 1
  BY DEF TypeOK
<1>2. Occ(nwrite, nread) # PIPESIZE
  BY <1>1, Tests DEF Full
<1>3. Occ(nwrite, nread) \in 0 .. PIPESIZE - 1
  BY <1>1, <1>2, OccValue, Width DEF CountInv
<1> QED
  BY <1>1, <1>3, OccStep, Width

\* And a byte that piperead() takes.
LEMMA GetCount ==
  ASSUME TypeOK, CountInv, ~Empty
  PROVE  /\ Occ(nwrite, Inc(nread)) = Occ(nwrite, nread) - 1
         /\ Occ(nwrite, nread) \in 1 .. PIPESIZE
<1>1. nwrite \in 0 .. UINT - 1 /\ nread \in 0 .. UINT - 1
  BY DEF TypeOK
<1>2. Occ(nwrite, nread) # 0
  BY <1>1, Tests DEF Empty
<1>3. Occ(nwrite, nread) \in 1 .. PIPESIZE
  BY <1>1, <1>2, OccValue, Width DEF CountInv
<1> QED
  BY <1>1, <1>3, OccStep

\* A byte's place in the ring does not change when its number wraps: this is
\* where the width of the counters has to be a multiple of the ring's.
LEMMA SlotWrap ==
  ASSUME NEW k \in Nat
  PROVE  Slot(k) \in 0 .. PIPESIZE - 1 /\ Slot(k + UINT) = Slot(k)
<1> PICK c \in 2 .. UINT : UINT = c * PIPESIZE
  BY WidthAssumption
<1> DEFINE r == k % PIPESIZE
           q == k \div PIPESIZE
<1>1. r \in 0 .. PIPESIZE - 1 /\ q \in Int /\ k = PIPESIZE * q + r
  BY Width
<1> HIDE DEF r, q
<1>2. (q + c) \in Int /\ k + UINT = PIPESIZE * (q + c) + r
  BY <1>1, Width
<1> DEFINE e == q + c
<1>3. e \in Int /\ k + UINT = PIPESIZE * e + r
  BY <1>2
<1> HIDE DEF e
<1>4. (PIPESIZE * e + r) % PIPESIZE = r
  BY <1>1, <1>3, Width
<1> QED
  BY <1>1, <1>3, <1>4 DEF Slot, r

\* Two bytes less than a ring apart have different places.
LEMMA SlotDistinct ==
  ASSUME NEW a \in Nat, NEW b \in Nat, a < b, b < a + PIPESIZE
  PROVE  Slot(a) # Slot(b)
<1> DEFINE r == a % PIPESIZE
           q == a \div PIPESIZE
           s == b % PIPESIZE
           t == b \div PIPESIZE
<1>1. r \in 0 .. PIPESIZE - 1 /\ q \in Int /\ a = PIPESIZE * q + r
  BY Width
<1>2. s \in 0 .. PIPESIZE - 1 /\ t \in Int /\ b = PIPESIZE * t + s
  BY Width
<1> HIDE DEF r, q, s, t
<1>3. ASSUME r = s PROVE FALSE
  <2>1. b - a = PIPESIZE * (t - q) /\ t - q \in Int
    BY <1>1, <1>2, <1>3, Width
  <2> DEFINE e == t - q
  <2>2. b - a = PIPESIZE * e /\ e \in Int
    BY <2>1
  <2> HIDE DEF e
  <2>3. CASE e <= 0
    BY <2>2, <2>3, Width
  <2>4. CASE e >= 1
    BY <2>2, <2>4, Width
  <2> QED
    BY <2>2, <2>3, <2>4
<1> QED
  BY <1>3 DEF Slot, r, s
----------------------------------------------------------------------------
(***************************************************************************)
(* The inductive invariant holds at first, and every step keeps it.             *)
(***************************************************************************)

\* An open pipe, empty, its two descriptors with First.
LEMMA InitIInv == Init => IInv
<1> SUFFICES ASSUME Init PROVE IInv
  OBVIOUS
<1> USE Width, ProcAssumption DEF Init
<1>1. TypeOK
  <2>1. readopen \in BOOLEAN /\ writeopen \in BOOLEAN
    OBVIOUS
  <2>2. freed \in BOOLEAN /\ zero \in SUBSET {"nothing", "fault"}
    OBVIOUS
  <2>3. pc \in [Proc -> PCs]
    BY DEF PCs
  <2> QED
    BY <2>1, <2>2, <2>3 DEF TypeOK
<1>2. LockHeld /\ FdsHeld /\ FreedInv
  BY DEF LockHeld, FdsHeld, FreedInv, LockPCs, ReaderPCs, WriterPCs
<1>3. ReadEnd /\ WriteEnd
  BY DEF ReadEnd, WriteEnd, ClosingRead, ClosingWrite
<1>4. CountInv
  BY Tests DEF CountInv
<1>5. WaitInv /\ ReadInv /\ EofIsFinal
  BY DEF WaitInv, ReadInv, EofIsFinal, At
<1> QED
  BY <1>1, <1>2, <1>3, <1>4, <1>5 DEF IInv, Control, Data

\* Every step keeps the types.
LEMMA TypeStep == TypeOK /\ [Next]_vars => TypeOK'
<1> SUFFICES ASSUME TypeOK, [Next]_vars PROVE TypeOK'
  OBVIOUS
<1> USE Width, ProcAssumption, SizesAssumption, VictimsAssumption DEF TypeOK, PCs,
       InPipe, pipevars, fdvars
<1>1. ASSUME NEW p \in Proc, WriteLock(p) PROVE TypeOK'
  BY <1>1 DEF WriteLock, Acquire, At, Goto
<1>2. ASSUME NEW p \in Proc, WriteFail(p) PROVE TypeOK'
  BY <1>2 DEF WriteFail, Return, At
<1>3. ASSUME NEW p \in Proc, WriteFull(p) PROVE TypeOK'
  BY <1>3 DEF WriteFull, Going, WakeReaders, Woken, At
<1>4. ASSUME NEW p \in Proc, WriteSleep(p) PROVE TypeOK'
  BY <1>4 DEF WriteSleep, Sleep, At, Goto
<1>5. ASSUME NEW p \in Proc, \E b \in Byte : WriteByte(p, b)
      PROVE  TypeOK'
  <2>1. PICK b \in Byte : WriteByte(p, b)
    BY <1>5
  <2>2. nwrite' \in 0 .. UINT - 1
    BY <2>1, OccStep DEF WriteByte
  <2>3. data' \in [0 .. PIPESIZE - 1 -> Byte \union {None}]
    BY <2>1 DEF WriteByte
  <2> QED
    BY SMTT(30), <2>1, <2>2, <2>3 DEF WriteByte
<1>6. ASSUME NEW p \in Proc, WriteDone(p) PROVE TypeOK'
  BY <1>6 DEF WriteDone, Return, WakeReaders, Woken, At
<1>7. ASSUME NEW p \in Proc, ReadLock(p) PROVE TypeOK'
  BY <1>7 DEF ReadLock, Acquire, At, Goto
<1>8. ASSUME NEW p \in Proc, ReadFail(p) PROVE TypeOK'
  BY <1>8 DEF ReadFail, Return, At
<1>9. ASSUME NEW p \in Proc, ReadEmpty(p) PROVE TypeOK'
  BY <1>9 DEF ReadEmpty, At, Goto
<1>10. ASSUME NEW p \in Proc, ReadSleep(p) PROVE TypeOK'
  BY <1>10 DEF ReadSleep, Sleep, At, Goto
<1>11. ASSUME NEW p \in Proc, ReadReady(p) PROVE TypeOK'
  BY <1>11 DEF ReadReady, At, Goto
<1>12. ASSUME NEW p \in Proc, ReadByte(p) PROVE TypeOK'
  <2>1. nread' \in 0 .. UINT - 1
    BY <1>12, OccStep DEF ReadByte
  <2>2. last' \in Byte \union {None}
    BY <1>12, SlotWrap DEF ReadByte
  <2>3. i' \in [Proc -> Nat]
    BY <1>12 DEF ReadByte
  <2> QED
    BY <1>12, <2>1, <2>2, <2>3 DEF ReadByte
<1>24. ASSUME NEW p \in Proc, ReadFault(p) PROVE TypeOK'
  <2>1. nread' \in 0 .. UINT - 1
    BY <1>24, OccStep DEF ReadFault
  <2>2. last' \in Byte \union {None}
    BY <1>24, SlotWrap DEF ReadFault
  <2>3. zero' \in SUBSET {"nothing", "fault"}
    BY <1>24 DEF ReadFault
  <2>4. /\ pc' \in [Proc -> PCs] /\ lock' \in Proc \union {None}
        /\ i' \in [Proc -> Nat] /\ n' \in [Proc -> Nat]
    BY <1>24 DEF ReadFault, Return, WakeWriters, Woken
  <2> QED
    BY <1>24, <2>1, <2>2, <2>3, <2>4 DEF ReadFault
<1>13. ASSUME NEW p \in Proc, ReadDone(p) PROVE TypeOK'
  <2>1. zero' \in SUBSET {"nothing", "fault"}
    BY <1>13 DEF ReadDone
  <2>2. /\ pc' \in [Proc -> PCs] /\ lock' \in Proc \union {None}
        /\ i' \in [Proc -> Nat] /\ n' \in [Proc -> Nat]
    BY <1>13 DEF ReadDone, Return, WakeWriters, Woken
  <2> QED
    BY <1>13, <2>1, <2>2 DEF ReadDone
<1>14. ASSUME NEW p \in Proc, PipeCloseRead(p) PROVE TypeOK'
  <2>1. readopen' \in BOOLEAN
    BY <1>14 DEF PipeCloseRead
  <2>2. freed' \in BOOLEAN
    BY <1>14 DEF PipeCloseRead, LastEnd
  <2>3. pc' \in [Proc -> PCs]
    BY <1>14 DEF PipeCloseRead, WakeWriters, Woken, Back
  <2> QED
    BY <1>14, <2>1, <2>2, <2>3 DEF PipeCloseRead
<1>15. ASSUME NEW p \in Proc, PipeCloseWrite(p) PROVE TypeOK'
  <2>1. writeopen' \in BOOLEAN
    BY <1>15 DEF PipeCloseWrite
  <2>2. freed' \in BOOLEAN
    BY <1>15 DEF PipeCloseWrite, LastEnd
  <2>3. pc' \in [Proc -> PCs]
    BY <1>15 DEF PipeCloseWrite, WakeReaders, Woken, Back
  <2> QED
    BY <1>15, <2>1, <2>2, <2>3 DEF PipeCloseWrite
<1>16. ASSUME NEW p \in Proc, \E size \in Sizes : Write(p, size) \/ Read(p, size)
      PROVE  TypeOK'
  <2>1. PICK size \in Sizes : Write(p, size) \/ Read(p, size)
    BY <1>16
  <2>2. PICK l \in PCs : Call(p, l, size)
    BY <2>1 DEF Write, Read
  <2>3. size \in Nat
    BY <2>1
  <2> QED
    BY <2>2, <2>3 DEF Call, Goto
<1>17. ASSUME NEW p \in Proc, \E q \in Proc : Fork(p, q) PROVE TypeOK'
  BY <1>17 DEF Fork, Trap, At, Goto
<1>18. ASSUME NEW p \in Proc, CloseRead(p) PROVE TypeOK'
  BY <1>18 DEF CloseRead, Trap, At
<1>19. ASSUME NEW p \in Proc, CloseWrite(p) PROVE TypeOK'
  BY <1>19 DEF CloseWrite, Trap, At
<1>20. ASSUME NEW p \in Proc, Exit(p) PROVE TypeOK'
  BY <1>20 DEF Exit, At, Goto
<1>21. ASSUME NEW p \in Proc, Dead(p) PROVE TypeOK'
  BY <1>21 DEF Dead, At, Goto
<1>22. ASSUME NEW p \in Proc, Kill(p) PROVE TypeOK'
  BY <1>22 DEF Kill
<1>23. CASE UNCHANGED vars
  BY <1>23 DEF vars, pipevars, fdvars
<1> QED
  BY <1>1, <1>2, <1>3, <1>4, <1>5, <1>6, <1>7, <1>8, <1>9, <1>10, <1>11,
     <1>12, <1>13, <1>14, <1>15, <1>16, <1>17, <1>18, <1>19, <1>20, <1>21,
     <1>22, <1>23, <1>24 DEF Next, KernelStep, UserStep

\* Every step keeps the order of locks, descriptors and ends.
LEMMA ControlStep == IInv /\ [Next]_vars => Control'
<1> SUFFICES ASSUME IInv, [Next]_vars PROVE Control'
  OBVIOUS
<1>t. TypeOK'
  BY TypeStep DEF IInv
<1> USE <1>t, ProcAssumption DEF IInv, TypeOK, Control, LockHeld, FdsHeld, ReadEnd,
       WriteEnd, FreedInv, ClosingRead, ClosingWrite, LockPCs, ReaderPCs,
       WriterPCs, pipevars, fdvars
<1>1. ASSUME NEW p \in Proc, WriteLock(p) PROVE Control'
  BY <1>1 DEF WriteLock, Acquire, At, Goto
<1>2. ASSUME NEW p \in Proc, WriteFail(p) PROVE Control'
  BY <1>2 DEF WriteFail, Return, At
<1>3. ASSUME NEW p \in Proc, WriteFull(p) PROVE Control'
  BY <1>3 DEF WriteFull, Going, WakeReaders, Woken, At
<1>4. ASSUME NEW p \in Proc, WriteSleep(p) PROVE Control'
  BY <1>4 DEF WriteSleep, Sleep, At, Goto
<1>5. ASSUME NEW p \in Proc, \E b \in Byte : WriteByte(p, b)
      PROVE  Control'
  BY <1>5 DEF WriteByte, Going, At
<1>6. ASSUME NEW p \in Proc, WriteDone(p) PROVE Control'
  BY <1>6 DEF WriteDone, Return, WakeReaders, Woken, At
<1>7. ASSUME NEW p \in Proc, ReadLock(p) PROVE Control'
  BY <1>7 DEF ReadLock, Acquire, At, Goto
<1>8. ASSUME NEW p \in Proc, ReadFail(p) PROVE Control'
  BY <1>8 DEF ReadFail, Return, At
<1>9. ASSUME NEW p \in Proc, ReadEmpty(p) PROVE Control'
  BY <1>9 DEF ReadEmpty, At, Goto
<1>10. ASSUME NEW p \in Proc, ReadSleep(p) PROVE Control'
  BY <1>10 DEF ReadSleep, Sleep, At, Goto
<1>11. ASSUME NEW p \in Proc, ReadReady(p) PROVE Control'
  BY <1>11 DEF ReadReady, At, Goto
<1>12. ASSUME NEW p \in Proc, ReadByte(p) PROVE Control'
  BY <1>12 DEF ReadByte
<1>24. ASSUME NEW p \in Proc, ReadFault(p) PROVE Control'
  <2>1. UNCHANGED <<readopen, writeopen, freed, rfd, wfd>> /\ At(p, "read")
    BY <1>24 DEF ReadFault
  <2>2. Return(p, WakeWriters(pc))
    BY <1>24 DEF ReadFault
  <2> QED
    BY <2>1, <2>2 DEF Return, WakeWriters, Woken, At
<1>13. ASSUME NEW p \in Proc, ReadDone(p) PROVE Control'
  BY <1>13 DEF ReadDone, Return, WakeWriters, Woken, At
<1>14. ASSUME NEW p \in Proc, PipeCloseRead(p) PROVE Control'
  BY ZenonT(60), <1>14 DEF PipeCloseRead, WakeWriters, Woken, Back, LastEnd
<1>15. ASSUME NEW p \in Proc, PipeCloseWrite(p) PROVE Control'
  BY SMTT(30), <1>15 DEF PipeCloseWrite, WakeReaders, Woken, Back, LastEnd
<1>16. ASSUME NEW p \in Proc, \E size \in Sizes : Write(p, size) \/ Read(p, size)
      PROVE  Control'
  <2>1. PICK size \in Sizes : Write(p, size) \/ Read(p, size)
    BY <1>16
  <2>2. CASE Write(p, size)
    BY <2>2 DEF Write, Call, Trap, At, Goto
  <2>3. CASE Read(p, size)
    BY <2>3 DEF Read, Call, Trap, At, Goto
  <2> QED
    BY <2>1, <2>2, <2>3
<1>17. ASSUME NEW p \in Proc, \E q \in Proc : Fork(p, q) PROVE Control'
  BY <1>17 DEF Fork, Trap, At, Goto
<1>18. ASSUME NEW p \in Proc, CloseRead(p) PROVE Control'
  <2> USE DEF CloseRead, Trap, At
  <2>1. LockHeld' /\ FdsHeld' /\ FreedInv'
    BY <1>18
  <2>2. ReadEnd'
    BY <1>18
  <2>3. WriteEnd'
    BY SMTT(30), <1>18
  <2> QED
    BY <2>1, <2>2, <2>3
<1>19. ASSUME NEW p \in Proc, CloseWrite(p) PROVE Control'
  <2> USE DEF CloseWrite, Trap, At
  <2>1. LockHeld' /\ FdsHeld' /\ FreedInv'
    BY SMTT(30), <1>19
  <2>2. ReadEnd'
    BY SMTT(30), <1>19
  <2>3. WriteEnd'
    BY <1>19
  <2> QED
    BY <2>1, <2>2, <2>3
<1>20. ASSUME NEW p \in Proc, Exit(p) PROVE Control'
  BY <1>20 DEF Exit, At, Goto
<1>21. ASSUME NEW p \in Proc, Dead(p) PROVE Control'
  BY <1>21 DEF Dead, At, Goto
<1>22. ASSUME NEW p \in Proc, Kill(p) PROVE Control'
  BY <1>22 DEF Kill
<1>23. CASE UNCHANGED vars
  BY <1>23 DEF vars, pipevars, fdvars
<1> QED
  BY <1>1, <1>2, <1>3, <1>4, <1>5, <1>6, <1>7, <1>8, <1>9, <1>10, <1>11,
     <1>12, <1>13, <1>14, <1>15, <1>16, <1>17, <1>18, <1>19, <1>20, <1>21,
     <1>22, <1>23, <1>24 DEF Next, KernelStep, UserStep

\* Every step keeps what the counters say and what waiting relies on.
LEMMA DataStep == IInv /\ [Next]_vars => Data'
<1> SUFFICES ASSUME IInv, [Next]_vars PROVE Data'
  OBVIOUS
<1>t. TypeOK'
  BY TypeStep DEF IInv
<1> USE <1>t, ProcAssumption DEF IInv, TypeOK, Control, LockHeld, FdsHeld, Data,
       CountInv, WaitInv, ReadInv, EofIsFinal, Full, Empty, LockPCs, ReaderPCs,
       WriterPCs, At, pipevars, fdvars
<1>1. ASSUME NEW p \in Proc, WriteLock(p) PROVE Data'
  BY <1>1 DEF WriteLock, Acquire, At, Goto
<1>2. ASSUME NEW p \in Proc, WriteFail(p) PROVE Data'
  BY <1>2 DEF WriteFail, Return, At
<1>3. ASSUME NEW p \in Proc, WriteFull(p) PROVE Data'
  BY <1>3 DEF WriteFull, Going, WakeReaders, Woken, At
<1>4. ASSUME NEW p \in Proc, WriteSleep(p) PROVE Data'
  BY <1>4 DEF WriteSleep, Sleep, At, Goto
<1>5. ASSUME NEW p \in Proc, \E b \in Byte : WriteByte(p, b)
      PROVE  Data'
  <2>1. PICK b \in Byte : WriteByte(p, b)
    BY <1>5
  <2> USE DEF WriteByte, Going
  <2>2. CountInv'
    BY SMTT(30), <2>1, PutCount, Width
  <2>3. WaitInv'
    BY <2>1
  <2>4. ReadInv'
    BY <2>1
  <2>5. writeopen
    BY <2>1 DEF WriteEnd
  <2> QED
    BY <2>1, <2>2, <2>3, <2>4, <2>5
<1>6. ASSUME NEW p \in Proc, WriteDone(p) PROVE Data'
  BY <1>6 DEF WriteDone, Return, WakeReaders, Woken, At
<1>7. ASSUME NEW p \in Proc, ReadLock(p) PROVE Data'
  BY <1>7 DEF ReadLock, Acquire, At, Goto
<1>8. ASSUME NEW p \in Proc, ReadFail(p) PROVE Data'
  BY <1>8 DEF ReadFail, Return, At
<1>9. ASSUME NEW p \in Proc, ReadEmpty(p) PROVE Data'
  BY <1>9 DEF ReadEmpty, At, Goto
<1>10. ASSUME NEW p \in Proc, ReadSleep(p) PROVE Data'
  BY <1>10 DEF ReadSleep, Sleep, At, Goto
<1>11. ASSUME NEW p \in Proc, ReadReady(p) PROVE Data'
  <2> USE DEF ReadReady, Goto, MustWait, Return, WakeWriters, WakeReaders, Woken
  <2>1. WaitInv'
    BY <1>11
  <2>2. ReadInv'
    BY <1>11
  <2>3. CountInv' /\ EofIsFinal'
    BY <1>11
  <2> QED
    BY <2>1, <2>2, <2>3
<1>12. ASSUME NEW p \in Proc, ReadByte(p) PROVE Data'
  <2>1. CountInv'
    BY SMTT(30), <1>12, GetCount, Width DEF ReadByte
  <2>2. EofIsFinal'
    BY <1>12 DEF ReadByte
  <2>3. UNCHANGED <<pc, lock>> /\ i' = [i EXCEPT ![p] = @ + 1]
    BY <1>12 DEF ReadByte
  <2>4. readopen' /\ pc'[p] = "read" /\ i'[p] # 0
    BY <1>12, <2>3 DEF ReadByte, ReadEnd
  <2>5. \A q \in Proc : pc[q] \in LockPCs => q = p
    BY <1>12 DEF ReadByte
  <2>6. WaitInv'
    BY <2>3, <2>4, <2>5
  <2>7. ReadInv'
    BY <2>3, <2>4, <2>5
  <2> QED
    BY <2>1, <2>2, <2>6, <2>7
<1>24. ASSUME NEW p \in Proc, ReadFault(p) PROVE Data'
  <2>1. CountInv'
    BY SMTT(30), <1>24, GetCount, Width DEF ReadFault
  <2>2. EofIsFinal'
    BY <1>24 DEF ReadFault
  <2>3. \A q \in Proc : pc'[q] \notin {"wfull", "wsleep", "read"}
    BY <1>24 DEF ReadFault, Return, WakeWriters, Woken
  <2> QED
    BY <2>1, <2>2, <2>3
<1>13. ASSUME NEW p \in Proc, ReadDone(p) PROVE Data'
  <2>1. \A q \in Proc : pc'[q] \notin {"wfull", "wsleep", "read"}
    BY <1>13 DEF ReadDone, Return, WakeWriters, Woken
  <2>2. EofIsFinal'
    BY <1>13 DEF ReadDone
  <2> QED
    BY <1>13, <2>1, <2>2 DEF ReadDone
<1>14. ASSUME NEW p \in Proc, PipeCloseRead(p) PROVE Data'
  <2> USE DEF PipeCloseRead, Back, Return, WakeWriters, WakeReaders, Woken
  <2>1. WaitInv'
    BY <1>14
  <2>2. ReadInv'
    BY <1>14
  <2>3. CountInv' /\ EofIsFinal'
    BY <1>14
  <2> QED
    BY <2>1, <2>2, <2>3
<1>15. ASSUME NEW p \in Proc, PipeCloseWrite(p) PROVE Data'
  <2> USE DEF PipeCloseWrite, Back, Return, WakeWriters, WakeReaders, Woken
  <2>1. WaitInv'
    BY <1>15
  <2>2. ReadInv'
    BY <1>15
  <2>3. CountInv' /\ EofIsFinal'
    BY <1>15
  <2> QED
    BY <2>1, <2>2, <2>3
<1>16. ASSUME NEW p \in Proc, \E size \in Sizes : Write(p, size) \/ Read(p, size)
      PROVE  Data'
  BY <1>16 DEF Write, Read, Call, Trap, At, Goto
<1>17. ASSUME NEW p \in Proc, \E q \in Proc : Fork(p, q) PROVE Data'
  BY <1>17 DEF Fork, Trap, At, Goto
<1>18. ASSUME NEW p \in Proc, CloseRead(p) PROVE Data'
  BY <1>18 DEF CloseRead, Trap, At
<1>19. ASSUME NEW p \in Proc, CloseWrite(p) PROVE Data'
  BY <1>19 DEF CloseWrite, Trap, At
<1>20. ASSUME NEW p \in Proc, Exit(p) PROVE Data'
  BY <1>20 DEF Exit, At, Goto
<1>21. ASSUME NEW p \in Proc, Dead(p) PROVE Data'
  BY <1>21 DEF Dead, At, Goto
<1>22. ASSUME NEW p \in Proc, Kill(p) PROVE Data'
  <2> USE DEF Kill, Return, WakeWriters, WakeReaders, Woken
  <2>1. WaitInv'
    BY <1>22
  <2>2. ReadInv'
    BY <1>22
  <2>3. CountInv' /\ EofIsFinal'
    BY <1>22
  <2> QED
    BY <2>1, <2>2, <2>3
<1>23. CASE UNCHANGED vars
  BY <1>23 DEF vars, pipevars, fdvars
<1> QED
  BY <1>1, <1>2, <1>3, <1>4, <1>5, <1>6, <1>7, <1>8, <1>9, <1>10, <1>11,
     <1>12, <1>13, <1>14, <1>15, <1>16, <1>17, <1>18, <1>19, <1>20, <1>21,
     <1>22, <1>23, <1>24 DEF Next, KernelStep, UserStep
----------------------------------------------------------------------------
(***************************************************************************)
(* The theorems.                                                           *)
(***************************************************************************)

\* The inductive invariant holds in every reachable state.
THEOREM Invariance == Spec => []IInv
<1>1. IInv /\ [Next]_vars => IInv'
  BY TypeStep, ControlStep, DataStep DEF IInv
<1> QED
  BY InitIInv, <1>1, PTL DEF Spec

\* pipeclose(): the pipe is freed once, when nobody has a descriptor of it and
\* nobody is in a function of pipe.c.
THEOREM NoUseAfterFreeHolds == Spec => []NoUseAfterFree
<1>1. IInv => NoUseAfterFree
  <2> SUFFICES ASSUME IInv PROVE NoUseAfterFree
    OBVIOUS
  <2>1. ASSUME freed PROVE rfd = {} /\ wfd = {}
    BY <2>1 DEF IInv, Control, FreedInv, ReadEnd, WriteEnd
  <2>2. ASSUME freed, NEW p \in Proc PROVE pc[p] \notin InPipe
    BY <2>1, <2>2 DEF IInv, Control, FdsHeld, FreedInv, ReadEnd, WriteEnd,
       ClosingRead, ClosingWrite, ReaderPCs, WriterPCs, InPipe
  <2> QED
    BY <2>1, <2>2 DEF NoUseAfterFree, IInv
<1> QED
  BY Invariance, <1>1, PTL

\* piperead() that finds nothing to read returns 0 only at the end of the stream
\* (of the 0 after a failed copyout() nothing is said), and pipewrite() sleeps only
\* while the ring is full and somebody can still read.
THEOREM EndsAndWaitsHold == Spec => []EndsAndWaitsJustified
<1>1. IInv => EndsAndWaitsJustified
  BY ProcAssumption DEF IInv, Control, Data, LockHeld, WaitInv, LockPCs, At,
     EndsAndWaitsJustified, WriterSleepsOnlyIfFull
<1> QED
  BY Invariance, <1>1, PTL

----------------------------------------------------------------------------
(***************************************************************************)
(* The ring is a queue.                                                    *)
(***************************************************************************)

\* The bytes between two counters, as InFlight has them.
Ring(d, r, w) == [k \in 1 .. Occ(w, r) |-> d[Slot(r + k - 1)]]
Rings == [0 .. PIPESIZE - 1 -> Byte \union {None}]
Counters == 0 .. UINT - 1

\* The bytes in the ring are a sequence.
LEMMA RingSeq ==
  ASSUME NEW d \in Rings, NEW r \in Counters, NEW w \in Counters
  PROVE  /\ Ring(d, r, w) \in Seq(Byte \union {None})
         /\ Len(Ring(d, r, w)) = Occ(w, r)
         /\ \A k \in 1 .. Occ(w, r) : Ring(d, r, w)[k] = d[Slot(r + k - 1)]
<1> DEFINE m == Occ(w, r)
<1>1. m \in Nat
  BY OccValue, Width DEF Counters
<1> HIDE DEF m
<1>2. ASSUME NEW k \in 1 .. m
      PROVE  d[Slot(r + k - 1)] \in Byte \union {None}
  <2>1. r + k - 1 \in Nat
    BY <1>1, Width DEF Counters
  <2>2. Slot(r + k - 1) \in 0 .. PIPESIZE - 1
    BY <2>1, SlotWrap
  <2> QED
    BY <2>2 DEF Rings
<1>3. Ring(d, r, w) = [k \in 1 .. m |-> d[Slot(r + k - 1)]]
  BY DEF Ring, m
<1>4. Ring(d, r, w) \in [1 .. m -> Byte \union {None}]
  BY <1>2, <1>3
<1>5. Ring(d, r, w) \in Seq(Byte \union {None})
  BY <1>1, <1>4, IsASeq
<1>6. Len(Ring(d, r, w)) = m
  BY <1>1, <1>4, <1>5, LenProperties
<1> QED
  BY <1>3, <1>5, <1>6 DEF m

\* The place where pipewrite() puts a byte is the one that follows the bytes
\* in the ring.
LEMMA SlotOfWrite ==
  ASSUME NEW r \in Counters, NEW w \in Counters
  PROVE  Slot(w) = Slot(r + Occ(w, r))
<1>1. Occ(w, r) = IF w >= r THEN w - r ELSE w + UINT - r
  BY OccValue DEF Counters
<1>2. r + Occ(w, r) = w \/ r + Occ(w, r) = w + UINT
  BY <1>1, Width DEF Counters
<1>3. w \in Nat
  BY Width DEF Counters
<1> QED
  BY <1>2, <1>3, SlotWrap

\* pipewrite() of a byte appends it, and overwrites none that is in the ring.
LEMMA RingPut ==
  ASSUME NEW d \in Rings, NEW r \in Counters, NEW w \in Counters,
         NEW b \in Byte, Occ(w, r) \in 0 .. PIPESIZE - 1
  PROVE  Ring([d EXCEPT ![Slot(w)] = b], r, Inc(w)) = Append(Ring(d, r, w), b)
<1> DEFINE m == Occ(w, r)
           e == [d EXCEPT ![Slot(w)] = b]
           S == Byte \union {None}
           old == Ring(d, r, w)
           new == Ring(e, r, Inc(w))
<1>1. Inc(w) \in Counters /\ Occ(Inc(w), r) = m + 1
  BY OccStep, Width DEF Counters
<1>2. e \in Rings
  BY DEF Rings
<1>3. /\ old \in Seq(S) /\ Len(old) = m
      /\ \A k \in 1 .. m : old[k] = d[Slot(r + k - 1)]
  BY RingSeq
<1>4. /\ new \in Seq(S) /\ Len(new) = m + 1
      /\ \A k \in 1 .. m + 1 : new[k] = e[Slot(r + k - 1)]
  <2>1. PICK f \in Rings, v \in Counters : f = e /\ v = Inc(w) /\ Occ(v, r) = m + 1
    BY <1>1, <1>2
  <2> HIDE DEF e, m
  <2>2. /\ Ring(f, r, v) \in Seq(S) /\ Len(Ring(f, r, v)) = Occ(v, r)
        /\ \A k \in 1 .. Occ(v, r) : Ring(f, r, v)[k] = f[Slot(r + k - 1)]
    BY RingSeq
  <2> QED
    BY <2>1, <2>2
<1>5. /\ Append(old, b) \in Seq(S) /\ Len(Append(old, b)) = m + 1
      /\ \A k \in 1 .. m : Append(old, b)[k] = old[k]
      /\ Append(old, b)[m + 1] = b
  BY <1>3, AppendProperties
<1>6. r \in Nat /\ m \in Nat /\ m < PIPESIZE
  BY Width DEF Counters
<1>7. Slot(w) = Slot(r + m) /\ Slot(w) \in 0 .. PIPESIZE - 1
  BY <1>6, SlotOfWrite, SlotWrap
<1> HIDE DEF m, old, new
<1>8. ASSUME NEW k \in 1 .. m PROVE e[Slot(r + k - 1)] = d[Slot(r + k - 1)]
  <2>1. /\ r + k - 1 \in Nat /\ r + m \in Nat
        /\ r + k - 1 < r + m /\ r + m < r + k - 1 + PIPESIZE
    BY <1>6, Width
  <2>2. Slot(r + k - 1) # Slot(w)
    BY <2>1, <1>7, SlotDistinct
  <2>3. Slot(r + k - 1) \in 0 .. PIPESIZE - 1
    BY <2>1, SlotWrap
  <2> QED
    BY <2>2, <2>3 DEF Rings
<1>9. e[Slot(r + (m + 1) - 1)] = b
  <2>1. r + (m + 1) - 1 = r + m
    BY <1>6
  <2> QED
    BY <2>1, <1>7 DEF Rings
<1> HIDE DEF e
<1>10. ASSUME NEW k \in 1 .. m + 1 PROVE new[k] = Append(old, b)[k]
  <2>1. CASE k \in 1 .. m
    <3>1. new[k] = e[Slot(r + k - 1)]
      BY <1>4
    <3>2. Append(old, b)[k] = d[Slot(r + k - 1)]
      BY <2>1, <1>3, <1>5
    <3> QED
      BY <2>1, <3>1, <3>2, <1>8
  <2>2. CASE k = m + 1
    <3>1. new[m + 1] = e[Slot(r + (m + 1) - 1)]
      BY <2>2, <1>4
    <3> QED
      BY <2>2, <3>1, <1>5, <1>9
  <2>3. k \in 1 .. m \/ k = m + 1
    BY <1>6
  <2> QED
    BY <2>1, <2>2, <2>3
<1>11. new = Append(old, b)
  BY <1>4, <1>5, <1>10, SeqEqual
<1> QED
  BY <1>11 DEF new, old, e

\* piperead() of a byte takes the oldest one away.
LEMMA RingGet ==
  ASSUME NEW d \in Rings, NEW r \in Counters, NEW w \in Counters,
         Occ(w, r) \in 1 .. PIPESIZE
  PROVE  /\ Ring(d, r, w) # <<>>
         /\ Head(Ring(d, r, w)) = d[Slot(r)]
         /\ Ring(d, Inc(r), w) = Tail(Ring(d, r, w))
<1> DEFINE m == Occ(w, r)
           S == Byte \union {None}
           old == Ring(d, r, w)
           new == Ring(d, Inc(r), w)
<1>1. Inc(r) \in Counters /\ Occ(w, Inc(r)) = m - 1
  BY OccStep, Width DEF Counters
<1>2. /\ old \in Seq(S) /\ Len(old) = m
      /\ \A k \in 1 .. m : old[k] = d[Slot(r + k - 1)]
  BY RingSeq
<1>3. /\ new \in Seq(S) /\ Len(new) = m - 1
      /\ \A k \in 1 .. m - 1 : new[k] = d[Slot(Inc(r) + k - 1)]
  BY SMTT(30), <1>1, RingSeq
<1>4. r \in Nat /\ m \in Nat /\ m >= 1
  BY Width DEF Counters
<1> HIDE DEF m, old, new
<1>5. old # <<>>
  BY <1>2, <1>4, EmptySeq
<1>6. /\ Head(old) = old[1] /\ Tail(old) \in Seq(S) /\ Len(Tail(old)) = m - 1
      /\ \A k \in 1 .. m - 1 : Tail(old)[k] = old[k + 1]
  BY <1>2, <1>5, HeadTailProperties
<1>7. old[1] = d[Slot(r)]
  <2>1. 1 \in 1 .. m /\ r + 1 - 1 = r
    BY <1>4
  <2> QED
    BY <2>1, <1>2
<1>8. ASSUME NEW k \in 1 .. m - 1 PROVE new[k] = Tail(old)[k]
  <2>1. Slot(Inc(r) + k - 1) = Slot(r + (k + 1) - 1)
    <3>1. CASE r = UINT - 1
      <4>1. Inc(r) + k - 1 \in Nat /\ r + (k + 1) - 1 = (Inc(r) + k - 1) + UINT
        BY <3>1, <1>4, IncValue, Width DEF Counters
      <4> QED
        BY <4>1, SlotWrap
    <3>2. CASE r # UINT - 1
      <4>1. Inc(r) + k - 1 = r + (k + 1) - 1
        BY <3>2, <1>4, IncValue, Width DEF Counters
      <4> QED
        BY <4>1
    <3> QED
      BY <3>1, <3>2
  <2>2. k + 1 \in 1 .. m
    BY <1>4
  <2> QED
    BY <2>1, <2>2, <1>2, <1>3, <1>6
<1>9. new = Tail(old)
  BY <1>3, <1>6, <1>8, SeqEqual
<1> QED
  BY <1>5, <1>6, <1>7, <1>9 DEF old, new

----------------------------------------------------------------------------
(***************************************************************************)
(* The pipe implements ByteStream.                                         *)
(***************************************************************************)

\* The pipe of pipealloc() is an empty stream with both ends open.
LEMMA StreamInit == Init => Stream!Init
<1> SUFFICES ASSUME Init PROVE Stream!Init
  OBVIOUS
<1>1. nread \in Counters /\ nwrite \in Counters /\ data \in Rings
  BY Width DEF Init, Counters, Rings
<1>2. Occ(nwrite, nread) = 0
  BY <1>1, Tests DEF Init, Counters
<1>3. InFlight = Ring(data, nread, nwrite)
  BY DEF InFlight, Ring, Occ
<1>4. InFlight = <<>>
  BY <1>1, <1>2, <1>3, RingSeq, EmptySeq
<1> QED
  BY <1>4 DEF Init, Stream!Init

\* Every step of the pipe is a step of the stream or leaves it alone: a byte
\* written is Put, a byte read is Get, pipeclose() closes an end.
LEMMA StreamStep ==
  IInv /\ TypeOK' /\ [Next]_vars => [Stream!Next]_(Stream!vars)
<1> SUFFICES ASSUME IInv, TypeOK', [Next]_vars
             PROVE  [Stream!Next]_(Stream!vars)
  OBVIOUS
<1>1. TypeOK /\ CountInv
  BY DEF IInv, Data
<1>2. /\ nread \in Counters /\ nwrite \in Counters /\ data \in Rings
      /\ nread' \in Counters /\ nwrite' \in Counters /\ data' \in Rings
  BY <1>1 DEF TypeOK, Counters, Rings
<1>3. /\ InFlight = Ring(data, nread, nwrite)
      /\ InFlight' = Ring(data', nread', nwrite')
  BY DEF InFlight, Ring, Occ
<1>4. ASSUME NEW p \in Proc, NEW b \in Byte, WriteByte(p, b)
      PROVE  Stream!Put(b)
  <2>1. Occ(nwrite, nread) \in 0 .. PIPESIZE - 1
    BY <1>1, <1>4, PutCount DEF WriteByte
  <2>2. InFlight' = Append(InFlight, b)
    BY ZenonT(60), <1>2, <1>3, <1>4, <2>1, RingPut DEF WriteByte
  <2>3. Len(InFlight) < PIPESIZE
    BY <1>2, <1>3, <2>1, RingSeq, Width
  <2>4. readopen /\ writeopen
    BY <1>4 DEF IInv, Control, FdsHeld, WriteEnd, WriterPCs, WriteByte, Going, At
  <2> QED
    BY <1>4, <2>2, <2>3, <2>4 DEF Stream!Put, WriteByte
<1>5. ASSUME NEW p \in Proc, ReadByte(p) \/ ReadFault(p) PROVE Stream!Get
  <2>1. /\ At(p, "read") /\ ~Empty /\ last' = data[Slot(nread)]
        /\ nread' = Inc(nread) /\ UNCHANGED <<data, nwrite, readopen, writeopen>>
    BY <1>5 DEF ReadByte, ReadFault
  <2>2. Occ(nwrite, nread) \in 1 .. PIPESIZE
    BY <1>1, <2>1, GetCount
  <2>3. /\ InFlight # <<>> /\ Head(InFlight) = data[Slot(nread)]
        /\ InFlight' = Tail(InFlight)
    BY <1>2, <1>3, <2>1, <2>2, RingGet
  <2>4. readopen
    BY <2>1 DEF IInv, Control, FdsHeld, ReadEnd, ReaderPCs, At
  <2> QED
    BY <2>1, <2>3, <2>4 DEF Stream!Get
<1>6. ASSUME NEW p \in Proc, PipeCloseRead(p) PROVE Stream!CloseRead
  <2>1. readopen
    BY <1>6 DEF IInv, Control, ReadEnd, ClosingRead, PipeCloseRead
  <2> QED
    BY <1>3, <1>6, <2>1 DEF Stream!CloseRead, PipeCloseRead
<1>7. ASSUME NEW p \in Proc, PipeCloseWrite(p) PROVE Stream!CloseWrite
  <2>1. writeopen
    BY <1>7 DEF IInv, Control, WriteEnd, ClosingWrite, PipeCloseWrite
  <2> QED
    BY <1>3, <1>7, <2>1 DEF Stream!CloseWrite, PipeCloseWrite
<1>8. ASSUME UNCHANGED <<pipevars, last>> PROVE UNCHANGED Stream!vars
  BY <1>3, <1>8 DEF pipevars, Stream!vars
<1>9. ASSUME NEW p \in Proc, KernelStep(p)
      PROVE  \/ \E b \in Byte : WriteByte(p, b)
             \/ ReadByte(p) \/ ReadFault(p) \/ PipeCloseRead(p) \/ PipeCloseWrite(p)
             \/ UNCHANGED <<pipevars, last>>
  BY <1>9 DEF KernelStep, WriteLock, WriteFail, WriteFull, WriteSleep, WriteDone,
     ReadLock, ReadFail, ReadEmpty, ReadSleep, ReadReady, ReadDone, Acquire,
     Sleep
<1>10. ASSUME NEW p \in Proc, UserStep(p) PROVE UNCHANGED <<pipevars, last>>
  BY <1>10 DEF UserStep, Write, Read, Call, Fork, CloseRead, CloseWrite, Exit,
     Dead, Kill
<1>11. CASE UNCHANGED vars
  BY <1>8, <1>11 DEF vars
<1>12. CASE Next
  <2>1. PICK p \in Proc : KernelStep(p) \/ UserStep(p)
    BY <1>12 DEF Next
  <2>2. CASE UNCHANGED <<pipevars, last>>
    BY <1>8, <2>2
  <2>3. CASE \E b \in Byte : WriteByte(p, b)
    BY <1>4, <2>3 DEF Stream!Next
  <2>4. CASE ReadByte(p) \/ ReadFault(p) \/ PipeCloseRead(p) \/ PipeCloseWrite(p)
    BY <1>5, <1>6, <1>7, <2>4 DEF Stream!Next
  <2> QED
    BY <1>9, <1>10, <2>1, <2>2, <2>3, <2>4
<1> QED
  BY <1>11, <1>12

\* pipe.c is a bounded FIFO of bytes with two ends that are closed once: across
\* the wrap of the ring and of the unsigned counters no byte is lost, repeated,
\* overwritten or taken out of turn.
THEOREM PipeImplementsByteStream == Spec => ImplementsByteStream
<1>1. IInv => TypeOK
  BY DEF IInv
<1> QED
  BY Invariance, StreamInit, StreamStep, <1>1, PTL
  DEF Spec, ImplementsByteStream, Stream!Spec

=============================================================================
