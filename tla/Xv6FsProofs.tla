------------------------------ MODULE Xv6FsProofs ---------------------------
(***************************************************************************)
(* Proofs about the reference counts, locks and blocks of Xv6Fs, for any   *)
(* number of processes, inodes, blocks and calls.                          *)
(***************************************************************************)
EXTENDS Xv6Fs, FiniteSetTheorems, SequenceTheorems, WellFoundedInduction, TLAPS

(***************************************************************************)
(* What a process holds: the references and the locks its steps will give  *)
(* back, and those of the inode in ret.                                    *)
(***************************************************************************)
\* The steps of iput(), of one reference.
Putting == {"put", "free", "invalid", "drop"}

\* The steps with a reference to their first argument, and those that have it
\* locked; fill and unlinkfile have a reference to a second inode.
Using == Putting \union {"walk", "created", "ialloc", "fill", "linkdir", "linkbad",
                         "unlinkfile", "unlinked", "setcwd"}
Locking == {"free", "invalid", "ialloc", "fill", "unlock", "unlinkfile", "unlinked"}

Eq(i, j) == IF i = j THEN 1 ELSE 0

Refs(st, i) == (IF st[1] \in Using THEN Eq(st[2], i) ELSE 0)
               + (IF st[1] = "fill" THEN Eq(st[5], i) ELSE 0)
               + (IF st[1] = "unlinkfile" THEN Eq(st[3], i) ELSE 0)
Locks(st, i) == IF st[1] \in Locking THEN Eq(st[2], i) ELSE 0

\* A call never has more than four steps left.
RefsAt(s, n, i) == IF n <= Len(s) THEN Refs(s[n], i) ELSE 0
LocksAt(s, n, i) == IF n <= Len(s) THEN Locks(s[n], i) ELSE 0
TodoRefs(s, i) == RefsAt(s, 1, i) + RefsAt(s, 2, i) + RefsAt(s, 3, i) + RefsAt(s, 4, i)
TodoLocks(s, i) == LocksAt(s, 1, i) + LocksAt(s, 2, i) + LocksAt(s, 3, i) + LocksAt(s, 4, i)

\* The inode that create() has returned is locked, the one of namex() is not.
RetLocked(s) == \/ s[1][1] \in Putting \union {"made"}
                \/ s[1][1] = "open" /\ s[1][2].create

Uses(s, r, i) == TodoRefs(s, i) + Eq(r, i)
RetLock(s, r, i) == IF r = i /\ RetLocked(s) THEN 1 ELSE 0
Obliged(s, r, i) == TodoLocks(s, i) + RetLock(s, r, i)

\* chdir() between the old directory and the new one.
Moving(s) == s # <<>> /\ s[Len(s)][1] = "setcwd"

(***************************************************************************)
(* How the steps of a call follow each other, from position n on           *)
(***************************************************************************)
\* What is left when create() returns.
Returns(st) == \/ st[1] = "made"
               \/ st[1] = "open" /\ st[2].create

EndFrom(s, n) == \/ Len(s) = n - 1
                 \/ Len(s) = n /\ Returns(s[n])

\* What is left when namex() returns.
MainFrom(s, n) == \/ EndFrom(s, n)
                  \/ Len(s) = n /\ s[n][1] \in {"open", "link", "linkdir", "unlink", "chdir"}
                  \/ Len(s) = n + 1 /\ s[n][1] = "create" /\ Returns(s[n + 1])

WalkFrom(s, n) == Len(s) > n /\ s[n][1] = "walk" /\ MainFrom(s, n + 1) /\ ~Returns(s[n + 1])

UnlockFrom(s, n) == /\ Len(s) > n /\ s[n][1] = "unlock" /\ s[n + 1][1] = "put"
                    /\ EndFrom(s, n + 2)

OtherFrom(s, n) ==
  \/ Len(s) = n + 1 /\ s[n][1] \in {"created", "ialloc", "fill"} /\ Returns(s[n + 1])
  \/ Len(s) = n /\ s[n][1] \in {"unlinkfile", "unlinked", "linkbad", "setcwd"}

StepsFrom(s, n) == MainFrom(s, n) \/ WalkFrom(s, n) \/ UnlockFrom(s, n) \/ OtherFrom(s, n)

Shape(s) == \/ StepsFrom(s, 1)
            \/ /\ Len(s) > 0 /\ s[1][1] \in Putting
               /\ StepsFrom(s, 2) \/ (Len(s) = 2 /\ s[2][1] = "put")

RetShape(s, r) ==
  r # 0 => \/ /\ Len(s) > 0
              /\ s[1][1] \in {"create", "open", "made", "link", "linkdir", "unlink", "chdir"}
           \/ Len(s) = 2 /\ s[1][1] \in Putting /\ Returns(s[2])

(***************************************************************************)
(* The inductive invariant of the references and the locks                 *)
(***************************************************************************)
\* The strings, with the names and messages of the code spelled out: the provers
\* have no rule by which a literal is a string.
Word == STRING \union {"", ".", "..", "chunk"}
Message == STRING \union {"no", "iget: no inodes", "ilock", "ilock: no type", "iunlock",
                          "freeing free block", "sched locks", "dirlookup not DIR",
                          "unlink: nlink < 1", "unlink: writei"}
Types == {"T_DIR", "T_FILE", "T_DEVICE"}

Dinode == [type : Types \union {"none"}, nlink : Int, data : Seq(Word \X (0 .. NInodes)),
           addrs : Seq(1 .. NBlocks), ind : 0 .. NBlocks, a : Seq(1 .. NBlocks)]
Ent == [ref : Int, valid : BOOLEAN, lock : Proc \union {None}, ino : Dinode]
FsState == [it : [Inum -> Ent], di : [Inum -> Dinode], used : SUBSET (1 .. NBlocks),
            panic : Message]

\* The steps.
WPath == [abs : BOOLEAN, elems : Seq(Word)]
SimpleStep == (Putting \union {"unlock", "unlinked", "linkbad", "setcwd"}) \X Inum
WalkStep == {"walk"} \X Inum \X Seq(Word) \X BOOLEAN
CreateStep == {"create"} \X Word \X Types
CreatedStep == {"created"} \X Inum \X Types
IallocStep == {"ialloc"} \X Inum \X Word \X Types
FillStep == {"fill"} \X Inum \X Word \X Types \X Inum
OpenStep == {"open"} \X Mode
LinkStep == {"link"} \X WPath
LinkdirStep == {"linkdir"} \X Inum \X Word
UnlinkStep == {"unlink"} \X Word
UnlinkfileStep == {"unlinkfile"} \X Inum \X Inum \X (Nat \ {0})
OnlyStep == {<<"made">>, <<"chdir">>}
FsStep == SimpleStep \union WalkStep \union CreateStep \union CreatedStep \union IallocStep
          \union FillStep \union OpenStep \union LinkStep \union LinkdirStep \union UnlinkStep
          \union UnlinkfileStep \union OnlyStep

OpenFile == [ip : Inum, off : Nat, writable : BOOLEAN]

FsType ==
  /\ itable \in [Inum -> Ent] /\ dinode \in [Inum -> Dinode]
  /\ bitmap \in SUBSET (1 .. NBlocks) /\ panic \in Message
  /\ file \in [Proc -> OpenFile \union {None}] /\ cwd \in [Proc -> Inum]
  /\ todo \in [Proc -> Seq(FsStep)] /\ ret \in [Proc -> 0 .. NInodes]

CwdOf(i) == {q \in Proc : cwd[q] = i /\ ~Moving(todo[q])}
FileOf(i) == {q \in Proc : file[q] # None /\ file[q].ip = i}
PendingOf(i) == {h \in Proc \X (Nat \ {0}) : h[2] <= Uses(todo[h[1]], ret[h[1]], i)}

\* An inode has a reference for every use of it.
RefsCount ==
  \A i \in Inum :
    /\ IsFiniteSet(PendingOf(i))
    /\ itable[i].ref = Cardinality(CwdOf(i)) + Cardinality(FileOf(i)) + Cardinality(PendingOf(i))

\* A process has locked what its steps will unlock.
LocksHeld ==
  \A i \in Inum : \A p \in Proc :
    Obliged(todo[p], ret[p], i) = IF itable[i].lock = p THEN 1 ELSE 0

Shapes == \A p \in Proc : Shape(todo[p]) /\ RetShape(todo[p], ret[p])

FsCore == FsType /\ Shapes /\ RefsCount /\ LocksHeld

\* A call that has panicked does not return.
Stuck == panic # "no" /\ \E p \in Proc : todo[p] # <<>>

RefsInv == FsCore \/ Stuck

----------------------------------------------------------------------------
(***************************************************************************)
(* The steps of a call                                                     *)
(***************************************************************************)
LEMMA Sizes ==
  /\ NInodes \in Nat \ {0} /\ NINODE \in Nat \ {0} /\ NBlocks \in Nat \ {0}
  /\ PerBlock \in Nat \ {0, 1} /\ NDIRECT \in Nat \ {0} /\ NINDIRECT \in Nat /\ MaxCalls \in Nat
  /\ IsFiniteSet(Proc) /\ None \notin Proc /\ None \notin [ip : Nat, off : Nat, writable : BOOLEAN]
  BY SizeAssumption

\* What the arguments of a step are.
LEMMA StepArgs ==
  ASSUME NEW st \in FsStep
  PROVE  /\ st[1] \in Using \union {"unlock"} => st[2] \in Inum
         /\ st[1] = "walk" => st[3] \in Seq(Word) /\ st[4] \in BOOLEAN
         /\ st[1] = "create" => st[2] \in Word /\ st[3] \in Types
         /\ st[1] = "created" => st[3] \in Types
         /\ st[1] \in {"ialloc", "fill"} => st[3] \in Word /\ st[4] \in Types
         /\ st[1] = "fill" => st[5] \in Inum
         /\ st[1] = "open" => st[2] \in Mode
         /\ st[1] = "link" => st[2] \in WPath
         /\ st[1] = "linkdir" => st[3] \in Word
         /\ st[1] = "unlink" => st[2] \in Word
         /\ st[1] = "unlinkfile" => st[3] \in Inum /\ st[4] \in Nat \ {0}
<1>1. CASE st \in SimpleStep
  BY <1>1 DEF SimpleStep, Putting
<1>2. CASE st \in WalkStep \union CreateStep \union CreatedStep
  BY <1>2 DEF WalkStep, CreateStep, CreatedStep, Using, Putting
<1>3. CASE st \in IallocStep \union FillStep \union OpenStep
  BY <1>3 DEF IallocStep, FillStep, OpenStep, Using, Putting
<1>4. CASE st \in LinkStep \union LinkdirStep \union UnlinkStep
  BY <1>4 DEF LinkStep, LinkdirStep, UnlinkStep, Using, Putting
<1>5. CASE st \in UnlinkfileStep \union OnlyStep
  BY <1>5 DEF UnlinkfileStep, OnlyStep, Using, Putting
<1> QED
  BY <1>1, <1>2, <1>3, <1>4, <1>5 DEF FsStep

\* The steps that the operations leave.
LEMMA StepsAre ==
  /\ \A k \in Putting \union {"unlock", "unlinked", "linkbad", "setcwd"}, i \in Inum : <<k, i>> \in FsStep
  /\ \A i \in Inum, e \in Seq(Word), b \in BOOLEAN : <<"walk", i, e, b>> \in FsStep
  /\ \A w \in Word, t \in Types : <<"create", w, t>> \in FsStep
  /\ \A i \in Inum, t \in Types : <<"created", i, t>> \in FsStep
  /\ \A i \in Inum, w \in Word, t \in Types : <<"ialloc", i, w, t>> \in FsStep
  /\ \A d, i \in Inum, w \in Word, t \in Types : <<"fill", d, w, t, i>> \in FsStep
  /\ \A m \in Mode : <<"open", m>> \in FsStep
  /\ \A e \in WPath : <<"link", e>> \in FsStep
  /\ \A i \in Inum, w \in Word : <<"linkdir", i, w>> \in FsStep
  /\ \A w \in Word : <<"unlink", w>> \in FsStep
  /\ \A d, i \in Inum, k \in Nat \ {0} : <<"unlinkfile", d, i, k>> \in FsStep
  /\ <<"made">> \in FsStep /\ <<"chdir">> \in FsStep
  BY DEF FsStep, SimpleStep, WalkStep, CreateStep, CreatedStep, IallocStep, FillStep, OpenStep, LinkStep,
         LinkdirStep, UnlinkStep, UnlinkfileStep, OnlyStep, Putting

\* What a step holds.
LEMMA Weights ==
  ASSUME NEW st, NEW i
  PROVE  /\ st[1] \in Using \ {"fill", "unlinkfile"} => Refs(st, i) = Eq(st[2], i)
         /\ st[1] \notin Using => Refs(st, i) = 0
         /\ st[1] = "fill" => Refs(st, i) = Eq(st[2], i) + Eq(st[5], i)
         /\ st[1] = "unlinkfile" => Refs(st, i) = Eq(st[2], i) + Eq(st[3], i)
         /\ st[1] \in Locking => Locks(st, i) = Eq(st[2], i)
         /\ st[1] \notin Locking => Locks(st, i) = 0
         /\ Refs(st, i) \in Nat /\ Locks(st, i) \in Nat
  BY DEF Refs, Locks, Eq, Using, Putting

\* Steps in front of the others, in place of the first one.
LEMMA TailIs ==
  ASSUME NEW s \in Seq(FsStep), s # <<>>
  PROVE  /\ Tail(s) \in Seq(FsStep) /\ Len(s) \in Nat \ {0} /\ Len(Tail(s)) = Len(s) - 1
         /\ \A n \in 1 .. Len(s) - 1 : Tail(s)[n] = s[n + 1]
<1>1. Len(s) \in Nat \ {0}
  BY EmptySeq
<1>2. Tail(s) \in Seq(FsStep) /\ Len(Tail(s)) = Len(s) - 1 /\ \A n \in 1 .. Len(Tail(s)) : Tail(s)[n] = s[n + 1]
  BY HeadTailProperties
<1> QED
  BY <1>1, <1>2

LEMMA WeightsAt ==
  ASSUME NEW s, NEW n, NEW i
  PROVE  RefsAt(s, n, i) \in Nat /\ LocksAt(s, n, i) \in Nat
  BY Weights DEF RefsAt, LocksAt

LEMMA Splice0 ==
  ASSUME NEW s \in Seq(FsStep), s # <<>>, Len(s) <= 4,
         NEW t, t = <<>> \o Tail(s)
  PROVE  /\ t \in Seq(FsStep) /\ Len(t) = Len(s) - 1
         /\ \A n \in 1 .. Len(t) : t[n] = s[n + 1]
<1>0. /\ Tail(s) \in Seq(FsStep) /\ Len(s) \in Nat \ {0} /\ Len(Tail(s)) = Len(s) - 1
      /\ \A n \in 1 .. Len(s) - 1 : Tail(s)[n] = s[n + 1]
  BY TailIs
<1>1. Len(s) \in 1 .. 4
  BY <1>0
<1>3. t \in Seq(FsStep) /\ Len(t) = Len(s) - 1
  BY <1>0, <1>1, ConcatEmptySeq
<1>4. \A n \in 1 .. Len(t) : t[n] = s[n + 1]
  BY <1>0, <1>1, <1>3, ConcatEmptySeq
<1> QED
  BY <1>3, <1>4

LEMMA Splice1 ==
  ASSUME NEW s \in Seq(FsStep), s # <<>>, Len(s) <= 4, NEW a \in FsStep,
         NEW t, t = <<a>> \o Tail(s)
  PROVE  /\ t \in Seq(FsStep) /\ Len(t) = Len(s) /\ t[1] = a
         /\ \A n \in 2 .. Len(t) : t[n] = s[n]
<1>0. /\ Tail(s) \in Seq(FsStep) /\ Len(s) \in Nat \ {0} /\ Len(Tail(s)) = Len(s) - 1
      /\ \A n \in 1 .. Len(s) - 1 : Tail(s)[n] = s[n + 1]
  BY TailIs
<1>1. Len(s) \in 1 .. 4
  BY <1>0
<1>2. <<a>> \in Seq(FsStep) /\ Len(<<a>>) = 1 /\ <<a>>[1] = a
  OBVIOUS
<1>3. /\ t \in Seq(FsStep) /\ Len(t) = Len(s)
      /\ \A n \in 1 .. Len(s) : t[n] = IF n <= 1 THEN <<a>>[n] ELSE Tail(s)[n - 1]
  BY <1>0, <1>1, <1>2, ConcatProperties
<1>4. (t[1] = a) /\ \A n \in 2 .. Len(t) : t[n] = s[n]
  <2>1. t[1] = a
    BY <1>0, <1>1, <1>2, <1>3
  <2>2. ASSUME NEW n \in 2 .. Len(t) PROVE t[n] = s[n]
    <3>1. n - 1 \in 1 .. Len(s) - 1 /\ n \in 1 .. Len(s) /\ ~(n <= 1) /\ (n - 1) + 1 = n
      BY <1>1, <1>3
    <3> QED
      BY <1>0, <1>1, <1>3, <3>1
  <2> QED
    BY <2>1, <2>2
<1> QED
  BY <1>3, <1>4

LEMMA Splice2 ==
  ASSUME NEW s \in Seq(FsStep), s # <<>>, Len(s) <= 3, NEW a \in FsStep, NEW b \in FsStep,
         NEW t, t = <<a, b>> \o Tail(s)
  PROVE  /\ t \in Seq(FsStep) /\ Len(t) = Len(s) + 1 /\ t[1] = a /\ t[2] = b
         /\ \A n \in 3 .. Len(t) : t[n] = s[n - 1]
<1>0. /\ Tail(s) \in Seq(FsStep) /\ Len(s) \in Nat \ {0} /\ Len(Tail(s)) = Len(s) - 1
      /\ \A n \in 1 .. Len(s) - 1 : Tail(s)[n] = s[n + 1]
  BY TailIs
<1>1. Len(s) \in 1 .. 3
  BY <1>0
<1>2. <<a, b>> \in Seq(FsStep) /\ Len(<<a, b>>) = 2 /\ <<a, b>>[1] = a /\ <<a, b>>[2] = b
  OBVIOUS
<1>3. /\ t \in Seq(FsStep) /\ Len(t) = Len(s) + 1
      /\ \A n \in 1 .. Len(s) + 1 : t[n] = IF n <= 2 THEN <<a, b>>[n] ELSE Tail(s)[n - 2]
  BY <1>0, <1>1, <1>2, ConcatProperties
<1>4. (t[1] = a /\ t[2] = b) /\ \A n \in 3 .. Len(t) : t[n] = s[n - 1]
  <2>1. t[1] = a /\ t[2] = b
    BY <1>0, <1>1, <1>2, <1>3
  <2>2. ASSUME NEW n \in 3 .. Len(t) PROVE t[n] = s[n - 1]
    <3>1. n - 2 \in 1 .. Len(s) - 1 /\ n \in 1 .. Len(s) + 1 /\ ~(n <= 2) /\ (n - 2) + 1 = n - 1
      BY <1>1, <1>3
    <3> QED
      BY <1>0, <1>1, <1>3, <3>1
  <2> QED
    BY <2>1, <2>2
<1> QED
  BY <1>3, <1>4

LEMMA Splice3 ==
  ASSUME NEW s \in Seq(FsStep), s # <<>>, Len(s) <= 2, NEW a \in FsStep, NEW b \in FsStep, NEW c \in FsStep,
         NEW t, t = <<a, b, c>> \o Tail(s)
  PROVE  /\ t \in Seq(FsStep) /\ Len(t) = Len(s) + 2 /\ t[1] = a /\ t[2] = b /\ t[3] = c
         /\ \A n \in 4 .. Len(t) : t[n] = s[n - 2]
<1>0. /\ Tail(s) \in Seq(FsStep) /\ Len(s) \in Nat \ {0} /\ Len(Tail(s)) = Len(s) - 1
      /\ \A n \in 1 .. Len(s) - 1 : Tail(s)[n] = s[n + 1]
  BY TailIs
<1>1. Len(s) \in 1 .. 2
  BY <1>0
<1>2. <<a, b, c>> \in Seq(FsStep) /\ Len(<<a, b, c>>) = 3 /\ <<a, b, c>>[1] = a /\ <<a, b, c>>[2] = b /\ <<a, b, c>>[3] = c
  OBVIOUS
<1>3. /\ t \in Seq(FsStep) /\ Len(t) = Len(s) + 2
      /\ \A n \in 1 .. Len(s) + 2 : t[n] = IF n <= 3 THEN <<a, b, c>>[n] ELSE Tail(s)[n - 3]
  BY <1>0, <1>1, <1>2, ConcatProperties
<1>4. (t[1] = a /\ t[2] = b /\ t[3] = c) /\ \A n \in 4 .. Len(t) : t[n] = s[n - 2]
  <2>1. t[1] = a /\ t[2] = b /\ t[3] = c
    BY <1>0, <1>1, <1>2, <1>3
  <2>2. ASSUME NEW n \in 4 .. Len(t) PROVE t[n] = s[n - 2]
    <3>1. n - 3 \in 1 .. Len(s) - 1 /\ n \in 1 .. Len(s) + 2 /\ ~(n <= 3) /\ (n - 3) + 1 = n - 2
      BY <1>1, <1>3
    <3> QED
      BY <1>0, <1>1, <1>3, <3>1
  <2> QED
    BY <2>1, <2>2
<1> QED
  BY <1>3, <1>4

\* What the steps hold, before and after.
LEMMA Sum0 ==
  ASSUME NEW s, NEW t, Len(s) \in 1 .. 4, Len(t) = Len(s) - 1,
         \A n \in 1 .. Len(t) : t[n] = s[n + 1], NEW i
  PROVE  /\ TodoRefs(t, i) = TodoRefs(s, i) - Refs(s[1], i)
         /\ TodoLocks(t, i) = TodoLocks(s, i) - Locks(s[1], i)
<1>1. PICK x1, x2, x3, x4 \in Nat :
         /\ RefsAt(s, 1, i) = x1 /\ RefsAt(s, 2, i) = x2
         /\ RefsAt(s, 3, i) = x3 /\ RefsAt(s, 4, i) = x4
  BY WeightsAt, Weights
<1>2. /\ RefsAt(t, 1, i) = x2
      /\ RefsAt(t, 2, i) = x3
      /\ RefsAt(t, 3, i) = x4
      /\ RefsAt(t, 4, i) = 0
      /\ Refs(s[1], i) = x1
  <2>1. CASE Len(s) = 1
    BY <1>1, <2>1 DEF RefsAt
  <2>2. CASE Len(s) = 2
    BY <1>1, <2>2 DEF RefsAt
  <2>3. CASE Len(s) = 3
    BY <1>1, <2>3 DEF RefsAt
  <2>4. CASE Len(s) = 4
    BY <1>1, <2>4 DEF RefsAt
  <2> QED
    BY <2>1, <2>2, <2>3, <2>4
<1>3. TodoRefs(s, i) = x1 + x2 + x3 + x4 /\ TodoRefs(t, i) = x2 + x3 + x4 + 0
  BY <1>1, <1>2 DEF TodoRefs
<1>4. TodoRefs(t, i) = TodoRefs(s, i) - Refs(s[1], i)
  BY <1>1, <1>2, <1>3
<1>5. PICK u1, u2, u3, u4 \in Nat :
         /\ LocksAt(s, 1, i) = u1 /\ LocksAt(s, 2, i) = u2
         /\ LocksAt(s, 3, i) = u3 /\ LocksAt(s, 4, i) = u4
  BY WeightsAt, Weights
<1>6. /\ LocksAt(t, 1, i) = u2
      /\ LocksAt(t, 2, i) = u3
      /\ LocksAt(t, 3, i) = u4
      /\ LocksAt(t, 4, i) = 0
      /\ Locks(s[1], i) = u1
  <2>1. CASE Len(s) = 1
    BY <1>5, <2>1 DEF LocksAt
  <2>2. CASE Len(s) = 2
    BY <1>5, <2>2 DEF LocksAt
  <2>3. CASE Len(s) = 3
    BY <1>5, <2>3 DEF LocksAt
  <2>4. CASE Len(s) = 4
    BY <1>5, <2>4 DEF LocksAt
  <2> QED
    BY <2>1, <2>2, <2>3, <2>4
<1>7. TodoLocks(s, i) = u1 + u2 + u3 + u4 /\ TodoLocks(t, i) = u2 + u3 + u4 + 0
  BY <1>5, <1>6 DEF TodoLocks
<1>8. TodoLocks(t, i) = TodoLocks(s, i) - Locks(s[1], i)
  BY <1>5, <1>6, <1>7
<1> QED
  BY <1>4, <1>8

LEMMA Sum1 ==
  ASSUME NEW s, NEW t, Len(s) \in 1 .. 4, Len(t) = Len(s),
         \A n \in 2 .. Len(t) : t[n] = s[n], NEW i
  PROVE  /\ TodoRefs(t, i) = TodoRefs(s, i) - Refs(s[1], i) + Refs(t[1], i)
         /\ TodoLocks(t, i) = TodoLocks(s, i) - Locks(s[1], i) + Locks(t[1], i)
<1>1. PICK x1, x2, x3, x4, y1 \in Nat :
         /\ RefsAt(s, 1, i) = x1 /\ RefsAt(s, 2, i) = x2
         /\ RefsAt(s, 3, i) = x3 /\ RefsAt(s, 4, i) = x4
         /\ Refs(t[1], i) = y1
  BY WeightsAt, Weights
<1>2. /\ RefsAt(t, 1, i) = y1
      /\ RefsAt(t, 2, i) = x2
      /\ RefsAt(t, 3, i) = x3
      /\ RefsAt(t, 4, i) = x4
      /\ Refs(s[1], i) = x1
  BY <1>1 DEF RefsAt
<1>3. TodoRefs(s, i) = x1 + x2 + x3 + x4 /\ TodoRefs(t, i) = y1 + x2 + x3 + x4
  BY <1>1, <1>2 DEF TodoRefs
<1>4. TodoRefs(t, i) = TodoRefs(s, i) - Refs(s[1], i) + Refs(t[1], i)
  BY <1>1, <1>2, <1>3
<1>5. PICK u1, u2, u3, u4, v1 \in Nat :
         /\ LocksAt(s, 1, i) = u1 /\ LocksAt(s, 2, i) = u2
         /\ LocksAt(s, 3, i) = u3 /\ LocksAt(s, 4, i) = u4
         /\ Locks(t[1], i) = v1
  BY WeightsAt, Weights
<1>6. /\ LocksAt(t, 1, i) = v1
      /\ LocksAt(t, 2, i) = u2
      /\ LocksAt(t, 3, i) = u3
      /\ LocksAt(t, 4, i) = u4
      /\ Locks(s[1], i) = u1
  BY <1>5 DEF LocksAt
<1>7. TodoLocks(s, i) = u1 + u2 + u3 + u4 /\ TodoLocks(t, i) = v1 + u2 + u3 + u4
  BY <1>5, <1>6 DEF TodoLocks
<1>8. TodoLocks(t, i) = TodoLocks(s, i) - Locks(s[1], i) + Locks(t[1], i)
  BY <1>5, <1>6, <1>7
<1> QED
  BY <1>4, <1>8

LEMMA Sum2 ==
  ASSUME NEW s, NEW t, Len(s) \in 1 .. 3, Len(t) = Len(s) + 1,
         \A n \in 3 .. Len(t) : t[n] = s[n - 1], NEW i
  PROVE  /\ TodoRefs(t, i) = TodoRefs(s, i) - Refs(s[1], i) + Refs(t[1], i) + Refs(t[2], i)
         /\ TodoLocks(t, i) = TodoLocks(s, i) - Locks(s[1], i) + Locks(t[1], i) + Locks(t[2], i)
<1>1. PICK x1, x2, x3, x4, y1, y2 \in Nat :
         /\ RefsAt(s, 1, i) = x1 /\ RefsAt(s, 2, i) = x2
         /\ RefsAt(s, 3, i) = x3 /\ RefsAt(s, 4, i) = x4
         /\ Refs(t[1], i) = y1 /\ Refs(t[2], i) = y2
  BY WeightsAt, Weights
<1>2. /\ RefsAt(t, 1, i) = y1
      /\ RefsAt(t, 2, i) = y2
      /\ RefsAt(t, 3, i) = x2
      /\ RefsAt(t, 4, i) = x3
      /\ Refs(s[1], i) = x1
      /\ x4 = 0
  <2>1. CASE Len(s) = 1
    BY <1>1, <2>1 DEF RefsAt
  <2>2. CASE Len(s) = 2
    BY <1>1, <2>2 DEF RefsAt
  <2>3. CASE Len(s) = 3
    BY <1>1, <2>3 DEF RefsAt
  <2> QED
    BY <2>1, <2>2, <2>3
<1>3. TodoRefs(s, i) = x1 + x2 + x3 + x4 /\ TodoRefs(t, i) = y1 + y2 + x2 + x3
  BY <1>1, <1>2 DEF TodoRefs
<1>4. TodoRefs(t, i) = TodoRefs(s, i) - Refs(s[1], i) + Refs(t[1], i) + Refs(t[2], i)
  BY <1>1, <1>2, <1>3
<1>5. PICK u1, u2, u3, u4, v1, v2 \in Nat :
         /\ LocksAt(s, 1, i) = u1 /\ LocksAt(s, 2, i) = u2
         /\ LocksAt(s, 3, i) = u3 /\ LocksAt(s, 4, i) = u4
         /\ Locks(t[1], i) = v1 /\ Locks(t[2], i) = v2
  BY WeightsAt, Weights
<1>6. /\ LocksAt(t, 1, i) = v1
      /\ LocksAt(t, 2, i) = v2
      /\ LocksAt(t, 3, i) = u2
      /\ LocksAt(t, 4, i) = u3
      /\ Locks(s[1], i) = u1
      /\ u4 = 0
  <2>1. CASE Len(s) = 1
    BY <1>5, <2>1 DEF LocksAt
  <2>2. CASE Len(s) = 2
    BY <1>5, <2>2 DEF LocksAt
  <2>3. CASE Len(s) = 3
    BY <1>5, <2>3 DEF LocksAt
  <2> QED
    BY <2>1, <2>2, <2>3
<1>7. TodoLocks(s, i) = u1 + u2 + u3 + u4 /\ TodoLocks(t, i) = v1 + v2 + u2 + u3
  BY <1>5, <1>6 DEF TodoLocks
<1>8. TodoLocks(t, i) = TodoLocks(s, i) - Locks(s[1], i) + Locks(t[1], i) + Locks(t[2], i)
  BY <1>5, <1>6, <1>7
<1> QED
  BY <1>4, <1>8

LEMMA Sum3 ==
  ASSUME NEW s, NEW t, Len(s) \in 1 .. 2, Len(t) = Len(s) + 2,
         \A n \in 4 .. Len(t) : t[n] = s[n - 2], NEW i
  PROVE  /\ TodoRefs(t, i) = TodoRefs(s, i) - Refs(s[1], i) + Refs(t[1], i) + Refs(t[2], i) + Refs(t[3], i)
         /\ TodoLocks(t, i) = TodoLocks(s, i) - Locks(s[1], i) + Locks(t[1], i) + Locks(t[2], i) + Locks(t[3], i)
<1>1. PICK x1, x2, x3, x4, y1, y2, y3 \in Nat :
         /\ RefsAt(s, 1, i) = x1 /\ RefsAt(s, 2, i) = x2
         /\ RefsAt(s, 3, i) = x3 /\ RefsAt(s, 4, i) = x4
         /\ Refs(t[1], i) = y1 /\ Refs(t[2], i) = y2 /\ Refs(t[3], i) = y3
  BY WeightsAt, Weights
<1>2. /\ RefsAt(t, 1, i) = y1
      /\ RefsAt(t, 2, i) = y2
      /\ RefsAt(t, 3, i) = y3
      /\ RefsAt(t, 4, i) = x2
      /\ Refs(s[1], i) = x1
      /\ x3 = 0 /\ x4 = 0
  <2>1. CASE Len(s) = 1
    BY <1>1, <2>1 DEF RefsAt
  <2>2. CASE Len(s) = 2
    BY <1>1, <2>2 DEF RefsAt
  <2> QED
    BY <2>1, <2>2
<1>3. TodoRefs(s, i) = x1 + x2 + x3 + x4 /\ TodoRefs(t, i) = y1 + y2 + y3 + x2
  BY <1>1, <1>2 DEF TodoRefs
<1>4. TodoRefs(t, i) = TodoRefs(s, i) - Refs(s[1], i) + Refs(t[1], i) + Refs(t[2], i) + Refs(t[3], i)
  BY <1>1, <1>2, <1>3
<1>5. PICK u1, u2, u3, u4, v1, v2, v3 \in Nat :
         /\ LocksAt(s, 1, i) = u1 /\ LocksAt(s, 2, i) = u2
         /\ LocksAt(s, 3, i) = u3 /\ LocksAt(s, 4, i) = u4
         /\ Locks(t[1], i) = v1 /\ Locks(t[2], i) = v2 /\ Locks(t[3], i) = v3
  BY WeightsAt, Weights
<1>6. /\ LocksAt(t, 1, i) = v1
      /\ LocksAt(t, 2, i) = v2
      /\ LocksAt(t, 3, i) = v3
      /\ LocksAt(t, 4, i) = u2
      /\ Locks(s[1], i) = u1
      /\ u3 = 0 /\ u4 = 0
  <2>1. CASE Len(s) = 1
    BY <1>5, <2>1 DEF LocksAt
  <2>2. CASE Len(s) = 2
    BY <1>5, <2>2 DEF LocksAt
  <2> QED
    BY <2>1, <2>2
<1>7. TodoLocks(s, i) = u1 + u2 + u3 + u4 /\ TodoLocks(t, i) = v1 + v2 + v3 + u2
  BY <1>5, <1>6 DEF TodoLocks
<1>8. TodoLocks(t, i) = TodoLocks(s, i) - Locks(s[1], i) + Locks(t[1], i) + Locks(t[2], i) + Locks(t[3], i)
  BY <1>5, <1>6, <1>7
<1> QED
  BY <1>4, <1>8

LEMMA ShapeLen ==
  ASSUME NEW s \in Seq(FsStep), Shape(s)
  PROVE  Len(s) \in 0 .. 4 /\ (s = <<>> <=> Len(s) = 0)
<1>1. Len(s) \in Nat /\ (s = <<>> <=> Len(s) = 0)
  BY EmptySeq, LenProperties
<1> QED
  BY <1>1 DEF Shape, StepsFrom, MainFrom, WalkFrom, UnlockFrom, OtherFrom, EndFrom

\* What follows a step.
LEMMA ShapeKinds ==
  ASSUME NEW s \in Seq(FsStep), s # <<>>, Shape(s)
  PROVE  /\ s[1][1] \in Putting => StepsFrom(s, 2) \/ (Len(s) = 2 /\ s[2][1] = "put")
         /\ s[1][1] = "walk" => WalkFrom(s, 1)
         /\ s[1][1] \in {"create", "created", "ialloc", "fill"} => Len(s) = 2 /\ Returns(s[2])
         /\ s[1][1] \in {"open", "made", "link", "linkdir", "unlink", "chdir", "unlinkfile", "unlinked",
                         "linkbad", "setcwd"} => Len(s) = 1
         /\ s[1][1] = "unlock" => UnlockFrom(s, 1)
<1>1. Len(s) > 0
  BY ShapeLen
<1>2. CASE StepsFrom(s, 1)
  BY <1>1, <1>2 DEF StepsFrom, MainFrom, WalkFrom, UnlockFrom, OtherFrom, EndFrom, Putting, Returns
<1>3. CASE s[1][1] \in Putting /\ (StepsFrom(s, 2) \/ (Len(s) = 2 /\ s[2][1] = "put"))
  BY <1>3 DEF Putting
<1> QED
  BY <1>2, <1>3, <1>1 DEF Shape

\* What follows moves to the front.
LEMMA StepsShift ==
  ASSUME NEW s, NEW t, Len(s) \in Nat, Len(t) = Len(s) - 1, \A n \in 1 .. Len(t) : t[n] = s[n + 1],
         StepsFrom(s, 2)
  PROVE  StepsFrom(t, 1)
<1>1. MainFrom(s, 2) => MainFrom(t, 1)
  BY DEF MainFrom, EndFrom
<1>2. WalkFrom(s, 2) => WalkFrom(t, 1)
  BY DEF WalkFrom, MainFrom, EndFrom
<1>3. UnlockFrom(s, 2) => UnlockFrom(t, 1)
  BY DEF UnlockFrom, EndFrom
<1>4. OtherFrom(s, 2) => OtherFrom(t, 1)
  BY DEF OtherFrom
<1> QED
  BY <1>1, <1>2, <1>3, <1>4 DEF StepsFrom

\* The step of iput() is done; the next one of it comes.
LEMMA ShapeTail ==
  ASSUME NEW s \in Seq(FsStep), s # <<>>, Shape(s), s[1][1] \in Putting,
         NEW t \in Seq(FsStep), Len(t) = Len(s) - 1, \A n \in 1 .. Len(t) : t[n] = s[n + 1],
         NEW r, RetShape(s, r)
  PROVE  /\ Shape(t) /\ RetShape(t, r)
         /\ r # 0 => RetLocked(s) /\ RetLocked(t)
<1>1. Len(s) \in 1 .. 4
  BY ShapeLen
<1>2. StepsFrom(s, 2) \/ (Len(s) = 2 /\ s[2][1] = "put")
  BY ShapeKinds
<1>3. Shape(t)
  <2>1. CASE StepsFrom(s, 2)
    BY <1>1, <2>1, StepsShift DEF Shape
  <2>2. CASE Len(s) = 2 /\ s[2][1] = "put"
    BY <2>2 DEF Shape, StepsFrom, MainFrom, EndFrom, Putting
  <2> QED
    BY <1>2, <2>1, <2>2
<1>4. r # 0 => Len(s) = 2 /\ Returns(s[2])
  BY DEF RetShape, Putting
<1>5. r # 0 => Len(t) = 1 /\ Returns(t[1])
  <2>1. Len(s) = 2 => Len(t) = 1 /\ t[1] = s[2]
    OBVIOUS
  <2> QED
    BY <1>4, <2>1
<1> QED
  BY <1>3, <1>5 DEF RetShape, RetLocked, Returns

LEMMA ShapeHead ==
  ASSUME NEW s \in Seq(FsStep), s # <<>>, Shape(s), s[1][1] \in Putting,
         NEW t \in Seq(FsStep), Len(t) = Len(s), \A n \in 2 .. Len(t) : t[n] = s[n], t[1][1] \in Putting,
         NEW r, RetShape(s, r)
  PROVE  /\ Shape(t) /\ RetShape(t, r)
         /\ r # 0 => RetLocked(s) /\ RetLocked(t)
<1>1. Len(s) \in 1 .. 4
  BY ShapeLen
<1>2. StepsFrom(s, 2) \/ (Len(s) = 2 /\ s[2][1] = "put")
  BY ShapeKinds
<1>3. StepsFrom(s, 2) => StepsFrom(t, 2)
  BY <1>1 DEF StepsFrom, MainFrom, WalkFrom, UnlockFrom, OtherFrom, EndFrom
<1>4. Shape(t)
  BY <1>1, <1>2, <1>3 DEF Shape
<1>5. r # 0 => Len(s) = 2 /\ Returns(s[2])
  BY DEF RetShape, Putting
<1> QED
  BY <1>4, <1>5 DEF RetShape, RetLocked

\* A process that is not in a call, or whose step takes no inode of ret.
LEMMA RetNone ==
  ASSUME NEW s \in Seq(FsStep), NEW r, RetShape(s, r),
         s = <<>> \/ s[1][1] \notin Putting \union {"create", "open", "made", "link", "linkdir", "unlink", "chdir"}
  PROVE  r = 0
  BY ShapeLen, EmptySeq DEF RetShape

----------------------------------------------------------------------------
(***************************************************************************)
(* The functions of fs.c                                                   *)
(***************************************************************************)
\* The tables of a state, at an inode.
LEMMA StateIs ==
  ASSUME NEW f \in FsState, NEW i \in Inum
  PROVE  /\ f.it \in [Inum -> Ent] /\ f.di \in [Inum -> Dinode] /\ f.used \subseteq 1 .. NBlocks
         /\ f.panic \in Message
         /\ f.it[i] \in Ent /\ f.di[i] \in Dinode
         /\ f.it[i].ref \in Int /\ f.it[i].valid \in BOOLEAN /\ f.it[i].lock \in Proc \union {None}
         /\ f.it[i].ino \in Dinode
<1>1. f.it \in [Inum -> Ent] /\ f.di \in [Inum -> Dinode] /\ f.used \subseteq 1 .. NBlocks /\ f.panic \in Message
  BY DEF FsState
<1>2. f.it[i] \in Ent /\ f.di[i] \in Dinode
  BY <1>1
<1> QED
  BY <1>1, <1>2 DEF Ent

\* f and g have the same entry of inode i, and the same inode on the disk.
SameAt(f, g, i) == g.it[i] = f.it[i] /\ g.di[i] = f.di[i]

\* f and g have the same references and locks.
SameHolds(f, g) == \A i \in Inum : g.it[i].ref = f.it[i].ref /\ g.it[i].lock = f.it[i].lock

LEMMA PanicIs ==
  ASSUME NEW f \in FsState, NEW m \in Message, NEW g, g = Panic(f, m), m # "no"
  PROVE  /\ g \in FsState /\ g.it = f.it /\ g.di = f.di /\ g.used = f.used /\ g.panic # "no"
  BY DEF Panic, FsState

LEMMA Messages ==
  /\ "iget: no inodes" \in Message /\ "iget: no inodes" # "no"
  /\ "ilock" \in Message /\ "ilock" # "no"
  /\ "ilock: no type" \in Message /\ "ilock: no type" # "no"
  /\ "iunlock" \in Message /\ "iunlock" # "no"
  /\ "freeing free block" \in Message /\ "freeing free block" # "no"
  /\ "sched locks" \in Message /\ "sched locks" # "no"
  /\ "dirlookup not DIR" \in Message /\ "dirlookup not DIR" # "no"
  /\ "unlink: nlink < 1" \in Message /\ "unlink: nlink < 1" # "no"
  /\ "unlink: writei" \in Message /\ "unlink: writei" # "no"
  BY Zenon DEF Message

LEMMA Words == "" \in Word /\ "." \in Word /\ ".." \in Word /\ "chunk" \in Word
  BY Zenon DEF Word

\* An entry in place of another.
PutEnt(f, i, e) == [f EXCEPT !.it[i] = e]

LEMMA EntryIs ==
  ASSUME NEW f \in FsState, NEW i \in Inum, NEW e \in Ent, NEW g, g = PutEnt(f, i, e)
  PROVE  /\ g \in FsState /\ g.it[i] = e /\ \A j \in Inum : j # i => g.it[j] = f.it[j]
         /\ g.di = f.di /\ g.used = f.used /\ g.panic = f.panic
  BY DEF FsState, PutEnt

LEMMA IgetIs ==
  ASSUME NEW f \in FsState, NEW i \in Inum, NEW g, g = Iget(f, i), f.it[i].ref >= 0
  PROVE  /\ g \in FsState /\ g.di = f.di /\ g.used = f.used
         /\ \A j \in Inum : j # i => g.it[j] = f.it[j]
         /\ g.it[i].lock = f.it[i].lock /\ g.it[i].ino = f.it[i].ino /\ g.it[i].ref >= 0
         /\ g.panic = "no" => /\ f.panic = "no" /\ g.it[i].ref = f.it[i].ref + 1
                              /\ f.it[i].ref > 0 => g.it[i].valid = f.it[i].valid
                              /\ f.it[i].ref = 0 => ~g.it[i].valid
<1>1. /\ f.it[i] \in Ent /\ f.it[i].ref \in Int /\ f.it[i].valid \in BOOLEAN
      /\ f.it[i].lock \in Proc \union {None} /\ f.it[i].ino \in Dinode
  BY StateIs
<1>2. CASE i \in InTable(f)
  <2>1. PICK e : e = [f.it[i] EXCEPT !.ref = f.it[i].ref + 1]
    OBVIOUS
  <2>2. e \in Ent /\ e.ref = f.it[i].ref + 1 /\ e.valid = f.it[i].valid /\ e.lock = f.it[i].lock
        /\ e.ino = f.it[i].ino
    BY <1>1, <2>1 DEF Ent
  <2>3. g = PutEnt(f, i, e)
    BY <1>2, <2>1 DEF Iget, FsState, PutEnt
  <2>4. /\ g \in FsState /\ g.it[i] = e /\ \A j \in Inum : j # i => g.it[j] = f.it[j]
        /\ g.di = f.di /\ g.used = f.used /\ g.panic = f.panic
    BY <2>2, <2>3, EntryIs
  <2>5. f.it[i].ref > 0
    BY <1>2 DEF InTable
  <2> QED
    BY <1>1, <2>2, <2>4, <2>5
<1>3. CASE i \notin InTable(f) /\ Cardinality(InTable(f)) >= NINODE
  <2>1. g = Panic(f, "iget: no inodes")
    BY <1>3 DEF Iget
  <2>2. g \in FsState /\ g.it = f.it /\ g.di = f.di /\ g.used = f.used /\ g.panic # "no"
    BY <2>1, Messages, PanicIs
  <2> QED
    BY <2>2
<1>4. CASE i \notin InTable(f) /\ ~(Cardinality(InTable(f)) >= NINODE)
  <2>1. PICK e : e = [f.it[i] EXCEPT !.ref = 1, !.valid = FALSE]
    OBVIOUS
  <2>2. e \in Ent /\ e.ref = 1 /\ ~e.valid /\ e.lock = f.it[i].lock /\ e.ino = f.it[i].ino
    <3>1. PICK d : d = [f.it[i] EXCEPT !.ref = 1]
      OBVIOUS
    <3>2. d \in Ent /\ d.ref = 1 /\ d.lock = f.it[i].lock /\ d.ino = f.it[i].ino
      BY <1>1, <3>1 DEF Ent
    <3>3. e = [d EXCEPT !.valid = FALSE]
      BY <2>1, <3>1
    <3>4. e \in Ent /\ e.ref = d.ref /\ e.lock = d.lock /\ e.ino = d.ino
      BY <3>2, <3>3 DEF Ent
    <3>5. ~e.valid
      BY <3>2, <3>3 DEF Ent
    <3> QED
      BY <3>2, <3>4, <3>5
  <2>3. g = PutEnt(f, i, e)
    <3>1. e = [f.it[i] EXCEPT !.ref = 1, !.valid = FALSE]
      BY <2>1
    <3>2. g = [f EXCEPT !.it[i].ref = 1, !.it[i].valid = FALSE]
      BY <1>4 DEF Iget
    <3> QED
      BY <3>1, <3>2 DEF FsState, PutEnt
  <2>4. f.it[i].ref = 0
    BY <1>1, <1>4 DEF InTable
  <2>5. /\ g \in FsState /\ g.it[i] = e /\ \A j \in Inum : j # i => g.it[j] = f.it[j]
        /\ g.di = f.di /\ g.used = f.used /\ g.panic = f.panic
    BY <2>2, <2>3, EntryIs
  <2> QED
    BY <2>2, <2>4, <2>5
<1> QED
  BY <1>2, <1>3, <1>4

LEMMA DropIs ==
  ASSUME NEW f \in FsState, NEW i \in Inum, NEW g, g = Drop(f, i)
  PROVE  /\ g \in FsState /\ g.di = f.di /\ g.used = f.used /\ g.panic = f.panic
         /\ \A j \in Inum : j # i => g.it[j] = f.it[j]
         /\ g.it[i].ref = f.it[i].ref - 1 /\ g.it[i].valid = f.it[i].valid
         /\ g.it[i].lock = f.it[i].lock /\ g.it[i].ino = f.it[i].ino
<1>1. /\ f.it[i] \in Ent /\ f.it[i].ref \in Int /\ f.it[i].valid \in BOOLEAN
      /\ f.it[i].lock \in Proc \union {None} /\ f.it[i].ino \in Dinode
  BY StateIs
<1>2. PICK e : e = [f.it[i] EXCEPT !.ref = f.it[i].ref - 1]
  OBVIOUS
<1>3. e \in Ent /\ e.ref = f.it[i].ref - 1 /\ e.valid = f.it[i].valid /\ e.lock = f.it[i].lock
      /\ e.ino = f.it[i].ino
  BY <1>1, <1>2 DEF Ent
<1>4. g = PutEnt(f, i, e)
  BY <1>2 DEF Drop, FsState, PutEnt
<1> QED
  BY <1>3, <1>4, EntryIs

LEMMA IlockIs ==
  ASSUME NEW f \in FsState, NEW p \in Proc, NEW i \in Inum, NEW g, g = Ilock(f, p, i), f.it[i].ref >= 1
  PROVE  /\ g \in FsState /\ g.di = f.di /\ g.used = f.used
         /\ \A j \in Inum : j # i => g.it[j] = f.it[j]
         /\ g.it[i].ref = f.it[i].ref /\ g.it[i].valid /\ g.it[i].lock = p
         /\ g.it[i].ino = IF f.it[i].valid THEN f.it[i].ino ELSE f.di[i]
         /\ g.panic = "no" <=> f.panic = "no" /\ (f.it[i].valid \/ f.di[i].type # "none")
<1>1. /\ f.it[i] \in Ent /\ f.it[i].ref \in Int /\ f.it[i].valid \in BOOLEAN
      /\ f.it[i].lock \in Proc \union {None} /\ f.it[i].ino \in Dinode /\ f.di[i] \in Dinode
  BY StateIs
<1>2. PICK ino : ino = IF f.it[i].valid THEN f.it[i].ino ELSE f.di[i]
  OBVIOUS
<1>3. PICK e : e = [f.it[i] EXCEPT !.lock = p, !.valid = TRUE, !.ino = ino]
  OBVIOUS
<1>4. /\ e \in Ent /\ e.ref = f.it[i].ref /\ e.valid /\ e.lock = p /\ e.ino = ino
  BY <1>1, <1>2, <1>3 DEF Ent
<1>5. PICK h : h = PutEnt(f, i, e)
  OBVIOUS
<1>6. h = [f EXCEPT !.it[i].lock = p, !.it[i].valid = TRUE,
                   !.it[i].ino = IF f.it[i].valid THEN f.it[i].ino ELSE f.di[i]]
  BY <1>2, <1>3, <1>5 DEF FsState, PutEnt
<1>7. /\ ~f.it[i].valid /\ ino.type = "none" => g = Panic(h, "ilock: no type")
      /\ ~(~f.it[i].valid /\ ino.type = "none") => g = h
  <2>1. ~(f.it[i].ref < 1)
    BY <1>1
  <2> HIDE DEF PutEnt
  <2> QED
    BY <2>1, <1>2, <1>6 DEF Ilock
<1>8. /\ h \in FsState /\ h.it[i] = e /\ \A j \in Inum : j # i => h.it[j] = f.it[j]
      /\ h.di = f.di /\ h.used = f.used /\ h.panic = f.panic
  BY <1>4, <1>5, EntryIs
<1>9. CASE ~f.it[i].valid /\ ino.type = "none"
  <2>1. g = Panic(h, "ilock: no type") /\ h \in FsState
    BY <1>7, <1>8, <1>9
  <2>2. g \in FsState /\ g.it = h.it /\ g.di = h.di /\ g.used = h.used /\ g.panic # "no"
    BY ZenonT(60), <2>1, Messages, PanicIs
  <2>3. ~(f.it[i].valid \/ f.di[i].type # "none")
    BY <1>1, <1>2, <1>9
  <2> QED
    BY <1>2, <1>4, <1>8, <2>2, <2>3
<1>10. CASE ~(~f.it[i].valid /\ ino.type = "none")
  <2>1. g = h
    BY <1>7, <1>10
  <2>2. f.it[i].valid \/ f.di[i].type # "none"
    BY <1>1, <1>2, <1>10
  <2> QED
    BY <1>1, <1>2, <1>4, <1>8, <2>1, <2>2
<1> QED
  BY <1>9, <1>10

LEMMA IunlockIs ==
  ASSUME NEW f \in FsState, NEW p \in Proc, NEW i \in Inum, NEW g, g = Iunlock(f, p, i)
  PROVE  /\ g \in FsState /\ g.di = f.di /\ g.used = f.used
         /\ \A j \in Inum : j # i => g.it[j] = f.it[j]
         /\ g.it[i].ref = f.it[i].ref /\ g.it[i].valid = f.it[i].valid /\ g.it[i].ino = f.it[i].ino
         /\ g.panic = "no" => f.panic = "no" /\ f.it[i].ref >= 1 /\ f.it[i].lock = p
         /\ f.it[i].ref >= 1 /\ f.it[i].lock = p => g.panic = f.panic
         /\ (g.panic = "no" \/ (f.it[i].ref >= 1 /\ f.it[i].lock = p)) => g.it[i].lock = None
<1>1. /\ f.it[i] \in Ent /\ f.it[i].ref \in Int /\ f.it[i].valid \in BOOLEAN
      /\ f.it[i].lock \in Proc \union {None} /\ f.it[i].ino \in Dinode
  BY StateIs
<1>2. CASE f.it[i].ref < 1 \/ f.it[i].lock # p
  <2>1. g = Panic(f, "iunlock")
    BY <1>2 DEF Iunlock
  <2>2. g \in FsState /\ g.it = f.it /\ g.di = f.di /\ g.used = f.used /\ g.panic # "no"
    BY <2>1, Messages, PanicIs
  <2> QED
    BY <1>1, <1>2, <2>2
<1>3. CASE ~(f.it[i].ref < 1 \/ f.it[i].lock # p)
  <2>1. PICK e : e = [f.it[i] EXCEPT !.lock = None]
    OBVIOUS
  <2>2. e \in Ent /\ e.ref = f.it[i].ref /\ e.valid = f.it[i].valid /\ e.lock = None
        /\ e.ino = f.it[i].ino
    BY <1>1, <2>1 DEF Ent
  <2>3. g = PutEnt(f, i, e)
    BY <1>3, <2>1 DEF Iunlock, FsState, PutEnt
  <2> QED
    BY SMTT(30), <1>1, <1>3, <2>2, <2>3, EntryIs
<1> QED
  BY <1>2, <1>3

LEMMA UpdateIs ==
  ASSUME NEW f \in FsState, NEW i \in Inum, NEW ino \in Dinode, NEW g, g = Update(f, i, ino)
  PROVE  /\ g \in FsState /\ g.used = f.used /\ g.panic = f.panic
         /\ \A j \in Inum : j # i => g.it[j] = f.it[j] /\ g.di[j] = f.di[j]
         /\ g.it[i].ref = f.it[i].ref /\ g.it[i].valid = f.it[i].valid /\ g.it[i].lock = f.it[i].lock
         /\ g.it[i].ino = ino /\ g.di[i] = ino
<1>1. /\ f.it[i] \in Ent /\ f.it[i].ref \in Int /\ f.it[i].valid \in BOOLEAN
      /\ f.it[i].lock \in Proc \union {None} /\ f.it[i].ino \in Dinode
  BY StateIs
<1>2. PICK e : e = [f.it[i] EXCEPT !.ino = ino]
  OBVIOUS
<1>3. e \in Ent /\ e.ref = f.it[i].ref /\ e.valid = f.it[i].valid /\ e.lock = f.it[i].lock
      /\ e.ino = ino
  BY <1>1, <1>2 DEF Ent
<1>4. PICK h : h = PutEnt(f, i, e)
  OBVIOUS
<1>5. /\ h \in FsState /\ h.it[i] = e /\ \A j \in Inum : j # i => h.it[j] = f.it[j]
      /\ h.di = f.di /\ h.used = f.used /\ h.panic = f.panic
  BY <1>3, <1>4, EntryIs
<1>6. g = [h EXCEPT !.di[i] = ino]
  BY <1>2, <1>4 DEF Update, FsState, PutEnt
<1>7. /\ g \in FsState /\ g.it = h.it /\ g.used = h.used /\ g.panic = h.panic
      /\ g.di[i] = ino /\ \A j \in Inum : j # i => g.di[j] = h.di[j]
  BY <1>5, <1>6 DEF FsState
<1> QED
  BY <1>3, <1>5, <1>7


----------------------------------------------------------------------------
(***************************************************************************)
(* The functions of fs.c that change what is in an inode                   *)
(***************************************************************************)
\* f and g have the same references, locks and copies that are valid; a panic
\* stays one.
Keeps(f, g) ==
  /\ g \in FsState
  /\ \A j \in Inum : /\ g.it[j].ref = f.it[j].ref /\ g.it[j].lock = f.it[j].lock
                     /\ g.it[j].valid = f.it[j].valid
  /\ g.panic = "no" => f.panic = "no"

LEMMA KeepsTrans ==
  ASSUME NEW f, NEW g, NEW h, Keeps(f, g), Keeps(g, h)
  PROVE  Keeps(f, h)
  BY DEF Keeps

LEMMA KeepsSelf ==
  ASSUME NEW f \in FsState
  PROVE  Keeps(f, f)
  BY DEF Keeps

\* A set of positions that is not empty has a first one.
LEMMA FirstOne ==
  ASSUME NEW n \in Nat, NEW S \in SUBSET (1 .. n), S # {}
  PROVE  \E k \in S : \A j \in S : k <= j
<1>1. S \subseteq Nat
  OBVIOUS
<1>2. \E k \in S : \A j \in S : ~(<<j, k>> \in OpToRel(<, Nat))
  BY <1>1, WFMin, NatLessThanWellFounded
<1>3. PICK k \in S : \A j \in S : ~(j < k)
  BY <1>1, <1>2 DEF OpToRel
<1> QED
  BY <1>3

LEMMA BallocIs ==
  ASSUME NEW f \in FsState
  PROVE  /\ Balloc(f) \in 0 .. NBlocks
         /\ Balloc(f) # 0 => Balloc(f) \in 1 .. NBlocks /\ Balloc(f) \notin f.used
<1> DEFINE free == (1 .. NBlocks) \ f.used
<1>1. CASE free = {}
  <2>1. Balloc(f) = 0
    BY <1>1 DEF Balloc
  <2> QED
    BY <2>1, Sizes
<1>2. CASE free # {}
  <2>1. PICK b \in free : \A c \in free : b <= c
    BY <1>2, FirstOne, Sizes
  <2>2. Balloc(f) = CHOOSE c \in free : \A d \in free : c <= d
    BY <1>2 DEF Balloc
  <2>3. Balloc(f) \in free
    BY <2>1, <2>2
  <2> QED
    BY <2>3, Sizes
<1> QED
  BY <1>1, <1>2

LEMMA DinodeIs ==
  ASSUME NEW ino \in Dinode
  PROVE  /\ ino.type \in Types \union {"none"} /\ ino.nlink \in Int
         /\ ino.data \in Seq(Word \X (0 .. NInodes)) /\ ino.addrs \in Seq(1 .. NBlocks)
         /\ ino.ind \in 0 .. NBlocks /\ ino.a \in Seq(1 .. NBlocks)
         /\ \A n \in Int : [ino EXCEPT !.nlink = n] \in Dinode
         /\ \A d \in Seq(Word \X (0 .. NInodes)) : [ino EXCEPT !.data = d] \in Dinode
         /\ \A s \in Seq(1 .. NBlocks) : [ino EXCEPT !.addrs = s] \in Dinode /\ [ino EXCEPT !.a = s] \in Dinode
         /\ \A b \in 0 .. NBlocks : [ino EXCEPT !.ind = b] \in Dinode
  BY DEF Dinode

LEMMA AllocIs ==
  ASSUME NEW f \in FsState, NEW i \in Inum, NEW ino \in Dinode, Balloc(f) # 0,
         NEW g, g = Alloc(f, i, ino)
  PROVE  /\ Keeps(f, g) /\ g.di = f.di /\ g.used = f.used \union {Balloc(f)} /\ g.panic = f.panic
         /\ \A j \in Inum : j # i => g.it[j] = f.it[j]
         /\ g.it[i].ino = ino
<1>1. /\ f.it[i] \in Ent /\ f.it[i].ref \in Int /\ f.it[i].valid \in BOOLEAN
      /\ f.it[i].lock \in Proc \union {None} /\ f.it[i].ino \in Dinode
  BY StateIs
<1>2. PICK e : e = [f.it[i] EXCEPT !.ino = ino]
  OBVIOUS
<1>3. e \in Ent /\ e.ref = f.it[i].ref /\ e.valid = f.it[i].valid /\ e.lock = f.it[i].lock
      /\ e.ino = ino
  BY <1>1, <1>2 DEF Ent
<1>4. PICK h : h = PutEnt(f, i, e)
  OBVIOUS
<1>5. /\ h \in FsState /\ h.it[i] = e /\ \A j \in Inum : j # i => h.it[j] = f.it[j]
      /\ h.di = f.di /\ h.used = f.used /\ h.panic = f.panic
  BY <1>3, <1>4, EntryIs
<1>6. PICK b : b = Balloc(f)
  OBVIOUS
<1>7. g = [h EXCEPT !.used = f.used \union {b}]
  BY <1>2, <1>4, <1>6 DEF Alloc, FsState, PutEnt
<1>8. b \in 1 .. NBlocks
  BY <1>6, BallocIs
<1>9. /\ g \in FsState /\ g.it = h.it /\ g.di = h.di /\ g.panic = h.panic
      /\ g.used = f.used \union {b}
  <2>1. f.used \union {b} \in SUBSET (1 .. NBlocks)
    BY <1>8, StateIs DEF FsState
  <2> QED
    BY <1>5, <1>7, <2>1 DEF FsState
<1> QED
  BY <1>3, <1>5, <1>6, <1>9 DEF Keeps

LEMMA BmapIndirectIs ==
  ASSUME NEW f \in FsState, NEW i \in Inum, NEW bn, NEW g, g = BmapIndirect(f, i, bn)
  PROVE  /\ Keeps(f, g) /\ g.di = f.di /\ g.panic = f.panic
         /\ \A j \in Inum : j # i => g.it[j] = f.it[j]
         /\ g.it[i].ino.type = f.it[i].ino.type
<1>1. f.it[i].ino \in Dinode
  BY StateIs
<1>2. CASE Balloc(f) = 0 \/ bn < Len(f.it[i].ino.a)
  <2>1. g = f
    BY <1>2 DEF BmapIndirect
  <2> QED
    BY <2>1, KeepsSelf
<1>3. CASE ~(Balloc(f) = 0 \/ bn < Len(f.it[i].ino.a))
  <2>1. PICK new : new = [f.it[i].ino EXCEPT !.a = Append(f.it[i].ino.a, Balloc(f))]
    OBVIOUS
  <2>2. g = Alloc(f, i, new) /\ Balloc(f) # 0
    BY <1>3, <2>1 DEF BmapIndirect
  <2>3. Append(f.it[i].ino.a, Balloc(f)) \in Seq(1 .. NBlocks)
    BY <1>1, <1>3, BallocIs, DinodeIs, AppendProperties
  <2>4. new \in Dinode /\ new.type = f.it[i].ino.type
    BY <1>1, <2>1, <2>3 DEF Dinode
  <2> QED
    BY <2>2, <2>4, AllocIs
<1> QED
  BY <1>2, <1>3

LEMMA BmapIs ==
  ASSUME NEW f \in FsState, NEW i \in Inum, NEW bn, NEW g, g = Bmap(f, i, bn)
  PROVE  /\ Keeps(f, g) /\ g.di = f.di /\ g.panic = f.panic
         /\ \A j \in Inum : j # i => g.it[j] = f.it[j]
         /\ g.it[i].ino.type = f.it[i].ino.type
<1>1. f.it[i].ino \in Dinode
  BY StateIs
<1>2. CASE bn < NDIRECT
  <2>1. CASE Balloc(f) = 0 \/ bn < Len(f.it[i].ino.addrs)
    <3>1. g = f
      BY <1>2, <2>1 DEF Bmap
    <3> QED
      BY <3>1, KeepsSelf
  <2>2. CASE ~(Balloc(f) = 0 \/ bn < Len(f.it[i].ino.addrs))
    <3>1. PICK new : new = [f.it[i].ino EXCEPT !.addrs = Append(f.it[i].ino.addrs, Balloc(f))]
      OBVIOUS
    <3>2. g = Alloc(f, i, new) /\ Balloc(f) # 0
      BY <1>2, <2>2, <3>1 DEF Bmap
    <3>3. Append(f.it[i].ino.addrs, Balloc(f)) \in Seq(1 .. NBlocks)
      BY <1>1, <2>2, BallocIs, DinodeIs, AppendProperties
    <3>4. new \in Dinode /\ new.type = f.it[i].ino.type
      BY <1>1, <3>1, <3>3 DEF Dinode
    <3> QED
      BY <3>2, <3>4, AllocIs
  <2> QED
    BY <2>1, <2>2
<1>3. CASE ~(bn < NDIRECT) /\ f.it[i].ino.ind # 0
  <2>1. g = BmapIndirect(f, i, bn - NDIRECT)
    BY <1>3 DEF Bmap
  <2> QED
    BY <2>1, BmapIndirectIs
<1>4. CASE ~(bn < NDIRECT) /\ f.it[i].ino.ind = 0 /\ Balloc(f) = 0
  <2>1. g = f
    BY <1>4 DEF Bmap
  <2> QED
    BY <2>1, KeepsSelf
<1>5. CASE ~(bn < NDIRECT) /\ f.it[i].ino.ind = 0 /\ Balloc(f) # 0
  <2>1. PICK new : new = [f.it[i].ino EXCEPT !.ind = Balloc(f)]
    OBVIOUS
  <2>2. new \in Dinode /\ new.type = f.it[i].ino.type
    BY <1>1, <2>1, BallocIs DEF Dinode
  <2>3. PICK h : h = Alloc(f, i, new)
    OBVIOUS
  <2>4. /\ Keeps(f, h) /\ h.di = f.di /\ h.panic = f.panic
        /\ \A j \in Inum : j # i => h.it[j] = f.it[j]
        /\ h.it[i].ino = new
    BY <1>5, <2>2, <2>3, AllocIs
  <2>5. g = BmapIndirect(h, i, bn - NDIRECT)
    BY <1>5, <2>1, <2>3 DEF Bmap
  <2>6. h \in FsState
    BY <2>4 DEF Keeps
  <2>7. /\ Keeps(h, g) /\ g.di = h.di /\ g.panic = h.panic
        /\ \A j \in Inum : j # i => g.it[j] = h.it[j]
        /\ g.it[i].ino.type = h.it[i].ino.type
    BY <2>5, <2>6, BmapIndirectIs
  <2> QED
    BY <2>2, <2>4, <2>7, KeepsTrans
<1> QED
  BY <1>2, <1>3, <1>4, <1>5

LEMMA BfreeIs ==
  ASSUME NEW f \in FsState, NEW bs, NEW g, g = Bfree(f, bs)
  PROVE  /\ g \in FsState /\ g.it = f.it /\ g.di = f.di
         /\ g.panic = "no" => f.panic = "no" /\ bs \subseteq f.used /\ g.used = f.used \ bs
<1>1. CASE bs \subseteq f.used
  <2>1. PICK u : u = f.used \ bs
    OBVIOUS
  <2>2. g = [f EXCEPT !.used = u]
    BY <1>1, <2>1 DEF Bfree
  <2>3. u \in SUBSET (1 .. NBlocks)
    BY <2>1 DEF FsState
  <2> QED
    BY <1>1, <2>1, <2>2, <2>3 DEF FsState
<1>2. CASE ~(bs \subseteq f.used)
  <2>1. g = Panic(f, "freeing free block")
    BY <1>2 DEF Bfree
  <2>2. g \in FsState /\ g.it = f.it /\ g.di = f.di /\ g.used = f.used /\ g.panic # "no"
    BY <2>1, Messages, PanicIs
  <2> QED
    BY <2>2
<1> QED
  BY <1>1, <1>2

LEMMA UpdateKeeps ==
  ASSUME NEW f \in FsState, NEW i \in Inum, NEW ino \in Dinode, NEW g, g = Update(f, i, ino)
  PROVE  Keeps(f, g)
<1>1. /\ g \in FsState /\ g.panic = f.panic
      /\ \A j \in Inum : j # i => g.it[j] = f.it[j]
      /\ g.it[i].ref = f.it[i].ref /\ g.it[i].valid = f.it[i].valid /\ g.it[i].lock = f.it[i].lock
  BY UpdateIs
<1> QED
  BY <1>1 DEF Keeps

LEMMA AddLinksIs ==
  ASSUME NEW f \in FsState, NEW i \in Inum, NEW n \in Int, NEW g, g = AddLinks(f, i, n)
  PROVE  /\ Keeps(f, g) /\ g.panic = f.panic /\ g.used = f.used
         /\ \A j \in Inum : j # i => g.it[j] = f.it[j] /\ g.di[j] = f.di[j]
         /\ g.it[i].ino.type = f.it[i].ino.type
         /\ g.it[i].ino = [f.it[i].ino EXCEPT !.nlink = @ + n] /\ g.di[i] = g.it[i].ino
<1>1. f.it[i].ino \in Dinode
  BY StateIs
<1>2. PICK new : new = [f.it[i].ino EXCEPT !.nlink = @ + n]
  OBVIOUS
<1>3. new \in Dinode /\ new.type = f.it[i].ino.type
  <2>1. PICK old \in Dinode : old = f.it[i].ino
    BY <1>1
  <2>2. PICK m \in Int : m = old.nlink + n
    BY DinodeIs
  <2>3. new = [old EXCEPT !.nlink = m]
    BY <1>2, <2>1, <2>2
  <2> QED
    BY <2>1, <2>3 DEF Dinode
<1>4. g = Update(f, i, new)
  BY <1>2 DEF AddLinks
<1>5. /\ g \in FsState /\ g.used = f.used /\ g.panic = f.panic
      /\ \A j \in Inum : j # i => g.it[j] = f.it[j] /\ g.di[j] = f.di[j]
      /\ g.it[i].ino = new /\ g.di[i] = new
  BY <1>3, <1>4, UpdateIs
<1>6. Keeps(f, g)
  BY <1>3, <1>4, UpdateKeeps
<1> QED
  BY <1>2, <1>3, <1>5, <1>6

\* The inode that itrunc() leaves.
Emptied(ino) == [ino EXCEPT !.data = <<>>, !.addrs = <<>>, !.ind = 0, !.a = <<>>]

LEMMA EmptiedIs ==
  ASSUME NEW ino \in Dinode
  PROVE  /\ Emptied(ino) \in Dinode /\ Emptied(ino).type = ino.type
         /\ Emptied(ino).addrs = <<>> /\ Emptied(ino).ind = 0 /\ Emptied(ino).a = <<>>
<1>1. /\ <<>> \in Seq(1 .. NBlocks) /\ <<>> \in Seq(Word \X (0 .. NInodes)) /\ 0 \in 0 .. NBlocks
  BY EmptySeq, Sizes
<1> QED
  BY <1>1 DEF Emptied, Dinode

LEMMA ItruncIs ==
  ASSUME NEW f \in FsState, NEW i \in Inum, NEW g, g = Itrunc(f, i)
  PROVE  /\ Keeps(f, g)
         /\ \A j \in Inum : j # i => g.it[j] = f.it[j] /\ g.di[j] = f.di[j]
         /\ g.it[i].ino = Emptied(f.it[i].ino) /\ g.di[i] = Emptied(f.it[i].ino)
         /\ g.panic = "no" => /\ Blocks(f.it[i].ino) \subseteq f.used
                              /\ g.used = f.used \ Blocks(f.it[i].ino)
<1>1. f.it[i].ino \in Dinode
  BY StateIs
<1>2. PICK h : h = Bfree(f, Blocks(f.it[i].ino))
  OBVIOUS
<1>3. /\ h \in FsState /\ h.it = f.it /\ h.di = f.di
      /\ h.panic = "no" => /\ f.panic = "no" /\ Blocks(f.it[i].ino) \subseteq f.used
                           /\ h.used = f.used \ Blocks(f.it[i].ino)
  BY <1>2, BfreeIs
<1>4. g = Update(h, i, Emptied(f.it[i].ino))
  BY <1>2 DEF Itrunc, Emptied
<1>5. Emptied(f.it[i].ino) \in Dinode
  BY <1>1, EmptiedIs
<1>6. /\ g \in FsState /\ g.used = h.used /\ g.panic = h.panic
      /\ \A j \in Inum : j # i => g.it[j] = h.it[j] /\ g.di[j] = h.di[j]
      /\ g.it[i].ino = Emptied(f.it[i].ino) /\ g.di[i] = Emptied(f.it[i].ino)
  BY <1>3, <1>4, <1>5, UpdateIs
<1>7. Keeps(h, g)
  BY <1>3, <1>4, <1>5, UpdateKeeps
<1>8. Keeps(f, g)
  BY <1>3, <1>6, <1>7 DEF Keeps
<1> QED
  BY <1>3, <1>6, <1>8

LEMMA WriteiIs ==
  ASSUME NEW f \in FsState, NEW i \in Inum, NEW off \in Nat, NEW v \in Word \X (0 .. NInodes),
         NEW copied, NEW r, r = Writei(f, i, off, v, copied)
  PROVE  /\ r[1] \in BOOLEAN /\ Keeps(f, r[2]) /\ r[2].panic = f.panic
         /\ \A j \in Inum : j # i => r[2].it[j] = f.it[j] /\ r[2].di[j] = f.di[j]
         /\ r[2].it[i].ino.type = f.it[i].ino.type
         /\ r[2] = f \/ r[2].di[i] = r[2].it[i].ino
         /\ ~r[1] => r[2] = f \/ \E g : g = Bmap(f, i, off \div PerBlock)
                                        /\ r[2] = Update(g, i, g.it[i].ino)
<1>1. f.it[i].ino \in Dinode
  BY StateIs
<1>2. PICK ino : ino = f.it[i].ino
  OBVIOUS
<1>3. PICK g : g = Bmap(f, i, off \div PerBlock)
  OBVIOUS
<1>4. /\ Keeps(f, g) /\ g.di = f.di /\ g.panic = f.panic /\ g \in FsState
      /\ \A j \in Inum : j # i => g.it[j] = f.it[j]
      /\ g.it[i].ino.type = f.it[i].ino.type
  BY <1>3, BmapIs DEF Keeps
<1>5. g.it[i].ino \in Dinode
  BY <1>4, StateIs
<1>6. PICK data : data = IF off < Len(ino.data) THEN [ino.data EXCEPT ![off + 1] = v]
                         ELSE Append(ino.data, v)
  OBVIOUS
<1>7. data \in Seq(Word \X (0 .. NInodes))
  <2>1. ino.data \in Seq(Word \X (0 .. NInodes)) /\ Len(ino.data) \in Nat
    BY <1>1, <1>2, DinodeIs, LenProperties
  <2>2. CASE off < Len(ino.data)
    <3>1. off + 1 \in 1 .. Len(ino.data)
      BY <2>1, <2>2
    <3> QED
      BY <1>6, <2>1, <2>2, <3>1, ExceptSeq
  <2>3. CASE ~(off < Len(ino.data))
    BY <1>6, <2>1, <2>3, AppendProperties
  <2> QED
    BY <2>2, <2>3
<1>8. PICK new : new = [g.it[i].ino EXCEPT !.data = data]
  OBVIOUS
<1>9. new \in Dinode /\ new.type = g.it[i].ino.type
  BY <1>5, <1>7, <1>8 DEF Dinode
<1>10. \/ r = <<FALSE, f>>
       \/ r = <<TRUE, Update(g, i, new)>>
       \/ r = <<FALSE, Update(g, i, g.it[i].ino)>>
  <2> HIDE DEF Mapped
  <2> QED
    BY <1>2, <1>3, <1>6, <1>8 DEF Writei
<1>11. CASE r = <<FALSE, f>>
  BY <1>11, KeepsSelf
<1>12. CASE r = <<TRUE, Update(g, i, new)>>
  <2>1. PICK h : h = Update(g, i, new)
    OBVIOUS
  <2>2. Keeps(g, h)
    BY <1>4, <1>9, <2>1, UpdateKeeps
  <2>3. /\ h.panic = g.panic
        /\ \A j \in Inum : j # i => h.it[j] = g.it[j] /\ h.di[j] = g.di[j]
        /\ h.it[i].ino = new /\ h.di[i] = new
    BY <1>4, <1>9, <2>1, UpdateIs
  <2>4. r[1] = TRUE /\ r[2] = h
    BY <1>12, <2>1
  <2>5. Keeps(f, h)
    BY <1>4, <2>2, KeepsTrans
  <2> QED
    BY <1>4, <1>9, <2>3, <2>4, <2>5
<1>13. CASE r = <<FALSE, Update(g, i, g.it[i].ino)>>
  <2>1. PICK h : h = Update(g, i, g.it[i].ino)
    OBVIOUS
  <2>2. Keeps(g, h)
    BY <1>4, <1>5, <2>1, UpdateKeeps
  <2>3. /\ h.panic = g.panic
        /\ \A j \in Inum : j # i => h.it[j] = g.it[j] /\ h.di[j] = g.di[j]
        /\ h.it[i].ino = g.it[i].ino /\ h.di[i] = g.it[i].ino
    BY <1>4, <1>5, <2>1, UpdateIs
  <2>4. r[1] = FALSE /\ r[2] = h
    BY <1>13, <2>1
  <2>5. Keeps(f, h)
    BY <1>4, <2>2, KeepsTrans
  <2> QED
    BY <1>3, <1>4, <2>1, <2>3, <2>4, <2>5
<1> QED
  BY <1>10, <1>11, <1>12, <1>13

LEMMA DirlookupIs ==
  ASSUME NEW f \in FsState, NEW d \in Inum, NEW name, NEW k, k = Dirlookup(f, d, name)
  PROVE  /\ k \in 0 .. Len(f.it[d].ino.data)
         /\ k # 0 => Entry(f, d, k) \in Inum
<1>1. f.it[d].ino \in Dinode
  BY StateIs
<1>2. PICK data : data = f.it[d].ino.data
  OBVIOUS
<1>3. data \in Seq(Word \X (0 .. NInodes)) /\ Len(data) \in Nat
  BY <1>1, <1>2, DinodeIs, LenProperties
<1> DEFINE found == {n \in 1 .. Len(data) : data[n][2] # 0 /\ data[n][1] = name}
<1>4. k = IF found # {} THEN Min(found) ELSE 0
  BY <1>2 DEF Dirlookup, SelectInSeq
<1>5. CASE found = {}
  <2>1. k = 0
    BY <1>4, <1>5
  <2> QED
    BY <1>2, <1>3, <2>1
<1>6. CASE found # {}
  <2>1. PICK m \in found : \A n \in found : m <= n
    BY <1>3, <1>6, FirstOne
  <2>2. Min(found) \in found
    BY <2>1 DEF Min
  <2>3. k \in 1 .. Len(data) /\ data[k][2] # 0
    BY <1>4, <1>6, <2>2
  <2>4. data[k] \in Word \X (0 .. NInodes)
    BY <1>3, <2>3, ElementOfSeq
  <2>5. data[k][2] \in Inum
    BY <2>3, <2>4 DEF Inum
  <2> QED
    BY <1>2, <2>3, <2>5 DEF Entry
<1> QED
  BY <1>5, <1>6

LEMMA DirlinkIs ==
  ASSUME NEW f \in FsState, NEW d \in Inum, NEW name \in Word, NEW i \in Inum,
         NEW r, r = Dirlink(f, d, name, i)
  PROVE  /\ r[1] \in BOOLEAN /\ Keeps(f, r[2]) /\ r[2].panic = f.panic
         /\ \A j \in Inum : j # d => r[2].it[j] = f.it[j] /\ r[2].di[j] = f.di[j]
         /\ r[2].it[d].ino.type = f.it[d].ino.type
         /\ r[2] = f \/ r[2].di[d] = r[2].it[d].ino
<1>1. f.it[d].ino \in Dinode
  BY StateIs
<1>2. PICK data : data = f.it[d].ino.data
  OBVIOUS
<1>3. data \in Seq(Word \X (0 .. NInodes)) /\ Len(data) \in Nat
  BY <1>1, <1>2, DinodeIs, LenProperties
<1>4. CASE Dirlookup(f, d, name) # 0
  <2>1. r = <<FALSE, f>>
    BY <1>4 DEF Dirlink
  <2> QED
    BY <2>1, KeepsSelf
<1>5. CASE Dirlookup(f, d, name) = 0
  <2>1. PICK k : k = SelectInSeq(data, LAMBDA de : de[2] = 0)
    OBVIOUS
  <2>2. k \in Nat
    <3> DEFINE found == {n \in 1 .. Len(data) : data[n][2] = 0}
    <3>1. k = IF found # {} THEN Min(found) ELSE 0
      BY <2>1 DEF SelectInSeq
    <3>2. CASE found = {}
      BY <3>1, <3>2
    <3>3. CASE found # {}
      <4>1. PICK m \in found : \A n \in found : m <= n
        BY <1>3, <3>3, FirstOne
      <4>2. Min(found) \in found
        BY <4>1 DEF Min
      <4> QED
        BY <1>3, <3>1, <3>3, <4>2
    <3> QED
      BY <3>2, <3>3
  <2>3. PICK off : off = IF k = 0 THEN Len(data) ELSE k - 1
    OBVIOUS
  <2>4. off \in Nat
    BY <1>3, <2>2, <2>3
  <2>5. PICK v, copied : v = <<name, i>> /\ copied = TRUE
    OBVIOUS
  <2>6. r = Writei(f, d, off, v, copied)
    BY <1>2, <1>5, <2>1, <2>3, <2>5 DEF Dirlink
  <2>7. v \in Word \X (0 .. NInodes)
    BY <2>5 DEF Inum
  <2> QED
    BY SMTT(30), <2>4, <2>6, <2>7, WriteiIs
<1> QED
  BY <1>4, <1>5

LEMMA AsDirIs ==
  ASSUME NEW f \in FsState, NEW d \in Inum, NEW g, g = AsDir(f, d)
  PROVE  g \in FsState /\ g.it = f.it /\ g.di = f.di /\ g.used = f.used /\ (g.panic = "no" => g = f)
<1>1. CASE f.it[d].ino.type = "T_DIR"
  BY <1>1 DEF AsDir
<1>2. CASE f.it[d].ino.type # "T_DIR"
  <2>1. g = Panic(f, "dirlookup not DIR")
    BY <1>2 DEF AsDir
  <2>2. g \in FsState /\ g.it = f.it /\ g.di = f.di /\ g.used = f.used /\ g.panic # "no"
    BY ZenonT(60), <2>1, Messages, PanicIs
  <2> QED
    BY <2>2
<1> QED
  BY <1>1, <1>2

LEMMA DotsIs ==
  ASSUME NEW f \in FsState, NEW d \in Inum, NEW i \in Inum, NEW r, r = Dots(f, d, i)
  PROVE  /\ r[1] \in BOOLEAN /\ Keeps(f, r[2]) /\ r[2].panic = f.panic
         /\ \A j \in Inum : j # i => r[2].it[j] = f.it[j] /\ r[2].di[j] = f.di[j]
         /\ r[2].it[i].ino.type = f.it[i].ino.type
         /\ r[2] = f \/ r[2].di[i] = r[2].it[i].ino
<1>0. PICK self \in Word, up \in Word : self = "." /\ up = ".."
  BY Words
<1>1. PICK dot : dot = Dirlink(f, i, self, i)
  OBVIOUS
<1>2. /\ dot[1] \in BOOLEAN /\ Keeps(f, dot[2]) /\ dot[2].panic = f.panic
      /\ \A j \in Inum : j # i => dot[2].it[j] = f.it[j] /\ dot[2].di[j] = f.di[j]
      /\ dot[2].it[i].ino.type = f.it[i].ino.type
      /\ dot[2] = f \/ dot[2].di[i] = dot[2].it[i].ino
  BY <1>1, DirlinkIs
<1>3. CASE dot[1]
  <2>1. r = Dirlink(dot[2], i, up, d)
    BY <1>0, <1>1, <1>3 DEF Dots
  <2>2. dot[2] \in FsState
    BY <1>2 DEF Keeps
  <2>3. /\ r[1] \in BOOLEAN /\ Keeps(dot[2], r[2]) /\ r[2].panic = dot[2].panic
        /\ \A j \in Inum : j # i => r[2].it[j] = dot[2].it[j] /\ r[2].di[j] = dot[2].di[j]
        /\ r[2].it[i].ino.type = dot[2].it[i].ino.type
        /\ r[2] = dot[2] \/ r[2].di[i] = r[2].it[i].ino
    BY SMTT(30), <2>1, <2>2, DirlinkIs
  <2>4. Keeps(f, r[2])
    BY <1>2, <2>3, KeepsTrans
  <2> QED
    BY <1>2, <2>3, <2>4
<1>4. CASE ~dot[1]
  <2>1. r = dot
    BY <1>0, <1>1, <1>4 DEF Dots
  <2> QED
    BY <1>2, <2>1
<1> QED
  BY <1>3, <1>4

\* The state of the variables.
LEMMA StateType ==
  ASSUME FsType
  PROVE  /\ State \in FsState /\ State.it = itable /\ State.di = dinode /\ State.used = bitmap
         /\ State.panic = panic
  BY DEF FsType, FsState, State

LEMMA BecomeIs ==
  ASSUME NEW f, Become(f)
  PROVE  itable' = f.it /\ dinode' = f.di /\ bitmap' = f.used /\ panic' = f.panic
  BY DEF Become

----------------------------------------------------------------------------
(***************************************************************************)
(* The count of the references when one process moves                      *)
(***************************************************************************)
LEMMA SetChange ==
  ASSUME NEW S, NEW T, NEW p, NEW a, NEW b, IsFiniteSet(S), \A x : x # p => (x \in S <=> x \in T),
         a = IF p \in S THEN 1 ELSE 0, b = IF p \in T THEN 1 ELSE 0
  PROVE  IsFiniteSet(T) /\ Cardinality(T) = Cardinality(S) - a + b
<1>0. Cardinality(S) \in Nat
  BY FS_CardinalityType
<1>1. CASE p \in S /\ p \in T
  <2>1. S = T
    BY <1>1
  <2> QED
    BY <1>0, <1>1, <2>1
<1>2. CASE p \notin S /\ p \notin T
  <2>1. S = T
    BY <1>2
  <2> QED
    BY <1>0, <1>2, <2>1
<1>3. CASE p \in S /\ p \notin T
  <2>1. T = S \ {p}
    BY <1>3
  <2> QED
    BY <1>0, <1>3, <2>1, FS_RemoveElement
<1>4. CASE p \notin S /\ p \in T
  <2>1. T = S \union {p}
    BY <1>4
  <2> QED
    BY <1>0, <1>4, <2>1, FS_AddElement
<1> QED
  BY <1>1, <1>2, <1>3, <1>4

LEMMA PendingChange ==
  ASSUME NEW p \in Proc, NEW u \in [Proc -> Nat], NEW v \in [Proc -> Nat],
         \A q \in Proc : q # p => u[q] = v[q], NEW d \in {-1, 0, 1}, v[p] = u[p] + d,
         NEW S \in SUBSET (Proc \X (Nat \ {0})), IsFiniteSet(S),
         \A h \in Proc \X (Nat \ {0}) : h \in S <=> h[2] <= u[h[1]],
         NEW T \in SUBSET (Proc \X (Nat \ {0})),
         \A h \in Proc \X (Nat \ {0}) : h \in T <=> h[2] <= v[h[1]]
  PROVE  IsFiniteSet(T) /\ Cardinality(T) = Cardinality(S) + d
<1>0. Cardinality(S) \in Nat
  BY FS_CardinalityType
<1>1. CASE d = 0
  <2>1. \A q \in Proc : u[q] = v[q]
    BY <1>1
  <2>2. \A h \in Proc \X (Nat \ {0}) : h[2] <= u[h[1]] <=> h[2] <= v[h[1]]
    BY <2>1
  <2>3. S = T
    BY <2>2
  <2> QED
    BY <1>0, <1>1, <2>3
<1>2. CASE d = 1
  <2>1. PICK x : x = <<p, v[p]>>
    OBVIOUS
  <2>2. v[p] \in Nat \ {0} /\ v[p] = u[p] + 1 /\ u[p] \in Nat
    BY <1>2
  <2>3. x \notin S /\ x \in Proc \X (Nat \ {0})
    BY <2>1, <2>2
  <2>4. \A h \in Proc \X (Nat \ {0}) : h[2] <= v[h[1]] <=> (h[2] <= u[h[1]] \/ h = x)
    BY <2>1, <2>2
  <2>5. T = S \union {x}
    BY <2>3, <2>4
  <2> QED
    BY <1>0, <1>2, <2>3, <2>5, FS_AddElement
<1>3. CASE d = -1
  <2>1. PICK x : x = <<p, u[p]>>
    OBVIOUS
  <2>2. u[p] \in Nat \ {0} /\ v[p] = u[p] - 1 /\ v[p] \in Nat
    BY <1>3
  <2>3. x \in S
    BY <2>1, <2>2
  <2>4. \A h \in Proc \X (Nat \ {0}) : h[2] <= v[h[1]] <=> (h[2] <= u[h[1]] /\ h # x)
    BY <2>1, <2>2
  <2>5. T = S \ {x}
    BY <2>3, <2>4
  <2>6. IsFiniteSet(T) /\ Cardinality(T) = Cardinality(S) - 1
    BY <2>3, <2>5, FS_RemoveElement
  <2> QED
    BY <1>0, <1>3, <2>6
<1> QED
  BY <1>1, <1>2, <1>3

LEMMA UsesNat ==
  ASSUME NEW s, NEW r, NEW i
  PROVE  Uses(s, r, i) \in Nat /\ TodoRefs(s, i) \in Nat /\ TodoLocks(s, i) \in Nat
<1>1. PICK x1, x2, x3, x4, y1, y2, y3, y4, e \in Nat :
        /\ RefsAt(s, 1, i) = x1 /\ RefsAt(s, 2, i) = x2 /\ RefsAt(s, 3, i) = x3 /\ RefsAt(s, 4, i) = x4
        /\ LocksAt(s, 1, i) = y1 /\ LocksAt(s, 2, i) = y2 /\ LocksAt(s, 3, i) = y3 /\ LocksAt(s, 4, i) = y4
        /\ Eq(r, i) = e
  <2>1. Eq(r, i) \in Nat
    BY DEF Eq
  <2> QED
    BY <2>1, WeightsAt
<1>2. Uses(s, r, i) = x1 + x2 + x3 + x4 + e /\ TodoRefs(s, i) = x1 + x2 + x3 + x4
      /\ TodoLocks(s, i) = y1 + y2 + y3 + y4
  BY <1>1 DEF Uses, TodoRefs, TodoLocks
<1> QED
  BY <1>2

\* What a process holds of an inode besides what its steps do.
CwdAt(c, s, i) == IF c = i /\ ~Moving(s) THEN 1 ELSE 0
FileAt(x, i) == IF x # None /\ x.ip = i THEN 1 ELSE 0

\* A step of p: its call has the steps t left, and r in ret.
Turn(p, t, r) ==
  /\ todo' \in [Proc -> Seq(FsStep)] /\ ret' \in [Proc -> 0 .. NInodes]
  /\ todo'[p] = t /\ ret'[p] = r
  /\ \A q \in Proc : q # p => todo'[q] = todo[q] /\ ret'[q] = ret[q]

\* The other tables after a step of p.
Others(p, g) ==
  /\ itable' = g.it /\ dinode' = g.di /\ bitmap' = g.used /\ panic' = g.panic
  /\ file' \in [Proc -> OpenFile \union {None}] /\ cwd' \in [Proc -> Inum]
  /\ \A q \in Proc : q # p => file'[q] = file[q] /\ cwd'[q] = cwd[q]

LEMMA TurnCore ==
  ASSUME FsCore, NEW p \in Proc, NEW g \in FsState, Others(p, g), NEW t, NEW r, Turn(p, t, r),
         Shape(t), RetShape(t, r),
         \A i \in Inum :
           /\ Uses(t, r, i) - Uses(todo[p], ret[p], i) \in {-1, 0, 1}
           /\ g.it[i].ref = itable[i].ref + CwdAt(cwd'[p], t, i) - CwdAt(cwd[p], todo[p], i)
                            + FileAt(file'[p], i) - FileAt(file[p], i)
                            + Uses(t, r, i) - Uses(todo[p], ret[p], i)
           /\ Obliged(t, r, i) = IF g.it[i].lock = p THEN 1 ELSE 0
           /\ \/ g.it[i].lock = itable[i].lock
              \/ itable[i].lock \in {p, None} /\ g.it[i].lock \in {p, None}
  PROVE  FsCore'
<1>1. FsType'
  <2>1. itable' \in [Inum -> Ent] /\ dinode' \in [Inum -> Dinode] /\ bitmap' \in SUBSET (1 .. NBlocks)
        /\ panic' \in Message
    BY DEF Others, FsState
  <2> QED
    BY <2>1 DEF FsType, Others, Turn
<1>2. Shapes'
  BY DEF FsCore, Shapes, Turn
<1>3. RefsCount'
  <2>0. SUFFICES ASSUME NEW i \in Inum
                 PROVE  /\ IsFiniteSet(PendingOf(i)')
                        /\ itable'[i].ref = Cardinality(CwdOf(i)') + Cardinality(FileOf(i)')
                                            + Cardinality(PendingOf(i)')
    BY DEF RefsCount
  <2>1. /\ IsFiniteSet(PendingOf(i))
        /\ itable[i].ref = Cardinality(CwdOf(i)) + Cardinality(FileOf(i)) + Cardinality(PendingOf(i))
    BY DEF FsCore, RefsCount
  <2>2. PICK a, b \in Nat : a = CwdAt(cwd[p], todo[p], i) /\ b = CwdAt(cwd'[p], t, i)
    BY DEF CwdAt
  <2>3. IsFiniteSet(CwdOf(i)') /\ Cardinality(CwdOf(i)') = Cardinality(CwdOf(i)) - a + b
        /\ Cardinality(CwdOf(i)) \in Nat
    <3>1. PICK S, T : S = CwdOf(i) /\ T = CwdOf(i)'
      OBVIOUS
    <3>2. IsFiniteSet(S)
      BY <3>1, FS_Subset, Sizes DEF CwdOf
    <3>3. \A x : x # p => (x \in S <=> x \in T)
      BY <3>1 DEF CwdOf, Turn, Others
    <3>4. a = IF p \in S THEN 1 ELSE 0
      BY <2>2, <3>1 DEF CwdAt, CwdOf
    <3>5. b = IF p \in T THEN 1 ELSE 0
      BY <2>2, <3>1 DEF CwdAt, CwdOf, Turn
    <3>6. IsFiniteSet(T) /\ Cardinality(T) = Cardinality(S) - a + b
      BY <3>2, <3>3, <3>4, <3>5, SetChange
    <3> QED
      BY <3>1, <3>2, <3>6, FS_CardinalityType
  <2>4. PICK c, d \in Nat : c = FileAt(file[p], i) /\ d = FileAt(file'[p], i)
    BY DEF FileAt
  <2>5. IsFiniteSet(FileOf(i)') /\ Cardinality(FileOf(i)') = Cardinality(FileOf(i)) - c + d
        /\ Cardinality(FileOf(i)) \in Nat
    <3>1. PICK S, T : S = FileOf(i) /\ T = FileOf(i)'
      OBVIOUS
    <3>2. IsFiniteSet(S)
      BY <3>1, FS_Subset, Sizes DEF FileOf
    <3>3. \A x : x # p => (x \in S <=> x \in T)
      BY <3>1 DEF FileOf, Turn, Others
    <3>4. c = IF p \in S THEN 1 ELSE 0
      BY <2>4, <3>1 DEF FileAt, FileOf
    <3>5. d = IF p \in T THEN 1 ELSE 0
      BY <2>4, <3>1 DEF FileAt, FileOf, Others
    <3>6. IsFiniteSet(T) /\ Cardinality(T) = Cardinality(S) - c + d
      BY <3>2, <3>3, <3>4, <3>5, SetChange
    <3> QED
      BY <3>1, <3>2, <3>6, FS_CardinalityType
  <2>6. PICK e \in {-1, 0, 1} : e = Uses(t, r, i) - Uses(todo[p], ret[p], i)
    OBVIOUS
  <2>7. IsFiniteSet(PendingOf(i)') /\ Cardinality(PendingOf(i)') = Cardinality(PendingOf(i)) + e
    <3>1. PICK u : u = [q \in Proc |-> Uses(todo[q], ret[q], i)]
      OBVIOUS
    <3>2. PICK v : v = [q \in Proc |-> Uses(todo'[q], ret'[q], i)]
      OBVIOUS
    <3>3. u \in [Proc -> Nat] /\ v \in [Proc -> Nat]
      BY <3>1, <3>2, UsesNat
    <3>4. \A q \in Proc : q # p => u[q] = v[q]
      BY <3>1, <3>2 DEF Turn
    <3>5. v[p] = u[p] + e
      <4>1. v[p] = Uses(t, r, i) /\ u[p] = Uses(todo[p], ret[p], i)
        BY <3>1, <3>2 DEF Turn
      <4> QED
        BY <2>6, <3>3, <4>1
    <3>6. PICK S, T : S = PendingOf(i) /\ T = PendingOf(i)'
      OBVIOUS
    <3>7. /\ S \in SUBSET (Proc \X (Nat \ {0}))
          /\ \A h \in Proc \X (Nat \ {0}) : h \in S <=> h[2] <= u[h[1]]
      BY <3>1, <3>6 DEF PendingOf
    <3>8. /\ T \in SUBSET (Proc \X (Nat \ {0}))
          /\ \A h \in Proc \X (Nat \ {0}) : h \in T <=> h[2] <= v[h[1]]
      BY <3>2, <3>6 DEF PendingOf
    <3>9. IsFiniteSet(T) /\ Cardinality(T) = Cardinality(S) + e
      <4>1. IsFiniteSet(S)
        BY <2>1, <3>6
      <4> QED
        BY SMTT(30), <2>6, <3>3, <3>4, <3>5, <3>7, <3>8, <4>1, PendingChange
    <3> QED
      BY <3>6, <3>9
  <2>8. PICK k1, k2, k3 \in Nat : k1 = Cardinality(CwdOf(i)) /\ k2 = Cardinality(FileOf(i))
                                  /\ k3 = Cardinality(PendingOf(i))
    BY <2>1, <2>3, <2>5, FS_CardinalityType
  <2>9. PICK u1, u2 \in Nat : u1 = Uses(todo[p], ret[p], i) /\ u2 = Uses(t, r, i)
    BY UsesNat
  <2>10. itable'[i].ref = k1 + k2 + k3 + b - a + d - c + u2 - u1
    BY <2>1, <2>2, <2>4, <2>8, <2>9 DEF Others
  <2>11. e = u2 - u1
    BY <2>6, <2>9
  <2> QED
    BY <2>3, <2>5, <2>7, <2>8, <2>9, <2>10, <2>11
<1>4. LocksHeld'
  <2>1. SUFFICES ASSUME NEW i \in Inum, NEW q \in Proc
                 PROVE  Obliged(todo'[q], ret'[q], i) = IF itable'[i].lock = q THEN 1 ELSE 0
    BY DEF LocksHeld
  <2>2. CASE q = p
    BY <2>2 DEF Turn, Others
  <2>3. CASE q # p
    <3>0. todo'[q] = todo[q] /\ ret'[q] = ret[q]
      BY <2>3 DEF Turn
    <3>1. Obliged(todo[q], ret[q], i) = IF itable[i].lock = q THEN 1 ELSE 0
      BY DEF FsCore, LocksHeld
    <3>2. itable'[i].lock = q <=> itable[i].lock = q
      BY <2>3, Sizes DEF Others
    <3> QED
      BY <3>0, <3>1, <3>2
  <2> QED
    BY <2>2, <2>3
<1> QED
  BY <1>1, <1>2, <1>3, <1>4 DEF FsCore

----------------------------------------------------------------------------
(***************************************************************************)
(* A step of a call                                                        *)
(***************************************************************************)
LEMMA GoIs ==
  ASSUME FsType, NEW p \in Proc, NEW steps, NEW r \in 0 .. NInodes, Go(p, steps, r),
         NEW t \in Seq(FsStep), t = steps \o Tail(todo[p])
  PROVE  Turn(p, t, r)
  BY DEF FsType, Go, Turn

\* p makes no, one, two or three steps before the others of s, and has t left.
After0(p, s, t, r) ==
  /\ t \in Seq(FsStep) /\ Turn(p, t, r) /\ Len(t) = Len(s) - 1
  /\ \A n \in 1 .. Len(t) : t[n] = s[n + 1]
  /\ \A i \in Inum : TodoRefs(t, i) = TodoRefs(s, i) - Refs(s[1], i)
  /\ \A i \in Inum : TodoLocks(t, i) = TodoLocks(s, i) - Locks(s[1], i)

After1(p, s, t, a, r) ==
  /\ t \in Seq(FsStep) /\ Turn(p, t, r) /\ Len(t) = Len(s) /\ t[1] = a
  /\ \A n \in 2 .. Len(t) : t[n] = s[n]
  /\ \A i \in Inum : TodoRefs(t, i) = TodoRefs(s, i) - Refs(s[1], i) + Refs(a, i)
  /\ \A i \in Inum : TodoLocks(t, i) = TodoLocks(s, i) - Locks(s[1], i) + Locks(a, i)

After2(p, s, t, a, b, r) ==
  /\ t \in Seq(FsStep) /\ Turn(p, t, r) /\ Len(t) = Len(s) + 1 /\ t[1] = a /\ t[2] = b
  /\ \A n \in 3 .. Len(t) : t[n] = s[n - 1]
  /\ \A i \in Inum : TodoRefs(t, i) = TodoRefs(s, i) - Refs(s[1], i) + Refs(a, i) + Refs(b, i)
  /\ \A i \in Inum : TodoLocks(t, i) = TodoLocks(s, i) - Locks(s[1], i) + Locks(a, i) + Locks(b, i)

After3(p, s, t, a, b, c, r) ==
  /\ t \in Seq(FsStep) /\ Turn(p, t, r) /\ Len(t) = Len(s) + 2 /\ t[1] = a /\ t[2] = b /\ t[3] = c
  /\ \A n \in 4 .. Len(t) : t[n] = s[n - 2]
  /\ \A i \in Inum : TodoRefs(t, i) = TodoRefs(s, i) - Refs(s[1], i) + Refs(a, i) + Refs(b, i) + Refs(c, i)
  /\ \A i \in Inum : TodoLocks(t, i) = TodoLocks(s, i) - Locks(s[1], i) + Locks(a, i) + Locks(b, i) + Locks(c, i)

LEMMA Go0 ==
  ASSUME FsType, NEW p \in Proc, NEW s, s = todo[p], s # <<>>, Len(s) \in 1 .. 4,
         NEW r \in 0 .. NInodes, Go(p, <<>>, r)
  PROVE  \E t : After0(p, s, t, r)
<1>0. s \in Seq(FsStep)
  BY DEF FsType
<1>1. PICK t : t = <<>> \o Tail(s)
  OBVIOUS
<1>2. /\ t \in Seq(FsStep) /\ Len(t) = Len(s) - 1
      /\ \A n \in 1 .. Len(t) : t[n] = s[n + 1]
  BY <1>0, <1>1, Splice0
<1>3. Turn(p, t, r)
  BY <1>1, <1>2, GoIs
<1>5. ASSUME NEW i \in Inum
      PROVE  /\ TodoRefs(t, i) = TodoRefs(s, i) - Refs(s[1], i)
             /\ TodoLocks(t, i) = TodoLocks(s, i) - Locks(s[1], i)
  <2>1. /\ TodoRefs(t, i) = TodoRefs(s, i) - Refs(s[1], i)
        /\ TodoLocks(t, i) = TodoLocks(s, i) - Locks(s[1], i)
    BY <1>2, Sum0, SMTT(30)
  <2> QED
    BY <1>2, <2>1
<1> QED
  BY <1>2, <1>3, <1>5 DEF After0

LEMMA Go1 ==
  ASSUME FsType, NEW p \in Proc, NEW s, s = todo[p], s # <<>>, Len(s) \in 1 .. 4, NEW a \in FsStep,
         NEW r \in 0 .. NInodes, Go(p, <<a>>, r)
  PROVE  \E t : After1(p, s, t, a, r)
<1>0. s \in Seq(FsStep)
  BY DEF FsType
<1>1. PICK t : t = <<a>> \o Tail(s)
  OBVIOUS
<1>2. /\ t \in Seq(FsStep) /\ Len(t) = Len(s) /\ t[1] = a
      /\ \A n \in 2 .. Len(t) : t[n] = s[n]
  BY <1>0, <1>1, Splice1
<1>3. Turn(p, t, r)
  BY <1>1, <1>2, GoIs
<1>5. ASSUME NEW i \in Inum
      PROVE  /\ TodoRefs(t, i) = TodoRefs(s, i) - Refs(s[1], i) + Refs(a, i)
             /\ TodoLocks(t, i) = TodoLocks(s, i) - Locks(s[1], i) + Locks(a, i)
  <2>1. /\ TodoRefs(t, i) = TodoRefs(s, i) - Refs(s[1], i) + Refs(t[1], i)
        /\ TodoLocks(t, i) = TodoLocks(s, i) - Locks(s[1], i) + Locks(t[1], i)
    BY <1>2, Sum1, SMTT(30)
  <2> QED
    BY <1>2, <2>1
<1> QED
  BY <1>2, <1>3, <1>5 DEF After1

LEMMA Go2 ==
  ASSUME FsType, NEW p \in Proc, NEW s, s = todo[p], s # <<>>, Len(s) \in 1 .. 3, NEW a \in FsStep, NEW b \in FsStep,
         NEW r \in 0 .. NInodes, Go(p, <<a, b>>, r)
  PROVE  \E t : After2(p, s, t, a, b, r)
<1>0. s \in Seq(FsStep)
  BY DEF FsType
<1>1. PICK t : t = <<a, b>> \o Tail(s)
  OBVIOUS
<1>2. /\ t \in Seq(FsStep) /\ Len(t) = Len(s) + 1 /\ t[1] = a /\ t[2] = b
      /\ \A n \in 3 .. Len(t) : t[n] = s[n - 1]
  BY <1>0, <1>1, Splice2
<1>3. Turn(p, t, r)
  BY <1>1, <1>2, GoIs
<1>5. ASSUME NEW i \in Inum
      PROVE  /\ TodoRefs(t, i) = TodoRefs(s, i) - Refs(s[1], i) + Refs(a, i) + Refs(b, i)
             /\ TodoLocks(t, i) = TodoLocks(s, i) - Locks(s[1], i) + Locks(a, i) + Locks(b, i)
  <2>1. /\ TodoRefs(t, i) = TodoRefs(s, i) - Refs(s[1], i) + Refs(t[1], i) + Refs(t[2], i)
        /\ TodoLocks(t, i) = TodoLocks(s, i) - Locks(s[1], i) + Locks(t[1], i) + Locks(t[2], i)
    BY <1>2, Sum2, SMTT(30)
  <2> QED
    BY <1>2, <2>1
<1> QED
  BY <1>2, <1>3, <1>5 DEF After2

LEMMA Go3 ==
  ASSUME FsType, NEW p \in Proc, NEW s, s = todo[p], s # <<>>, Len(s) \in 1 .. 2, NEW a \in FsStep, NEW b \in FsStep, NEW c \in FsStep,
         NEW r \in 0 .. NInodes, Go(p, <<a, b, c>>, r)
  PROVE  \E t : After3(p, s, t, a, b, c, r)
<1>0. s \in Seq(FsStep)
  BY DEF FsType
<1>1. PICK t : t = <<a, b, c>> \o Tail(s)
  OBVIOUS
<1>2. /\ t \in Seq(FsStep) /\ Len(t) = Len(s) + 2 /\ t[1] = a /\ t[2] = b /\ t[3] = c
      /\ \A n \in 4 .. Len(t) : t[n] = s[n - 2]
  BY <1>0, <1>1, Splice3
<1>3. Turn(p, t, r)
  BY <1>1, <1>2, GoIs
<1>5. ASSUME NEW i \in Inum
      PROVE  /\ TodoRefs(t, i) = TodoRefs(s, i) - Refs(s[1], i) + Refs(a, i) + Refs(b, i) + Refs(c, i)
             /\ TodoLocks(t, i) = TodoLocks(s, i) - Locks(s[1], i) + Locks(a, i) + Locks(b, i) + Locks(c, i)
  <2>1. /\ TodoRefs(t, i) = TodoRefs(s, i) - Refs(s[1], i) + Refs(t[1], i) + Refs(t[2], i) + Refs(t[3], i)
        /\ TodoLocks(t, i) = TodoLocks(s, i) - Locks(s[1], i) + Locks(t[1], i) + Locks(t[2], i) + Locks(t[3], i)
    BY <1>2, Sum3, SMTT(30)
  <2> QED
    BY <1>2, <2>1
<1> QED
  BY <1>2, <1>3, <1>5 DEF After3

LEMMA FirstWeight ==
  ASSUME NEW s, Len(s) \in 1 .. 4, NEW r, NEW i
  PROVE  /\ Uses(s, r, i) >= Refs(s[1], i) + Eq(r, i)
         /\ TodoLocks(s, i) >= Locks(s[1], i)
         /\ Len(s) = 1 => TodoRefs(s, i) = Refs(s[1], i) /\ TodoLocks(s, i) = Locks(s[1], i)
         /\ Len(s) = 2 => /\ TodoRefs(s, i) = Refs(s[1], i) + Refs(s[2], i)
                          /\ TodoLocks(s, i) = Locks(s[1], i) + Locks(s[2], i)
<1>1. PICK x1, x2, x3, x4, y1, y2, y3, y4, e \in Nat :
        /\ RefsAt(s, 1, i) = x1 /\ RefsAt(s, 2, i) = x2 /\ RefsAt(s, 3, i) = x3 /\ RefsAt(s, 4, i) = x4
        /\ LocksAt(s, 1, i) = y1 /\ LocksAt(s, 2, i) = y2 /\ LocksAt(s, 3, i) = y3 /\ LocksAt(s, 4, i) = y4
        /\ Eq(r, i) = e
  <2>1. Eq(r, i) \in Nat
    BY DEF Eq
  <2> QED
    BY <2>1, WeightsAt
<1>2. Uses(s, r, i) = x1 + x2 + x3 + x4 + e /\ TodoRefs(s, i) = x1 + x2 + x3 + x4
      /\ TodoLocks(s, i) = y1 + y2 + y3 + y4
  BY <1>1 DEF Uses, TodoRefs, TodoLocks
<1>3. Refs(s[1], i) = x1 /\ Locks(s[1], i) = y1
  BY <1>1 DEF RefsAt, LocksAt
<1>4. CASE Len(s) = 1
  <2>1. x2 = 0 /\ x3 = 0 /\ x4 = 0 /\ y2 = 0 /\ y3 = 0 /\ y4 = 0
    BY <1>1, <1>4 DEF RefsAt, LocksAt
  <2> QED
    BY <1>1, <1>2, <1>3, <1>4, <2>1
<1>5. CASE Len(s) = 2
  <2>1. x3 = 0 /\ x4 = 0 /\ y3 = 0 /\ y4 = 0 /\ Refs(s[2], i) = x2 /\ Locks(s[2], i) = y2
    BY <1>1, <1>5 DEF RefsAt, LocksAt
  <2> QED
    BY <1>1, <1>2, <1>3, <1>5, <2>1
<1> QED
  BY <1>1, <1>2, <1>3, <1>4, <1>5

\* What is in use has a reference.
LEMMA Held ==
  ASSUME FsCore, NEW p \in Proc, NEW i \in Inum
  PROVE  /\ itable[i].ref \in Nat
         /\ Uses(todo[p], ret[p], i) >= 1 => itable[i].ref >= 1
         /\ FileAt(file[p], i) = 1 => itable[i].ref >= 1
         /\ CwdAt(cwd[p], todo[p], i) = 1 => itable[i].ref >= 1
<1>1. /\ IsFiniteSet(PendingOf(i))
      /\ itable[i].ref = Cardinality(CwdOf(i)) + Cardinality(FileOf(i)) + Cardinality(PendingOf(i))
  BY DEF FsCore, RefsCount
<1>2. IsFiniteSet(CwdOf(i)) /\ IsFiniteSet(FileOf(i))
  BY FS_Subset, Sizes DEF CwdOf, FileOf
<1>3. PICK k1, k2, k3 \in Nat : k1 = Cardinality(CwdOf(i)) /\ k2 = Cardinality(FileOf(i))
                                /\ k3 = Cardinality(PendingOf(i))
  BY <1>1, <1>2, FS_CardinalityType
<1>4. itable[i].ref = k1 + k2 + k3
  BY <1>1, <1>3
<1>5. Uses(todo[p], ret[p], i) >= 1 => k3 # 0
  <2>1. SUFFICES ASSUME Uses(todo[p], ret[p], i) >= 1 PROVE k3 # 0
    OBVIOUS
  <2>2. <<p, 1>> \in PendingOf(i)
    BY <2>1 DEF PendingOf
  <2> QED
    BY <1>1, <1>3, <2>2, FS_EmptySet
<1>6. FileAt(file[p], i) = 1 => k2 # 0
  <2>1. SUFFICES ASSUME FileAt(file[p], i) = 1 PROVE k2 # 0
    OBVIOUS
  <2>2. p \in FileOf(i)
    BY <2>1 DEF FileOf, FileAt
  <2> QED
    BY <1>2, <1>3, <2>2, FS_EmptySet
<1>7. CwdAt(cwd[p], todo[p], i) = 1 => k1 # 0
  <2>1. SUFFICES ASSUME CwdAt(cwd[p], todo[p], i) = 1 PROVE k1 # 0
    OBVIOUS
  <2>2. p \in CwdOf(i)
    BY <2>1 DEF CwdOf, CwdAt
  <2> QED
    BY <1>2, <1>3, <2>2, FS_EmptySet
<1> QED
  BY <1>3, <1>4, <1>5, <1>6, <1>7

\* The first step of a call.
LEMMA AtIs ==
  ASSUME FsCore, NEW p \in Proc, NEW k, At(p, k), NEW s, s = todo[p], NEW r, r = ret[p]
  PROVE  /\ panic = "no" /\ s \in Seq(FsStep) /\ s # <<>> /\ Len(s) \in 1 .. 4 /\ s[1] \in FsStep
         /\ s[1][1] = k /\ Shape(s) /\ RetShape(s, r) /\ r \in 0 .. NInodes /\ FsType
<1>1. s \in Seq(FsStep) /\ r \in 0 .. NInodes /\ FsType /\ Shape(s) /\ RetShape(s, r)
  BY DEF FsCore, FsType, Shapes
<1>2. panic = "no" /\ s # <<>> /\ s[1][1] = k
  BY DEF At
<1>3. Len(s) \in 1 .. 4
  BY <1>1, <1>2, ShapeLen
<1>4. s[1] \in FsStep
  BY <1>1, <1>3, ElementOfSeq
<1> QED
  BY <1>1, <1>2, <1>3, <1>4

\* A step that leaves the open files and the directories alone.
LEMMA TurnSame ==
  ASSUME FsCore, NEW p \in Proc, NEW s, s = todo[p], NEW q, q = ret[p], NEW g \in FsState,
         itable' = g.it, dinode' = g.di, bitmap' = g.used, panic' = g.panic, UNCHANGED <<file, cwd>>,
         NEW t, NEW r, Turn(p, t, r), Shape(t), RetShape(t, r), Moving(t) <=> Moving(s),
         \A i \in Inum :
           /\ Uses(t, r, i) - Uses(s, q, i) \in {-1, 0, 1}
           /\ g.it[i].ref = itable[i].ref + Uses(t, r, i) - Uses(s, q, i)
           /\ Obliged(t, r, i) = IF g.it[i].lock = p THEN 1 ELSE 0
           /\ \/ g.it[i].lock = itable[i].lock
              \/ itable[i].lock \in {p, None} /\ g.it[i].lock \in {p, None}
  PROVE  FsCore'
<1>1. Others(p, g)
  BY DEF Others, FsCore, FsType
<1>2. ASSUME NEW i \in Inum
      PROVE  /\ Uses(t, r, i) - Uses(todo[p], ret[p], i) \in {-1, 0, 1}
             /\ g.it[i].ref = itable[i].ref + CwdAt(cwd'[p], t, i) - CwdAt(cwd[p], todo[p], i)
                              + FileAt(file'[p], i) - FileAt(file[p], i)
                              + Uses(t, r, i) - Uses(todo[p], ret[p], i)
             /\ Obliged(t, r, i) = IF g.it[i].lock = p THEN 1 ELSE 0
             /\ \/ g.it[i].lock = itable[i].lock
                \/ itable[i].lock \in {p, None} /\ g.it[i].lock \in {p, None}
  <2>1. PICK a, b \in Nat : a = CwdAt(cwd[p], s, i) /\ b = FileAt(file[p], i)
    BY DEF CwdAt, FileAt
  <2>2. CwdAt(cwd'[p], t, i) = a /\ FileAt(file'[p], i) = b
    BY <2>1 DEF CwdAt
  <2>3. PICK u, v \in Nat : u = Uses(s, q, i) /\ v = Uses(t, r, i)
    BY UsesNat
  <2>4. itable[i].ref \in Nat
    BY Held
  <2>5. g.it[i].ref = itable[i].ref + b - b + a - a + v - u
    BY <2>1, <2>3, <2>4
  <2>6. g.it[i].ref = itable[i].ref + CwdAt(cwd'[p], t, i) - CwdAt(cwd[p], todo[p], i)
                              + FileAt(file'[p], i) - FileAt(file[p], i)
                              + Uses(t, r, i) - Uses(todo[p], ret[p], i)
    BY <2>1, <2>2, <2>3, <2>4, <2>5
  <2> QED
    BY <2>6
<1> QED
  BY <1>1, <1>2, TurnCore

----------------------------------------------------------------------------
(***************************************************************************)
(* The steps of iput()                                                     *)
(***************************************************************************)
LEMMA EmptyIs ==
  ASSUME NEW s \in Seq(FsStep)
  PROVE  Len(s) \in Nat /\ (s = <<>> <=> Len(s) = 0)
  BY EmptySeq, LenProperties

\* The last step decides whether the call is a chdir() half way.
LEMMA MovingSame ==
  ASSUME NEW s \in Seq(FsStep), NEW t \in Seq(FsStep), Len(s) \in 1 .. 4, Len(t) \in 1 .. 4, t[Len(t)] = s[Len(s)]
  PROVE  Moving(t) <=> Moving(s)
<1>1. s # <<>> /\ t # <<>>
  BY EmptyIs
<1> QED
  BY <1>1 DEF Moving

LEMMA MovingNot ==
  ASSUME NEW s \in Seq(FsStep), Len(s) = 0 \/ (Len(s) \in 1 .. 4 /\ s[Len(s)][1] # "setcwd")
  PROVE  ~Moving(s)
<1>1. s # <<>> => Len(s) # 0
  BY EmptyIs
<1> QED
  BY <1>1 DEF Moving

\* A step of iput() is followed by another one of it.
LEMMA PutGoesOn ==
  ASSUME FsCore, NEW p \in Proc, NEW s, s = todo[p], NEW r, r = ret[p], todo[p] # <<>>,
         s[1][1] \in Putting, NEW i, i = s[1][2],
         NEW a \in FsStep, a[1] \in {"free", "invalid", "drop"}, a[2] = i,
         Go(p, <<a>>, r), UNCHANGED <<file, cwd>>,
         NEW g \in FsState, itable' = g.it, dinode' = g.di, bitmap' = g.used, panic' = g.panic,
         \A j \in Inum : /\ g.it[j].ref = itable[j].ref
                         /\ j # i => g.it[j].lock = itable[j].lock,
         itable[i].lock \in {p, None}, s[1][1] \notin Locking => itable[i].lock = None,
         g.it[i].lock = IF a[1] \in Locking THEN p ELSE None
  PROVE  FsCore'
<1>2. /\ s \in Seq(FsStep) /\ Len(s) \in 1 .. 4 /\ s[1] \in FsStep
      /\ Shape(s) /\ RetShape(s, r) /\ r \in 0 .. NInodes /\ FsType
  <2>1. s \in Seq(FsStep) /\ r \in 0 .. NInodes /\ FsType /\ Shape(s) /\ RetShape(s, r)
    BY DEF FsCore, FsType, Shapes
  <2>2. Len(s) \in 1 .. 4
    BY <2>1, ShapeLen
  <2> QED
    BY <2>1, <2>2, ElementOfSeq
<1>3. i \in Inum
  BY <1>2, StepArgs DEF Using
<1>0. PICK t : After1(p, s, t, a, r)
  BY <1>2, Go1
<1>6. /\ t \in Seq(FsStep) /\ Turn(p, t, r) /\ Len(t) = Len(s) /\ t[1] = a
      /\ \A n \in 2 .. Len(t) : t[n] = s[n]
      /\ \A j \in Inum : TodoRefs(t, j) = TodoRefs(s, j) - Refs(s[1], j) + Refs(a, j)
      /\ \A j \in Inum : TodoLocks(t, j) = TodoLocks(s, j) - Locks(s[1], j) + Locks(a, j)
  BY <1>0 DEF After1
<1>7. /\ Shape(t) /\ RetShape(t, r)
      /\ r # 0 => RetLocked(s) /\ RetLocked(t)
  <2>1. t[1][1] \in Putting
    BY <1>6 DEF Putting
  <2> QED
    BY <1>2, <1>6, <2>1, ShapeHead
<1>8. Moving(t) <=> Moving(s)
  <2>1. CASE Len(s) = 1
    <3>1. t[1][1] # "setcwd" /\ s[1][1] # "setcwd"
      BY <1>2, <1>6 DEF Putting
    <3> QED
      BY <1>2, <1>6, <2>1, <3>1, MovingNot
  <2>2. CASE Len(s) # 1
    <3>1. Len(s) \in 2 .. Len(t) /\ Len(t) \in 1 .. 4
      BY <1>2, <1>6, <2>2
    <3>2. t[Len(t)] = s[Len(s)]
      BY <1>6, <3>1
    <3> QED
      BY <1>2, <1>6, <3>1, <3>2, MovingSame
  <2> QED
    BY <2>1, <2>2
<1>9. ASSUME NEW j \in Inum
      PROVE  /\ Uses(t, r, j) - Uses(s, r, j) \in {-1, 0, 1}
             /\ g.it[j].ref = itable[j].ref + Uses(t, r, j) - Uses(s, r, j)
             /\ Obliged(t, r, j) = IF g.it[j].lock = p THEN 1 ELSE 0
             /\ \/ g.it[j].lock = itable[j].lock
                \/ itable[j].lock \in {p, None} /\ g.it[j].lock \in {p, None}
  <2>1. Refs(s[1], j) = Eq(i, j) /\ Refs(a, j) = Eq(i, j)
    <3>1. s[1][1] \in Using \ {"fill", "unlinkfile"} /\ a[1] \in Using \ {"fill", "unlinkfile"}
      BY <1>2 DEF Using, Putting
    <3> QED
      BY <1>3, <3>1, Weights
  <2>2. PICK x, y, e, x1, y1 \in Nat :
          /\ x = TodoRefs(s, j) /\ y = TodoLocks(s, j) /\ e = Eq(i, j)
          /\ x1 = TodoRefs(t, j) /\ y1 = TodoLocks(t, j)
    BY UsesNat DEF Eq
  <2>3. x1 = x
    BY <1>6, <2>1, <2>2
  <2>4. Uses(t, r, j) = Uses(s, r, j)
    BY <2>2, <2>3 DEF Uses
  <2>5. PICK u \in Nat : u = Uses(s, r, j)
    BY UsesNat
  <2>6. itable[j].ref \in Nat
    BY Held
  <2>7. PICK l1, l2 \in Nat : l1 = Locks(s[1], j) /\ l2 = Locks(a, j)
    BY Weights
  <2>8. y1 = y - l1 + l2
    BY <1>6, <2>2, <2>7
  <2>9. l2 = IF a[1] \in Locking THEN e ELSE 0
    BY <2>2, <2>7, Weights
  <2>10. l1 = IF s[1][1] \in Locking THEN e ELSE 0
    BY SMTT(30), <1>2, <1>3, <2>2, <2>7, Weights
  <2>11. Obliged(s, r, j) = IF itable[j].lock = p THEN 1 ELSE 0
    BY DEF FsCore, LocksHeld
  <2>12. PICK z \in Nat : z = RetLock(s, r, j)
    BY DEF RetLock
  <2>13. Obliged(s, r, j) = y + z
    BY <2>2, <2>12 DEF Obliged
  <2>14. z = RetLock(t, r, j)
    BY <1>7, <2>12 DEF Inum, RetLock
  <2>15. Obliged(t, r, j) = y - l1 + l2 + z
    BY <2>2, <2>8, <2>14 DEF Obliged
  <2>16. l1 <= y
    BY <1>2, <2>2, <2>7, FirstWeight
  <2>17. Obliged(t, r, j) = IF g.it[j].lock = p THEN 1 ELSE 0
    <3>1. CASE j = i
      <4>1. e = 1
        BY <2>2, <3>1 DEF Eq
      <4>2. itable[i].lock = p => y + z = 1
        BY <2>11, <2>13, <3>1
      <4>3. itable[i].lock = None => y + z = 0
        BY <2>11, <2>13, <3>1, Sizes
      <4>4. g.it[i].lock = p <=> a[1] \in Locking
        BY Sizes
      <4>5. s[1][1] \in Locking => itable[i].lock = p
        BY <2>10, <2>16, <4>1, <4>3
      <4>6. s[1][1] \notin Locking => itable[i].lock = None
        OBVIOUS
      <4> QED
        <5>1. y + z = l1
          BY <2>10, <4>1, <4>2, <4>3, <4>5, <4>6
        <5>2. Obliged(t, r, j) = l2
          BY <2>15, <5>1
        <5>3. l2 = IF g.it[i].lock = p THEN 1 ELSE 0
          BY <2>9, <4>1, <4>4
        <5> QED
          BY <3>1, <5>2, <5>3
    <3>2. CASE j # i
      <4>1. e = 0
        BY <2>2, <3>2 DEF Eq
      <4> QED
        BY <2>9, <2>10, <2>11, <2>13, <2>15, <3>2, <4>1
    <3> QED
      BY <3>1, <3>2
  <2>18. \/ g.it[j].lock = itable[j].lock
         \/ itable[j].lock \in {p, None} /\ g.it[j].lock \in {p, None}
    OBVIOUS
  <2> QED
    BY <2>4, <2>5, <2>6, <2>17, <2>18
<1> QED
  BY <1>2, <1>6, <1>7, <1>8, <1>9, TurnSame

\* iput() is done, or an unlock.
LEMMA StepEnds ==
  ASSUME FsCore, NEW p \in Proc, NEW s, s = todo[p], NEW r, r = ret[p], todo[p] # <<>>,
         s[1][1] \in {"put", "drop", "unlock"}, NEW i, i = s[1][2],
         Go(p, <<>>, r), UNCHANGED <<file, cwd>>,
         NEW g \in FsState, itable' = g.it, dinode' = g.di, bitmap' = g.used, panic' = g.panic,
         \A j \in Inum : j # i => g.it[j].ref = itable[j].ref /\ g.it[j].lock = itable[j].lock,
         g.it[i].ref = IF s[1][1] \in Using THEN itable[i].ref - 1 ELSE itable[i].ref,
         s[1][1] \in Locking => itable[i].lock = p /\ g.it[i].lock = None,
         s[1][1] \notin Locking => g.it[i].lock = itable[i].lock
  PROVE  FsCore'
<1>2. /\ s \in Seq(FsStep) /\ Len(s) \in 1 .. 4 /\ s[1] \in FsStep
      /\ Shape(s) /\ RetShape(s, r) /\ r \in 0 .. NInodes /\ FsType
  <2>1. s \in Seq(FsStep) /\ r \in 0 .. NInodes /\ FsType /\ Shape(s) /\ RetShape(s, r)
    BY DEF FsCore, FsType, Shapes
  <2>2. Len(s) \in 1 .. 4
    BY <2>1, ShapeLen
  <2> QED
    BY <2>1, <2>2, ElementOfSeq
<1>3. i \in Inum
  BY <1>2, StepArgs DEF Using, Putting
<1>4. PICK t : After0(p, s, t, r)
  BY <1>2, Go0
<1>5. /\ t \in Seq(FsStep) /\ Turn(p, t, r) /\ Len(t) = Len(s) - 1
      /\ \A n \in 1 .. Len(t) : t[n] = s[n + 1]
      /\ \A j \in Inum : TodoRefs(t, j) = TodoRefs(s, j) - Refs(s[1], j)
      /\ \A j \in Inum : TodoLocks(t, j) = TodoLocks(s, j) - Locks(s[1], j)
  BY <1>4 DEF After0
<1>6. /\ Shape(t) /\ RetShape(t, r)
      /\ r # 0 => RetLocked(s) /\ RetLocked(t)
  <2>1. CASE s[1][1] = "unlock"
    <3>1. r = 0
      BY <1>2, <2>1, RetNone DEF Putting
    <3>2. UnlockFrom(s, 1)
      BY <1>2, <2>1, ShapeKinds
    <3>3. Shape(t)
      <4>1. Len(t) \in 0 .. 3 /\ Len(t) > 0 /\ t[1][1] = "put"
        BY <1>2, <1>5, <3>2 DEF UnlockFrom
      <4>2. EndFrom(t, 2)
        BY <1>2, <1>5, <3>2 DEF UnlockFrom, EndFrom
      <4> QED
        BY <4>1, <4>2 DEF Shape, StepsFrom, MainFrom, Putting
    <3> QED
      BY <3>1, <3>3 DEF RetShape
  <2>2. CASE s[1][1] \in Putting
    BY <1>2, <1>5, <2>2, ShapeTail
  <2> QED
    BY <2>1, <2>2 DEF Putting
<1>7. Moving(t) <=> Moving(s)
  <2>1. CASE Len(s) = 1
    <3>1. s[Len(s)][1] # "setcwd" /\ Len(t) = 0
      BY <1>5, <2>1
    <3> QED
      BY <1>2, <1>5, <2>1, <3>1, MovingNot
  <2>2. CASE Len(s) # 1
    <3>0. PICK n \in 1 .. 4 : n = Len(s)
      BY <1>2
    <3>3. PICK m \in 1 .. 3 : m = n - 1
      BY <2>2, <3>0
    <3>4. m = Len(t) /\ m + 1 = Len(s)
      BY <1>5, <3>0, <3>3
    <3>1. Len(t) \in 1 .. Len(t) /\ Len(t) \in 1 .. 4 /\ Len(t) + 1 = Len(s)
      BY <3>3, <3>4
    <3>2. t[Len(t)] = s[Len(s)]
      BY <1>5, <3>1
    <3> QED
      BY <1>2, <1>5, <3>1, <3>2, MovingSame
  <2> QED
    BY <2>1, <2>2
<1>8. ASSUME NEW j \in Inum
      PROVE  /\ Uses(t, r, j) - Uses(s, r, j) \in {-1, 0, 1}
             /\ g.it[j].ref = itable[j].ref + Uses(t, r, j) - Uses(s, r, j)
             /\ Obliged(t, r, j) = IF g.it[j].lock = p THEN 1 ELSE 0
             /\ \/ g.it[j].lock = itable[j].lock
                \/ itable[j].lock \in {p, None} /\ g.it[j].lock \in {p, None}
  <2>1. PICK k1, k2, l1, l2, u1, u2, v1, v2, d, e, w \in Nat :
          /\ k1 = TodoRefs(s, j) /\ k2 = TodoRefs(t, j) /\ l1 = TodoLocks(s, j) /\ l2 = TodoLocks(t, j)
          /\ u1 = Refs(s[1], j) /\ v1 = Locks(s[1], j) /\ e = Eq(i, j) /\ d = Eq(r, j) /\ w = itable[j].ref
    BY UsesNat, Weights, Held DEF Eq
  <2>2. k2 = k1 - u1 /\ l2 = l1 - v1
    BY <1>5, <2>1
  <2>3. Uses(s, r, j) = k1 + d /\ Uses(t, r, j) = k2 + d
    BY <2>1 DEF Uses
  <2>4. u1 = (IF s[1][1] \in Using THEN e ELSE 0) /\ v1 = (IF s[1][1] \in Locking THEN e ELSE 0)
    <3>1. s[1][1] \notin {"fill", "unlinkfile"}
      OBVIOUS
    <3> QED
      BY SMTT(30), <2>1, <3>1, Weights
  <2>5. Obliged(s, r, j) = IF itable[j].lock = p THEN 1 ELSE 0
    BY DEF FsCore, LocksHeld
  <2>6. PICK z \in Nat : z = RetLock(s, r, j)
    BY DEF RetLock
  <2>7. z = RetLock(t, r, j)
    BY <1>6, <2>6 DEF Inum, RetLock
  <2>8. Obliged(s, r, j) = l1 + z /\ Obliged(t, r, j) = l2 + z
    BY <2>1, <2>6, <2>7 DEF Obliged
  <2>9. CASE j = i
    <3>1. e = 1
      BY <2>1, <2>9 DEF Eq
    <3>2. g.it[j].ref = w - u1
      BY <2>1, <2>4, <2>9, <3>1
    <3>3. s[1][1] \in Locking => l2 + z = 0
      BY <2>2, <2>4, <2>5, <2>8, <2>9, <3>1
    <3>4. s[1][1] \notin Locking => l2 = l1
      BY <2>1, <2>2, <2>4
    <3>5. Obliged(t, r, j) = IF g.it[j].lock = p THEN 1 ELSE 0
      BY <2>5, <2>8, <2>9, <3>3, <3>4, Sizes
    <3>6. g.it[j].ref = itable[j].ref + Uses(t, r, j) - Uses(s, r, j) /\ Uses(t, r, j) - Uses(s, r, j) = -u1
      <4>1. /\ Uses(s, r, j) = k1 + d /\ Uses(t, r, j) = (k1 - u1) + d
            /\ g.it[j].ref = w - u1 /\ itable[j].ref = w
        BY <2>1, <2>2, <2>3, <3>2
      <4> QED
        BY <4>1
    <3>7. u1 \in {0, 1}
      BY <2>4, <3>1
    <3> QED
      BY <2>9, <3>5, <3>6, <3>7
  <2>10. CASE j # i
    <3>1. u1 = 0 /\ v1 = 0
      BY <2>1, <2>4, <2>10 DEF Eq
    <3>2. Uses(t, r, j) = Uses(s, r, j) /\ Uses(s, r, j) \in Nat
      BY <2>1, <2>2, <2>3, <3>1
    <3>3. g.it[j].ref = itable[j].ref /\ g.it[j].lock = itable[j].lock /\ itable[j].ref \in Nat
      BY <2>1, <2>10
    <3>4. Obliged(t, r, j) = IF g.it[j].lock = p THEN 1 ELSE 0
      BY <2>1, <2>2, <2>5, <2>8, <3>1, <3>3
    <3> QED
      BY <3>2, <3>3, <3>4
  <2> QED
    BY <2>9, <2>10
<1> QED
  BY <1>5, <1>6, <1>7, <1>8, TurnSame

\* A call that panics does not return.
LEMMA Sticks ==
  ASSUME NEW p \in Proc, NEW t \in Seq(FsStep), NEW r, Turn(p, t, r), Len(t) # 0, panic' # "no"
  PROVE  Stuck'
<1>1. todo'[p] # <<>>
  BY EmptyIs DEF Turn
<1> QED
  BY <1>1 DEF Stuck

SetLock(f, i, l) == [f EXCEPT !.it[i].lock = l]

LEMMA SetLockIs ==
  ASSUME NEW f \in FsState, NEW i \in Inum, NEW l \in Proc \union {None}, NEW g, g = SetLock(f, i, l)
  PROVE  /\ g \in FsState /\ g.di = f.di /\ g.used = f.used /\ g.panic = f.panic
         /\ \A j \in Inum : j # i => g.it[j] = f.it[j]
         /\ g.it[i].ref = f.it[i].ref /\ g.it[i].valid = f.it[i].valid
         /\ g.it[i].lock = l /\ g.it[i].ino = f.it[i].ino
<1>1. /\ f.it[i] \in Ent /\ f.it[i].ref \in Int /\ f.it[i].valid \in BOOLEAN
      /\ f.it[i].lock \in Proc \union {None} /\ f.it[i].ino \in Dinode
  BY StateIs
<1>2. PICK e : e = [f.it[i] EXCEPT !.lock = l]
  OBVIOUS
<1>3. e \in Ent /\ e.ref = f.it[i].ref /\ e.valid = f.it[i].valid /\ e.lock = l
      /\ e.ino = f.it[i].ino
  BY <1>1, <1>2 DEF Ent
<1>4. g = PutEnt(f, i, e)
  BY <1>2 DEF SetLock, FsState, PutEnt
<1> QED
  BY <1>3, <1>4, EntryIs

LEMMA PutGoes ==
  ASSUME FsCore, NEW p \in Proc, Put(p)
  PROVE  FsCore' \/ Stuck'
<1>1. PICK s, r, i : s = todo[p] /\ r = ret[p] /\ i = Arg(p, 1)
  OBVIOUS
<1>2. At(p, "put") /\ UNCHANGED <<file, cwd>>
  BY DEF Put
<1>3. /\ panic = "no" /\ s \in Seq(FsStep) /\ s # <<>> /\ Len(s) \in 1 .. 4 /\ s[1] \in FsStep
      /\ s[1][1] = "put" /\ Shape(s) /\ RetShape(s, r) /\ r \in 0 .. NInodes /\ FsType
  BY <1>1, <1>2, AtIs
<1>4. i = s[1][2] /\ i \in Inum
  <2>1. i = s[1][2]
    BY <1>1 DEF Arg
  <2> QED
    BY <1>3, <2>1, StepArgs DEF Using, Putting
<1>5. /\ State \in FsState /\ State.it = itable /\ State.di = dinode /\ State.used = bitmap
      /\ State.panic = panic
  BY <1>3, StateType
<1>6. CASE LastUse(i) /\ Unlocked(i)
  <2>1. PICK g : g = SetLock(State, i, p)
    OBVIOUS
  <2>2. Become(g) /\ Go(p, <<<<"free", i>>>>, r)
    BY <1>1, <1>6, <2>1 DEF Put, SetLock
  <2>3. /\ g \in FsState
        /\ \A j \in Inum : j # i => g.it[j] = itable[j]
        /\ g.it[i].ref = itable[i].ref /\ g.it[i].lock = p
    BY <1>4, <1>5, <2>1, SetLockIs
  <2>4. itable' = g.it /\ dinode' = g.di /\ bitmap' = g.used /\ panic' = g.panic
    BY <2>2, BecomeIs
  <2>5. PICK a : a = <<"free", i>>
    OBVIOUS
  <2>8. a \in FsStep /\ a[1] \in {"free", "invalid", "drop"} /\ a[2] = i /\ Go(p, <<a>>, r) /\ a[1] \in Locking
    BY <1>4, <2>2, <2>5, StepsAre DEF Putting, Locking
  <2>9. s[1][1] \in Putting
    BY <1>3 DEF Putting
  <2>6. itable[i].lock = None
    BY <1>6 DEF Unlocked
  <2>7. FsCore'
    BY <1>1, <1>2, <1>3, <1>4, <2>3, <2>4, <2>6, <2>8, <2>9, PutGoesOn
  <2> QED
    BY <2>7
<1>7. CASE LastUse(i) /\ ~Unlocked(i)
  <2>1. PICK g : g = Panic(State, "sched locks")
    OBVIOUS
  <2>2. Become(g) /\ Go(p, <<<<"free", i>>>>, r)
    BY <1>1, <1>7, <2>1 DEF Put
  <2>3. panic' # "no"
    <3>1. g.panic # "no"
      BY <1>5, <2>1, Messages, PanicIs
    <3> QED
      BY <2>2, <3>1, BecomeIs
  <2>4. PICK a \in FsStep : a = <<"free", i>>
    BY <1>4, StepsAre DEF Putting
  <2>5. PICK t : After1(p, s, t, a, r)
    <3>1. Go(p, <<a>>, r)
      BY <2>2, <2>4
    <3> QED
      BY <1>1, <1>3, <3>1, Go1
  <2>6. t \in Seq(FsStep) /\ Turn(p, t, r) /\ Len(t) = Len(s)
    BY <2>5 DEF After1
  <2>7. Len(t) # 0
    BY <1>3, <2>6
  <2> QED
    BY <2>3, <2>6, <2>7, Sticks
<1>8. CASE ~LastUse(i)
  <2>1. PICK g : g = Drop(State, i)
    OBVIOUS
  <2>2. Become(g) /\ Go(p, <<>>, r)
    BY <1>1, <1>8, <2>1 DEF Put
  <2>3. /\ g \in FsState
        /\ \A j \in Inum : j # i => g.it[j] = itable[j]
        /\ g.it[i].ref = itable[i].ref - 1 /\ g.it[i].lock = itable[i].lock
    BY <1>4, <1>5, <2>1, DropIs
  <2>4. itable' = g.it /\ dinode' = g.di /\ bitmap' = g.used /\ panic' = g.panic
    BY <2>2, BecomeIs
  <2>5. s[1][1] \notin Locking /\ s[1][1] \in Using /\ s[1][1] \in {"put", "drop", "unlock"}
    BY <1>3 DEF Locking, Putting, Using
  <2>6. FsCore'
    BY <1>1, <1>2, <1>3, <1>4, <2>2, <2>3, <2>4, <2>5, StepEnds
  <2> QED
    BY <2>6
<1> QED
  BY <1>6, <1>7, <1>8

LEMMA FreeGoes ==
  ASSUME FsCore, NEW p \in Proc, Free(p)
  PROVE  FsCore'
<1>1. PICK s, r, i : s = todo[p] /\ r = ret[p] /\ i = Arg(p, 1)
  OBVIOUS
<1>2. At(p, "free") /\ UNCHANGED <<file, cwd>>
  BY DEF Free
<1>3. /\ panic = "no" /\ s \in Seq(FsStep) /\ s # <<>> /\ Len(s) \in 1 .. 4 /\ s[1] \in FsStep
      /\ s[1][1] = "free" /\ Shape(s) /\ RetShape(s, r) /\ r \in 0 .. NInodes /\ FsType
  BY <1>1, <1>2, AtIs
<1>4. i = s[1][2] /\ i \in Inum
  <2>1. i = s[1][2]
    BY <1>1 DEF Arg
  <2> QED
    BY <1>3, <2>1, StepArgs DEF Using, Putting
<1>5. /\ State \in FsState /\ State.it = itable /\ State.di = dinode /\ State.used = bitmap
      /\ State.panic = panic
  BY <1>3, StateType
<1>6. PICK f : f = Itrunc(State, i)
  OBVIOUS
<1>7. Keeps(State, f) /\ f.it[i].ino = Emptied(itable[i].ino)
  BY <1>4, <1>5, <1>6, ItruncIs
<1>8. PICK ino : ino = [f.it[i].ino EXCEPT !.type = "none"]
  OBVIOUS
<1>9. f \in FsState /\ ino \in Dinode
  <2>1. f \in FsState
    BY <1>7 DEF Keeps
  <2>2. f.it[i].ino \in Dinode
    BY <1>4, <2>1, StateIs
  <2> QED
    BY <1>8, <2>1, <2>2 DEF Dinode
<1>10. PICK g : g = Update(f, i, ino)
  OBVIOUS
<1>11. Keeps(State, g)
  <2>1. Keeps(f, g)
    BY <1>4, <1>9, <1>10, UpdateKeeps
  <2> QED
    BY <1>7, <2>1, KeepsTrans
<1>12. Become(g) /\ Go(p, <<<<"invalid", i>>>>, r)
  BY <1>1, <1>6, <1>8, <1>10 DEF Free
<1>13. itable' = g.it /\ dinode' = g.di /\ bitmap' = g.used /\ panic' = g.panic
  BY <1>12, BecomeIs
<1>14. /\ g \in FsState
       /\ \A j \in Inum : g.it[j].ref = itable[j].ref /\ g.it[j].lock = itable[j].lock
  BY <1>5, <1>11 DEF Keeps
<1>15. itable[i].lock = p
  <2>1. Locks(s[1], i) = 1
    BY <1>3, <1>4, Weights DEF Locking, Eq
  <2>2. TodoLocks(s, i) >= 1 /\ TodoLocks(s, i) \in Nat
    BY <1>3, <2>1, FirstWeight, UsesNat
  <2>3. Obliged(s, r, i) = IF itable[i].lock = p THEN 1 ELSE 0
    BY <1>1, <1>4 DEF FsCore, LocksHeld
  <2> QED
    BY <2>2, <2>3 DEF Obliged, RetLock
<1>16. PICK a : a = <<"invalid", i>>
  OBVIOUS
<1>17. a \in FsStep /\ a[1] \in {"free", "invalid", "drop"} /\ a[2] = i /\ Go(p, <<a>>, r) /\ a[1] \in Locking
  BY <1>4, <1>12, <1>16, StepsAre DEF Putting, Locking
<1>18. s[1][1] \in Putting /\ s[1][1] \in Locking
  BY <1>3 DEF Putting, Locking
<1> QED
  BY <1>1, <1>2, <1>3, <1>4, <1>13, <1>14, <1>15, <1>17, <1>18, PutGoesOn

LEMMA InvalidateGoes ==
  ASSUME FsCore, NEW p \in Proc, Invalidate(p)
  PROVE  FsCore'
<1>1. PICK s, r, i : s = todo[p] /\ r = ret[p] /\ i = Arg(p, 1)
  OBVIOUS
<1>2. At(p, "invalid") /\ UNCHANGED <<file, cwd>>
  BY DEF Invalidate
<1>3. /\ panic = "no" /\ s \in Seq(FsStep) /\ s # <<>> /\ Len(s) \in 1 .. 4 /\ s[1] \in FsStep
      /\ s[1][1] = "invalid" /\ Shape(s) /\ RetShape(s, r) /\ r \in 0 .. NInodes /\ FsType
  BY <1>1, <1>2, AtIs
<1>4. i = s[1][2] /\ i \in Inum
  <2>1. i = s[1][2]
    BY <1>1 DEF Arg
  <2> QED
    BY <1>3, <2>1, StepArgs DEF Using, Putting
<1>5. /\ State \in FsState /\ State.it = itable /\ State.di = dinode /\ State.used = bitmap
      /\ State.panic = panic
  BY <1>3, StateType
<1>6. /\ itable[i] \in Ent /\ itable[i].ref \in Int /\ itable[i].valid \in BOOLEAN
      /\ itable[i].lock \in Proc \union {None} /\ itable[i].ino \in Dinode
  BY <1>4, <1>5, StateIs
<1>7. PICK e : e = Invalid(itable[i])
  OBVIOUS
<1>8. e \in Ent /\ e.ref = itable[i].ref /\ e.lock = None
  <2>1. PICK d : d = [itable[i] EXCEPT !.valid = FALSE]
    OBVIOUS
  <2>2. d \in Ent /\ d.ref = itable[i].ref
    BY <1>6, <2>1 DEF Ent
  <2>3. e = [d EXCEPT !.lock = None]
    BY <1>7, <2>1 DEF Invalid
  <2> QED
    BY <2>2, <2>3 DEF Ent
<1>9. PICK g : g = PutEnt(State, i, e)
  OBVIOUS
<1>10. /\ g \in FsState /\ g.it[i] = e /\ \A j \in Inum : j # i => g.it[j] = itable[j]
  BY <1>4, <1>5, <1>8, <1>9, EntryIs
<1>11. Become(g) /\ Go(p, <<<<"drop", i>>>>, r)
  <2>1. g = [State EXCEPT !.it[i] = Invalid(@)]
    BY <1>5, <1>7, <1>9 DEF PutEnt, FsState
  <2> QED
    BY <1>1, <2>1 DEF Invalidate
<1>12. itable' = g.it /\ dinode' = g.di /\ bitmap' = g.used /\ panic' = g.panic
  BY <1>11, BecomeIs
<1>15. itable[i].lock = p
  <2>1. Locks(s[1], i) = 1
    BY <1>3, <1>4, Weights DEF Locking, Eq
  <2>2. TodoLocks(s, i) >= 1 /\ TodoLocks(s, i) \in Nat
    BY <1>3, <2>1, FirstWeight, UsesNat
  <2>3. Obliged(s, r, i) = IF itable[i].lock = p THEN 1 ELSE 0
    BY <1>1, <1>4 DEF FsCore, LocksHeld
  <2> QED
    BY <2>2, <2>3 DEF Obliged, RetLock
<1>16. PICK a : a = <<"drop", i>>
  OBVIOUS
<1>17. a \in FsStep /\ a[1] \in {"free", "invalid", "drop"} /\ a[2] = i /\ Go(p, <<a>>, r) /\ a[1] \notin Locking
  BY <1>4, <1>11, <1>16, StepsAre DEF Putting, Locking
<1>18. s[1][1] \in Putting /\ s[1][1] \in Locking
  BY <1>3 DEF Putting, Locking
<1> QED
  BY <1>1, <1>2, <1>3, <1>4, <1>8, <1>10, <1>12, <1>15, <1>17, <1>18, PutGoesOn

LEMMA UnrefGoes ==
  ASSUME FsCore, NEW p \in Proc, Unref(p)
  PROVE  FsCore'
<1>1. PICK s, r, i : s = todo[p] /\ r = ret[p] /\ i = Arg(p, 1)
  OBVIOUS
<1>2. At(p, "drop") /\ UNCHANGED <<file, cwd>>
  BY DEF Unref
<1>3. /\ panic = "no" /\ s \in Seq(FsStep) /\ s # <<>> /\ Len(s) \in 1 .. 4 /\ s[1] \in FsStep
      /\ s[1][1] = "drop" /\ Shape(s) /\ RetShape(s, r) /\ r \in 0 .. NInodes /\ FsType
  BY <1>1, <1>2, AtIs
<1>4. i = s[1][2] /\ i \in Inum
  <2>1. i = s[1][2]
    BY <1>1 DEF Arg
  <2> QED
    BY <1>3, <2>1, StepArgs DEF Using, Putting
<1>5. /\ State \in FsState /\ State.it = itable /\ State.di = dinode /\ State.used = bitmap
      /\ State.panic = panic
  BY <1>3, StateType
<1>6. PICK g : g = Drop(State, i)
  OBVIOUS
<1>7. Become(g) /\ Go(p, <<>>, r)
  BY <1>1, <1>6 DEF Unref
<1>8. /\ g \in FsState
      /\ \A j \in Inum : j # i => g.it[j] = itable[j]
      /\ g.it[i].ref = itable[i].ref - 1 /\ g.it[i].lock = itable[i].lock
  BY <1>4, <1>5, <1>6, DropIs
<1>9. itable' = g.it /\ dinode' = g.di /\ bitmap' = g.used /\ panic' = g.panic
  BY <1>7, BecomeIs
<1>10. s[1][1] \notin Locking /\ s[1][1] \in Using /\ s[1][1] \in {"put", "drop", "unlock"}
  BY <1>3 DEF Locking, Putting, Using
<1> QED
  BY <1>1, <1>2, <1>3, <1>4, <1>7, <1>8, <1>9, <1>10, StepEnds

\* A step of a call in progress that locks what it names has it locked.
LEMMA LockedFirst ==
  ASSUME FsCore, NEW p \in Proc, NEW s, s = todo[p], Len(s) \in 1 .. 4, s[1][1] \in Locking,
         NEW i \in Inum, i = s[1][2]
  PROVE  itable[i].lock = p /\ TodoLocks(s, i) >= 1
<1>1. Locks(s[1], i) = 1
  BY Weights DEF Eq
<1>2. TodoLocks(s, i) >= 1 /\ TodoLocks(s, i) \in Nat
  BY <1>1, FirstWeight, UsesNat
<1>3. Obliged(s, ret[p], i) = IF itable[i].lock = p THEN 1 ELSE 0
  BY DEF FsCore, LocksHeld
<1> QED
  BY <1>2, <1>3 DEF Obliged, RetLock

LEMMA UnlockGoes ==
  ASSUME FsCore, NEW p \in Proc, Unlock(p)
  PROVE  FsCore' \/ Stuck'
<1>1. PICK s, r, i : s = todo[p] /\ r = ret[p] /\ i = Arg(p, 1)
  OBVIOUS
<1>2. At(p, "unlock") /\ UNCHANGED <<file, cwd>>
  BY DEF Unlock
<1>3. /\ panic = "no" /\ s \in Seq(FsStep) /\ s # <<>> /\ Len(s) \in 1 .. 4 /\ s[1] \in FsStep
      /\ s[1][1] = "unlock" /\ Shape(s) /\ RetShape(s, r) /\ r \in 0 .. NInodes /\ FsType
  BY <1>1, <1>2, AtIs
<1>4. i = s[1][2] /\ i \in Inum
  <2>1. i = s[1][2]
    BY <1>1 DEF Arg
  <2> QED
    BY <1>3, <2>1, StepArgs DEF Using, Putting
<1>5. /\ State \in FsState /\ State.it = itable /\ State.di = dinode /\ State.used = bitmap
      /\ State.panic = panic
  BY <1>3, StateType
<1>6. PICK g : g = Iunlock(State, p, i)
  OBVIOUS
<1>7. Become(g) /\ Go(p, <<>>, r)
  BY <1>1, <1>6 DEF Unlock
<1>8. itable[i].lock = p
  <2>1. s[1][1] \in Locking
    BY <1>3 DEF Locking
  <2> QED
    BY <1>1, <1>3, <1>4, <2>1, LockedFirst
<1>9. /\ g \in FsState
      /\ \A j \in Inum : j # i => g.it[j] = itable[j]
      /\ g.it[i].ref = itable[i].ref
      /\ g.panic = "no" => g.it[i].lock = None
  BY <1>4, <1>5, <1>6, IunlockIs
<1>10. itable' = g.it /\ dinode' = g.di /\ bitmap' = g.used /\ panic' = g.panic
  BY <1>7, BecomeIs
<1>11. s[1][1] \in Locking /\ s[1][1] \notin Using /\ s[1][1] \in {"put", "drop", "unlock"}
  BY <1>3 DEF Locking, Putting, Using
<1>12. CASE panic' # "no"
  <2>1. PICK t : After0(p, s, t, r)
    BY <1>1, <1>3, <1>7, Go0
  <2>2. t \in Seq(FsStep) /\ Turn(p, t, r) /\ Len(t) = Len(s) - 1
    BY <2>1 DEF After0
  <2>3. UnlockFrom(s, 1)
    BY <1>3, ShapeKinds
  <2>4. Len(t) # 0
    BY <1>3, <2>2, <2>3 DEF UnlockFrom
  <2> QED
    BY <1>12, <2>2, <2>4, Sticks
<1>13. CASE panic' = "no"
  <2>0. /\ g.it[i].lock = None
        /\ \A j \in Inum : j # i => g.it[j].ref = itable[j].ref /\ g.it[j].lock = itable[j].lock
    BY <1>9, <1>10, <1>13
  <2>1. FsCore'
    BY <1>1, <1>2, <1>3, <1>4, <1>7, <1>8, <1>9, <1>10, <1>11, <2>0, StepEnds
  <2> QED
    BY <2>1
<1> QED
  BY <1>12, <1>13

----------------------------------------------------------------------------
(***************************************************************************)
(* The other steps                                                         *)
(***************************************************************************)
\* At most one inode gets a reference more, one is locked and one unlocked.
Grants(p, g, inc, lk, ul) ==
  /\ g \in FsState /\ inc \in 0 .. NInodes /\ lk \in 0 .. NInodes /\ ul \in 0 .. NInodes
  /\ \A j \in Inum : g.it[j].ref = itable[j].ref + Eq(inc, j)
  /\ \A j \in Inum : g.it[j].lock = IF j = lk THEN p ELSE IF j = ul THEN None ELSE itable[j].lock
  /\ lk # 0 => itable[lk].lock = None
  /\ ul # 0 => itable[ul].lock = p

LEMMA LocksGranted ==
  ASSUME FsCore, NEW p \in Proc, NEW s, s = todo[p], NEW q, q = ret[p],
         NEW g, NEW inc, NEW lk, NEW ul, Grants(p, g, inc, lk, ul), NEW t, NEW r, NEW j \in Inum,
         Obliged(t, r, j) + Eq(ul, j) = Obliged(s, q, j) + Eq(lk, j)
  PROVE  /\ Obliged(t, r, j) = IF g.it[j].lock = p THEN 1 ELSE 0
         /\ \/ g.it[j].lock = itable[j].lock
            \/ itable[j].lock \in {p, None} /\ g.it[j].lock \in {p, None}
<1>5. Obliged(s, q, j) = IF itable[j].lock = p THEN 1 ELSE 0
  BY DEF FsCore, LocksHeld
<1>6. PICK x, y \in Int : x = Obliged(s, q, j) /\ y = Obliged(t, r, j)
  BY UsesNat DEF Obliged, RetLock
<1>7. PICK e, f \in {0, 1} : e = Eq(lk, j) /\ f = Eq(ul, j)
  BY DEF Eq
<1>8. y + f = x + e
  BY <1>6, <1>7
<1>9. j # 0
  BY DEF Inum
<1>10. g.it[j].lock = IF j = lk THEN p ELSE IF j = ul THEN None ELSE itable[j].lock
  BY DEF Grants
<1>11. (j = lk => itable[j].lock = None) /\ (j = ul => itable[j].lock = p)
  BY <1>9 DEF Grants
<1>12. p # None
  BY Sizes
<1>13. CASE j = lk
  <2>1. j # ul /\ g.it[j].lock = p /\ itable[j].lock = None
    BY <1>10, <1>11, <1>12, <1>13
  <2>2. e = 1 /\ f = 0 /\ x = 0
    BY <1>5, <1>6, <1>7, <1>12, <1>13, <2>1 DEF Eq
  <2>3. y = 1
    BY <1>8, <2>2
  <2> QED
    BY <1>6, <2>1, <2>3
<1>14. CASE j # lk /\ j = ul
  <2>1. g.it[j].lock = None /\ itable[j].lock = p
    BY <1>10, <1>11, <1>14
  <2>2. e = 0 /\ f = 1 /\ x = 1
    BY <1>5, <1>6, <1>7, <1>14, <2>1 DEF Eq
  <2>3. y = 0
    BY <1>8, <2>2
  <2> QED
    BY <1>6, <1>12, <2>1, <2>3
<1>15. CASE j # lk /\ j # ul
  <2>1. g.it[j].lock = itable[j].lock
    BY <1>10, <1>15
  <2>2. e = 0 /\ f = 0
    BY <1>7, <1>15 DEF Eq
  <2>3. y = x
    BY <1>8, <2>2
  <2> QED
    BY <1>5, <1>6, <2>1, <2>3
<1> QED
  BY <1>13, <1>14, <1>15

LEMMA Granted ==
  ASSUME FsCore, NEW p \in Proc, NEW s, s = todo[p], NEW q, q = ret[p],
         NEW g, NEW inc, NEW lk, NEW ul, Grants(p, g, inc, lk, ul),
         itable' = g.it, dinode' = g.di, bitmap' = g.used, panic' = g.panic, UNCHANGED <<file, cwd>>,
         NEW t, NEW r, Turn(p, t, r), Shape(t), RetShape(t, r), Moving(t) <=> Moving(s),
         \A j \in Inum : /\ Uses(t, r, j) = Uses(s, q, j) + Eq(inc, j)
                         /\ Obliged(t, r, j) + Eq(ul, j) = Obliged(s, q, j) + Eq(lk, j)
  PROVE  FsCore'
<1>1. g \in FsState
  BY DEF Grants
<1>2. ASSUME NEW j \in Inum
      PROVE  /\ Uses(t, r, j) - Uses(s, q, j) \in {-1, 0, 1}
             /\ g.it[j].ref = itable[j].ref + Uses(t, r, j) - Uses(s, q, j)
             /\ Obliged(t, r, j) = IF g.it[j].lock = p THEN 1 ELSE 0
             /\ \/ g.it[j].lock = itable[j].lock
                \/ itable[j].lock \in {p, None} /\ g.it[j].lock \in {p, None}
  <2>1. PICK u, v, w \in Nat : u = Uses(s, q, j) /\ v = Uses(t, r, j) /\ w = itable[j].ref
    BY UsesNat, Held
  <2>2. PICK d \in {0, 1} : d = Eq(inc, j)
    BY DEF Eq
  <2>3. v = u + d /\ g.it[j].ref = w + d
    BY <2>1, <2>2 DEF Grants
  <2>4. /\ Uses(t, r, j) - Uses(s, q, j) \in {-1, 0, 1}
        /\ g.it[j].ref = itable[j].ref + Uses(t, r, j) - Uses(s, q, j)
    BY <2>1, <2>3
  <2>5. Obliged(t, r, j) + Eq(ul, j) = Obliged(s, q, j) + Eq(lk, j)
    OBVIOUS
  <2> QED
    BY <2>4, <2>5, LocksGranted
<1> QED
  BY <1>1, <1>2, TurnSame

\* What p held and takes is what its steps, before and after, give back.
Balance0(s, q, t, r, inc, lk, ul) ==
  \A j \in Inum :
    /\ Eq(r, j) = Refs(s[1], j) + Eq(q, j) + Eq(inc, j)
    /\ RetLock(t, r, j) + Eq(ul, j) = Locks(s[1], j) + RetLock(s, q, j) + Eq(lk, j)

Balance1(s, q, a, t, r, inc, lk, ul) ==
  \A j \in Inum :
    /\ Refs(a, j) + Eq(r, j) = Refs(s[1], j) + Eq(q, j) + Eq(inc, j)
    /\ Locks(a, j) + RetLock(t, r, j) + Eq(ul, j) = Locks(s[1], j) + RetLock(s, q, j) + Eq(lk, j)

Balance2(s, q, a, b, t, r, inc, lk, ul) ==
  \A j \in Inum :
    /\ Refs(a, j) + Refs(b, j) + Eq(r, j) = Refs(s[1], j) + Eq(q, j) + Eq(inc, j)
    /\ Locks(a, j) + Locks(b, j) + RetLock(t, r, j) + Eq(ul, j) = Locks(s[1], j) + RetLock(s, q, j) + Eq(lk, j)

Balance3(s, q, a, b, c, t, r, inc, lk, ul) ==
  \A j \in Inum :
    /\ Refs(a, j) + Refs(b, j) + Refs(c, j) + Eq(r, j) = Refs(s[1], j) + Eq(q, j) + Eq(inc, j)
    /\ Locks(a, j) + Locks(b, j) + Locks(c, j) + RetLock(t, r, j) + Eq(ul, j) = Locks(s[1], j) + RetLock(s, q, j) + Eq(lk, j)

LEMMA EqNat ==
  ASSUME NEW s, NEW i, NEW j
  PROVE  Eq(i, j) \in Nat /\ RetLock(s, i, j) \in Nat
  BY DEF Eq, RetLock

LEMMA Granted0 ==
  ASSUME FsCore, NEW p \in Proc, NEW s, s = todo[p], NEW q, q = ret[p],
         NEW g, NEW inc, NEW lk, NEW ul, Grants(p, g, inc, lk, ul),
         itable' = g.it, dinode' = g.di, bitmap' = g.used, panic' = g.panic, UNCHANGED <<file, cwd>>,
         NEW t, NEW r, After0(p, s, t, r), Shape(t), RetShape(t, r), Moving(t) <=> Moving(s),
         Balance0(s, q, t, r, inc, lk, ul)
  PROVE  FsCore'
<1>1. Turn(p, t, r)
  BY DEF After0
<1>2. ASSUME NEW j \in Inum
      PROVE  /\ Uses(t, r, j) = Uses(s, q, j) + Eq(inc, j)
             /\ Obliged(t, r, j) + Eq(ul, j) = Obliged(s, q, j) + Eq(lk, j)
  <2>1. PICK x, y, x1, y1, u, v, e1, e2, e3, e4, e5, z, z1 \in Nat :
          /\ x = TodoRefs(s, j) /\ y = TodoLocks(s, j) /\ x1 = TodoRefs(t, j) /\ y1 = TodoLocks(t, j)
          /\ u = Refs(s[1], j) /\ v = Locks(s[1], j)
          /\ e1 = Eq(r, j) /\ e2 = Eq(q, j) /\ e3 = Eq(inc, j) /\ e4 = Eq(ul, j) /\ e5 = Eq(lk, j)
          /\ z = RetLock(s, q, j) /\ z1 = RetLock(t, r, j)
    BY UsesNat, Weights, EqNat
  <2>3. x1 = x - u /\ y1 = y - v
    BY <2>1 DEF After0
  <2>4. e1 = u + e2 + e3 /\ z1 + e4 = v + z + e5
    BY <2>1 DEF Balance0
  <2>5. x1 + e1 = x + e2 + e3 /\ y1 + z1 + e4 = y + z + e5
    BY <2>3, <2>4
  <2>6. Uses(t, r, j) = x1 + e1 /\ Uses(s, q, j) = x + e2 /\ Obliged(t, r, j) = y1 + z1 /\ Obliged(s, q, j) = y + z
    BY <2>1 DEF Uses, Obliged
  <2> QED
    BY <2>1, <2>5, <2>6
<1> QED
  BY <1>1, <1>2, Granted

LEMMA Granted1 ==
  ASSUME FsCore, NEW p \in Proc, NEW s, s = todo[p], NEW q, q = ret[p],
         NEW g, NEW inc, NEW lk, NEW ul, Grants(p, g, inc, lk, ul),
         itable' = g.it, dinode' = g.di, bitmap' = g.used, panic' = g.panic, UNCHANGED <<file, cwd>>,
         NEW t, NEW a, NEW r, After1(p, s, t, a, r), Shape(t), RetShape(t, r), Moving(t) <=> Moving(s),
         Balance1(s, q, a, t, r, inc, lk, ul)
  PROVE  FsCore'
<1>1. Turn(p, t, r)
  BY DEF After1
<1>2. ASSUME NEW j \in Inum
      PROVE  /\ Uses(t, r, j) = Uses(s, q, j) + Eq(inc, j)
             /\ Obliged(t, r, j) + Eq(ul, j) = Obliged(s, q, j) + Eq(lk, j)
  <2>1. PICK x, y, x1, y1, u, v, e1, e2, e3, e4, e5, z, z1 \in Nat :
          /\ x = TodoRefs(s, j) /\ y = TodoLocks(s, j) /\ x1 = TodoRefs(t, j) /\ y1 = TodoLocks(t, j)
          /\ u = Refs(s[1], j) /\ v = Locks(s[1], j)
          /\ e1 = Eq(r, j) /\ e2 = Eq(q, j) /\ e3 = Eq(inc, j) /\ e4 = Eq(ul, j) /\ e5 = Eq(lk, j)
          /\ z = RetLock(s, q, j) /\ z1 = RetLock(t, r, j)
    BY UsesNat, Weights, EqNat
  <2>2. PICK m1, n1 \in Nat : m1 = Refs(a, j) /\ n1 = Locks(a, j)
    BY Weights
  <2>3. x1 = x - u + m1 /\ y1 = y - v + n1
    BY <2>1, <2>2 DEF After1
  <2>4. m1 + e1 = u + e2 + e3 /\ n1 + z1 + e4 = v + z + e5
    BY <2>1, <2>2 DEF Balance1
  <2>5. x1 + e1 = x + e2 + e3 /\ y1 + z1 + e4 = y + z + e5
    BY <2>3, <2>4
  <2>6. Uses(t, r, j) = x1 + e1 /\ Uses(s, q, j) = x + e2 /\ Obliged(t, r, j) = y1 + z1 /\ Obliged(s, q, j) = y + z
    BY <2>1 DEF Uses, Obliged
  <2> QED
    BY <2>1, <2>5, <2>6
<1> QED
  BY <1>1, <1>2, Granted

LEMMA Granted2 ==
  ASSUME FsCore, NEW p \in Proc, NEW s, s = todo[p], NEW q, q = ret[p],
         NEW g, NEW inc, NEW lk, NEW ul, Grants(p, g, inc, lk, ul),
         itable' = g.it, dinode' = g.di, bitmap' = g.used, panic' = g.panic, UNCHANGED <<file, cwd>>,
         NEW t, NEW a, NEW b, NEW r, After2(p, s, t, a, b, r), Shape(t), RetShape(t, r), Moving(t) <=> Moving(s),
         Balance2(s, q, a, b, t, r, inc, lk, ul)
  PROVE  FsCore'
<1>1. Turn(p, t, r)
  BY DEF After2
<1>2. ASSUME NEW j \in Inum
      PROVE  /\ Uses(t, r, j) = Uses(s, q, j) + Eq(inc, j)
             /\ Obliged(t, r, j) + Eq(ul, j) = Obliged(s, q, j) + Eq(lk, j)
  <2>1. PICK x, y, x1, y1, u, v, e1, e2, e3, e4, e5, z, z1 \in Nat :
          /\ x = TodoRefs(s, j) /\ y = TodoLocks(s, j) /\ x1 = TodoRefs(t, j) /\ y1 = TodoLocks(t, j)
          /\ u = Refs(s[1], j) /\ v = Locks(s[1], j)
          /\ e1 = Eq(r, j) /\ e2 = Eq(q, j) /\ e3 = Eq(inc, j) /\ e4 = Eq(ul, j) /\ e5 = Eq(lk, j)
          /\ z = RetLock(s, q, j) /\ z1 = RetLock(t, r, j)
    BY UsesNat, Weights, EqNat
  <2>2. PICK m1, m2, n1, n2 \in Nat : m1 = Refs(a, j) /\ n1 = Locks(a, j) /\ m2 = Refs(b, j) /\ n2 = Locks(b, j)
    BY Weights
  <2>3. x1 = x - u + m1 + m2 /\ y1 = y - v + n1 + n2
    BY <2>1, <2>2 DEF After2
  <2>4. m1 + m2 + e1 = u + e2 + e3 /\ n1 + n2 + z1 + e4 = v + z + e5
    BY <2>1, <2>2 DEF Balance2
  <2>5. x1 + e1 = x + e2 + e3 /\ y1 + z1 + e4 = y + z + e5
    BY <2>3, <2>4
  <2>6. Uses(t, r, j) = x1 + e1 /\ Uses(s, q, j) = x + e2 /\ Obliged(t, r, j) = y1 + z1 /\ Obliged(s, q, j) = y + z
    BY <2>1 DEF Uses, Obliged
  <2> QED
    BY <2>1, <2>5, <2>6
<1> QED
  BY <1>1, <1>2, Granted

LEMMA Granted3 ==
  ASSUME FsCore, NEW p \in Proc, NEW s, s = todo[p], NEW q, q = ret[p],
         NEW g, NEW inc, NEW lk, NEW ul, Grants(p, g, inc, lk, ul),
         itable' = g.it, dinode' = g.di, bitmap' = g.used, panic' = g.panic, UNCHANGED <<file, cwd>>,
         NEW t, NEW a, NEW b, NEW c, NEW r, After3(p, s, t, a, b, c, r), Shape(t), RetShape(t, r), Moving(t) <=> Moving(s),
         Balance3(s, q, a, b, c, t, r, inc, lk, ul)
  PROVE  FsCore'
<1>1. Turn(p, t, r)
  BY DEF After3
<1>2. ASSUME NEW j \in Inum
      PROVE  /\ Uses(t, r, j) = Uses(s, q, j) + Eq(inc, j)
             /\ Obliged(t, r, j) + Eq(ul, j) = Obliged(s, q, j) + Eq(lk, j)
  <2>1. PICK x, y, x1, y1, u, v, e1, e2, e3, e4, e5, z, z1 \in Nat :
          /\ x = TodoRefs(s, j) /\ y = TodoLocks(s, j) /\ x1 = TodoRefs(t, j) /\ y1 = TodoLocks(t, j)
          /\ u = Refs(s[1], j) /\ v = Locks(s[1], j)
          /\ e1 = Eq(r, j) /\ e2 = Eq(q, j) /\ e3 = Eq(inc, j) /\ e4 = Eq(ul, j) /\ e5 = Eq(lk, j)
          /\ z = RetLock(s, q, j) /\ z1 = RetLock(t, r, j)
    BY UsesNat, Weights, EqNat
  <2>2. PICK m1, m2, m3, n1, n2, n3 \in Nat : m1 = Refs(a, j) /\ n1 = Locks(a, j) /\ m2 = Refs(b, j) /\ n2 = Locks(b, j) /\ m3 = Refs(c, j) /\ n3 = Locks(c, j)
    BY Weights
  <2>3. x1 = x - u + m1 + m2 + m3 /\ y1 = y - v + n1 + n2 + n3
    BY <2>1, <2>2 DEF After3
  <2>4. m1 + m2 + m3 + e1 = u + e2 + e3 /\ n1 + n2 + n3 + z1 + e4 = v + z + e5
    BY <2>1, <2>2 DEF Balance3
  <2>5. x1 + e1 = x + e2 + e3 /\ y1 + z1 + e4 = y + z + e5
    BY <2>3, <2>4
  <2>6. Uses(t, r, j) = x1 + e1 /\ Uses(s, q, j) = x + e2 /\ Obliged(t, r, j) = y1 + z1 /\ Obliged(s, q, j) = y + z
    BY <2>1 DEF Uses, Obliged
  <2> QED
    BY <2>1, <2>5, <2>6
<1> QED
  BY <1>1, <1>2, Granted

\* The calls whose steps end with the next one, or with what is left when
\* create() returns.
InCreate == {"create", "created", "ialloc", "fill"}
Alone == {"open", "made", "link", "linkdir", "unlink", "chdir", "unlinkfile", "unlinked", "linkbad"}

LEMMA ReturnsKind ==
  ASSUME NEW st, Returns(st)
  PROVE  st[1] \in {"made", "open"}
  BY DEF Returns

\* Where a list of steps that begins with one of them is a call's.
LEMMA ShapeOf ==
  ASSUME NEW t
  PROVE  /\ MainFrom(t, 1) \/ WalkFrom(t, 1) \/ UnlockFrom(t, 1) \/ OtherFrom(t, 1) => Shape(t)
         /\ EndFrom(t, 1) => Shape(t)
         /\ Len(t) > 0 /\ t[1][1] = "put" /\
              (MainFrom(t, 2) \/ WalkFrom(t, 2) \/ UnlockFrom(t, 2) \/ OtherFrom(t, 2)) => Shape(t)
         /\ Len(t) > 0 /\ t[1][1] = "put" /\ EndFrom(t, 2) => Shape(t)
         /\ Len(t) = 2 /\ t[1][1] = "put" /\ t[2][1] = "put" => Shape(t)
  BY DEF Shape, StepsFrom, MainFrom, Putting

LEMMA UnlockOf ==
  ASSUME NEW t, NEW n \in {1, 2}, NEW m \in {2, 3}, m = n + 1, NEW k \in {3, 4}, k = n + 2,
         t[n][1] = "unlock", t[m][1] = "put", Len(t) = m \/ (Len(t) = k /\ Returns(t[k]))
  PROVE  UnlockFrom(t, n)
<1>1. Len(t) > n /\ t[n + 1] = t[m] /\ t[n + 2] = t[k]
  OBVIOUS
<1>2. EndFrom(t, n + 2)
  <2>1. Len(t) = n + 2 - 1 \/ (Len(t) = n + 2 /\ Returns(t[n + 2]))
    BY <1>1
  <2> QED
    BY <2>1 DEF EndFrom
<1> QED
  BY <1>1, <1>2 DEF UnlockFrom

LEMMA Ends ==
  ASSUME NEW s \in Seq(FsStep), Len(s) \in 1 .. 4, Shape(s), s[1][1] \in InCreate \union Alone
  PROVE  /\ EndFrom(s, 2) /\ ~Moving(s)
         /\ Len(s) = IF s[1][1] \in InCreate THEN 2 ELSE 1
         /\ s[1][1] \in InCreate => Returns(s[2])
<1>1. s # <<>>
  BY EmptyIs
<1>2. CASE s[1][1] \in InCreate
  <2>1. Len(s) = 2 /\ Returns(s[2])
    BY <1>1, <1>2, ShapeKinds DEF InCreate
  <2>2. ~Moving(s)
    BY <2>1, ReturnsKind, MovingNot
  <2> QED
    BY <1>2, <2>1, <2>2 DEF EndFrom
<1>3. CASE s[1][1] \in Alone
  <2>1. Len(s) = 1
    BY <1>1, <1>3, ShapeKinds DEF Alone
  <2>2. ~Moving(s)
    BY <1>3, <2>1, MovingNot DEF Alone
  <2> QED
    BY <1>3, <2>1, <2>2 DEF EndFrom, Alone, InCreate
<1> QED
  BY <1>2, <1>3

LEMMA End0 ==
  ASSUME NEW s, NEW t \in Seq(FsStep), EndFrom(s, 2), Len(s) \in 1 .. 2, Len(t) = Len(s) - 1,
         \A n \in 1 .. Len(t) : t[n] = s[n + 1]
  PROVE  /\ Shape(t) /\ ~Moving(t) /\ Len(t) \in 0 .. 1
         /\ Len(t) = 1 => Returns(t[1]) /\ t[1] = s[2]
<1>1. CASE Len(s) = 1
  <2>1. Len(t) = 0
    BY <1>1
  <2> QED
    <3>1. EndFrom(t, 1)
      BY <2>1 DEF EndFrom
    <3>2. Shape(t) /\ ~Moving(t)
      BY <2>1, <3>1, MovingNot, ShapeOf
    <3> QED
      BY <2>1, <3>2
<1>2. CASE Len(s) = 2
  <2>1. Len(t) = 1 /\ t[1] = s[2] /\ Returns(s[2])
    BY <1>2 DEF EndFrom
  <2>2. ~Moving(t)
    BY <2>1, MovingNot, ReturnsKind
  <2>3. Shape(t)
    BY <2>1, ShapeOf DEF EndFrom
  <2> QED
    BY <2>1, <2>2, <2>3
<1> QED
  BY <1>1, <1>2

LEMMA End1 ==
  ASSUME NEW s, NEW t \in Seq(FsStep), EndFrom(s, 2), Len(s) \in 1 .. 2, Len(t) = Len(s),
         \A n \in 2 .. Len(t) : t[n] = s[n],
         \/ t[1][1] = "put"
         \/ Len(s) = 2 /\ t[1][1] \in {"ialloc", "fill"}
         \/ Len(s) = 1 /\ t[1][1] \in {"linkbad", "unlinkfile"}
  PROVE  /\ Shape(t) /\ ~Moving(t)
         /\ Len(t) = 2 => Returns(t[2])
<1>1. CASE Len(s) = 1
  <2>1. Len(t) = 1 /\ t[1][1] \in {"put", "linkbad", "unlinkfile"}
    BY <1>1
  <2>2. ~Moving(t)
    BY <2>1, MovingNot
  <2>3. Shape(t)
    <3>1. OtherFrom(t, 1) \/ (t[1][1] = "put" /\ EndFrom(t, 2))
      BY <2>1 DEF OtherFrom, EndFrom
    <3> QED
      BY <2>1, <3>1, ShapeOf
  <2> QED
    BY <2>1, <2>2, <2>3
<1>2. CASE Len(s) = 2
  <2>1. Len(t) = 2 /\ t[2] = s[2] /\ Returns(s[2]) /\ t[1][1] \in {"put", "ialloc", "fill"}
    BY <1>2 DEF EndFrom
  <2>2. ~Moving(t)
    BY <2>1, MovingNot, ReturnsKind
  <2>3. Shape(t)
    <3>1. OtherFrom(t, 1) \/ (t[1][1] = "put" /\ EndFrom(t, 2))
      BY <2>1 DEF OtherFrom, EndFrom
    <3> QED
      BY <2>1, <3>1, ShapeOf
  <2> QED
    BY <2>1, <2>2, <2>3
<1> QED
  BY <1>1, <1>2

LEMMA End2 ==
  ASSUME NEW s, NEW t \in Seq(FsStep), EndFrom(s, 2), Len(s) \in 1 .. 2, Len(t) = Len(s) + 1,
         \A n \in 3 .. Len(t) : t[n] = s[n - 1],
         \/ t[1][1] = "unlock" /\ t[2][1] = "put"
         \/ Len(s) = 2 /\ t[1][1] = "put" /\ t[2][1] = "created"
         \/ Len(s) = 1 /\ t[1][1] = "put" /\ t[2][1] \in {"put", "linkbad", "unlinked", "setcwd"}
         \/ Len(s) = 1 /\ t[1][1] = "walk" /\ t[2][1] = "linkdir"
  PROVE  /\ Shape(t) /\ (Moving(t) <=> t[2][1] = "setcwd")
<1>1. CASE Len(s) = 1
  <2>1. Len(t) = 2
    BY <1>1
  <2>2. Moving(t) <=> t[2][1] = "setcwd"
    BY <2>1, EmptyIs DEF Moving
  <2>3. Shape(t)
    <3>1. CASE t[1][1] = "unlock" /\ t[2][1] = "put"
      <4>1. UnlockFrom(t, 1)
        BY <2>1, <3>1, UnlockOf
      <4> QED
        BY <4>1, ShapeOf
    <3>2. CASE t[1][1] = "put" /\ t[2][1] \in {"put", "linkbad", "unlinked", "setcwd"}
      <4>1. OtherFrom(t, 2) \/ t[2][1] = "put"
        BY <2>1, <3>2 DEF OtherFrom
      <4> QED
        BY <2>1, <3>2, <4>1, ShapeOf
    <3>3. CASE t[1][1] = "walk" /\ t[2][1] = "linkdir"
      <4>1. MainFrom(t, 2) /\ ~Returns(t[2])
        BY <2>1, <3>3 DEF MainFrom, Returns
      <4>2. WalkFrom(t, 1)
        BY <2>1, <3>3, <4>1 DEF WalkFrom
      <4> QED
        BY <4>2, ShapeOf
    <3> QED
      BY <1>1, <3>1, <3>2, <3>3
  <2> QED
    BY <2>2, <2>3
<1>2. CASE Len(s) = 2
  <2>1. Len(t) = 3 /\ t[3] = s[2] /\ Returns(s[2])
    BY <1>2 DEF EndFrom
  <2>2. ~Moving(t) /\ t[2][1] # "setcwd"
    BY <1>2, <2>1, MovingNot, ReturnsKind
  <2>3. Shape(t)
    <3>1. CASE t[1][1] = "unlock" /\ t[2][1] = "put"
      <4>1. UnlockFrom(t, 1)
        BY <2>1, <3>1, UnlockOf
      <4> QED
        BY <4>1, ShapeOf
    <3>2. CASE t[1][1] = "put" /\ t[2][1] = "created"
      <4>1. OtherFrom(t, 2) \/ t[2][1] = "put"
        BY <2>1, <3>2 DEF OtherFrom
      <4> QED
        BY <2>1, <3>2, <4>1, ShapeOf
    <3> QED
      BY <1>2, <3>1, <3>2
  <2> QED
    BY <2>2, <2>3
<1> QED
  BY <1>1, <1>2

LEMMA End3 ==
  ASSUME NEW s, NEW t \in Seq(FsStep), EndFrom(s, 2), Len(s) \in 1 .. 2, Len(t) = Len(s) + 2,
         \A n \in 4 .. Len(t) : t[n] = s[n - 2],
         t[1][1] = "put", t[2][1] = "unlock", t[3][1] = "put"
  PROVE  Shape(t) /\ ~Moving(t)
<1>1. CASE Len(s) = 1
  <2>1. Len(t) = 3
    BY <1>1
  <2>2. ~Moving(t)
    BY <2>1, MovingNot
  <2>3. Shape(t)
    <3>1. UnlockFrom(t, 2)
      BY <2>1, UnlockOf
    <3> QED
      BY <2>1, <3>1, ShapeOf
  <2> QED
    BY <2>2, <2>3
<1>2. CASE Len(s) = 2
  <2>1. Len(t) = 4 /\ t[4] = s[2] /\ Returns(s[2])
    BY <1>2 DEF EndFrom
  <2>2. ~Moving(t)
    BY <2>1, MovingNot, ReturnsKind
  <2>3. Shape(t)
    <3>1. UnlockFrom(t, 2)
      BY <2>1, UnlockOf
    <3> QED
      BY <2>1, <3>1, ShapeOf
  <2> QED
    BY <2>2, <2>3
<1> QED
  BY <1>1, <1>2

\* The steps of namex().
LEMMA WalkIs ==
  ASSUME NEW s \in Seq(FsStep), Len(s) \in 1 .. 4, Shape(s), s[1][1] = "walk"
  PROVE  /\ Len(s) \in 2 .. 3 /\ MainFrom(s, 2) /\ ~Returns(s[2]) /\ ~Moving(s)
         /\ s[2][1] \in {"create", "open", "link", "linkdir", "unlink", "chdir"}
<1>1. s # <<>>
  BY EmptyIs
<1>2. Len(s) > 1 /\ MainFrom(s, 2) /\ ~Returns(s[2])
  BY <1>1, ShapeKinds DEF WalkFrom
<1>3. \/ Len(s) = 2 /\ s[2][1] \in {"open", "link", "linkdir", "unlink", "chdir"}
      \/ Len(s) = 3 /\ s[2][1] = "create" /\ Returns(s[3])
  BY <1>2 DEF MainFrom, EndFrom
<1>4. ~Moving(s)
  BY <1>3, MovingNot, ReturnsKind
<1> QED
  BY <1>2, <1>3, <1>4

LEMMA Walk0 ==
  ASSUME NEW s \in Seq(FsStep), Len(s) \in 1 .. 4, Shape(s), s[1][1] = "walk",
         NEW t \in Seq(FsStep), Len(t) = Len(s) - 1, \A n \in 1 .. Len(t) : t[n] = s[n + 1]
  PROVE  Shape(t) /\ (\A r : RetShape(t, r)) /\ ~RetLocked(t) /\ ~Moving(t) /\ Len(t) # 0
<1>1. /\ Len(s) \in 2 .. 3 /\ MainFrom(s, 2) /\ ~Returns(s[2])
      /\ s[2][1] \in {"create", "open", "link", "linkdir", "unlink", "chdir"}
  BY WalkIs
<1>2. Len(t) \in 1 .. 2 /\ t[1] = s[2]
  BY <1>1
<1>3. MainFrom(t, 1)
  BY <1>1, <1>2 DEF MainFrom, EndFrom
<1>4. ~Moving(t)
  <2>1. CASE Len(s) = 2
    BY <1>1, <1>2, <2>1, MovingNot
  <2>2. CASE Len(s) = 3
    <3>1. Returns(t[2]) /\ Len(t) = 2
      BY <1>1, <1>2, <2>2 DEF MainFrom, EndFrom
    <3> QED
      BY <3>1, MovingNot, ReturnsKind
  <2> QED
    BY <1>1, <2>1, <2>2
<1> QED
  BY <1>1, <1>2, <1>3, <1>4 DEF Shape, StepsFrom, RetShape, RetLocked, Returns, Putting

LEMMA Walk1 ==
  ASSUME NEW s \in Seq(FsStep), Len(s) \in 1 .. 4, Shape(s), s[1][1] = "walk",
         NEW t \in Seq(FsStep), Len(t) = Len(s), \A n \in 2 .. Len(t) : t[n] = s[n], t[1][1] = "put"
  PROVE  Shape(t) /\ ~Moving(t)
<1>1. Len(s) \in 2 .. 3 /\ MainFrom(s, 2) /\ ~Returns(s[2]) /\ ~Moving(s)
  BY WalkIs
<1>2. MainFrom(t, 2)
  BY <1>1 DEF MainFrom, EndFrom
<1>3. t[Len(t)] = s[Len(s)]
  BY <1>1
<1>4. ~Moving(t)
  <2>1. Len(t) \in 1 .. 4 /\ Len(s) \in 1 .. 4
    BY <1>1
  <2> QED
    BY <1>1, <1>3, <2>1, MovingSame
<1> QED
  BY <1>1, <1>2, <1>4 DEF Shape, StepsFrom, Putting

LEMMA Walk2 ==
  ASSUME NEW s \in Seq(FsStep), Len(s) \in 1 .. 4, Shape(s), s[1][1] = "walk",
         NEW t \in Seq(FsStep), Len(t) = Len(s) + 1, \A n \in 3 .. Len(t) : t[n] = s[n - 1],
         t[1][1] = "put", t[2][1] = "walk"
  PROVE  Shape(t) /\ ~Moving(t)
<1>1. Len(s) \in 2 .. 3 /\ MainFrom(s, 2) /\ ~Returns(s[2]) /\ ~Moving(s)
  BY WalkIs
<1>2. Len(t) \in 3 .. 4 /\ t[3] = s[2] /\ (Len(t) = 4 => t[4] = s[3])
  BY SMTT(30), <1>1
<1>3. MainFrom(t, 3)
  BY <1>1, <1>2 DEF MainFrom, EndFrom
<1>4. t[Len(t)] = s[Len(s)]
  BY <1>1, <1>2
<1>5. ~Moving(t)
  <2>1. Len(t) \in 1 .. 4 /\ Len(s) \in 1 .. 4
    BY <1>1, <1>2
  <2> QED
    BY <1>1, <1>4, <2>1, MovingSame
<1> QED
  BY <1>1, <1>2, <1>3, <1>5 DEF Shape, StepsFrom, WalkFrom, Putting

----------------------------------------------------------------------------
(***************************************************************************)
(* What the functions of fs.c do to the references and the locks           *)
(***************************************************************************)
LEMMA GrantsNone ==
  ASSUME FsCore, NEW p \in Proc
  PROVE  Grants(p, State, 0, 0, 0)
<1>1. FsType
  BY DEF FsCore
<1>2. State \in FsState /\ State.it = itable
  BY <1>1, StateType
<1>3. ASSUME NEW j \in Inum PROVE itable[j].ref = itable[j].ref + Eq(0, j)
  <2>1. itable[j].ref \in Nat /\ j # 0
    BY Held DEF Inum
  <2> QED
    BY <2>1 DEF Eq
<1>4. ASSUME NEW j \in Inum PROVE j # 0
  BY DEF Inum
<1> QED
  BY <1>2, <1>3, <1>4, Sizes DEF Grants

LEMMA GrantsLock ==
  ASSUME FsCore, NEW p \in Proc, NEW i \in Inum, itable[i].ref >= 1, itable[i].lock = None,
         NEW g, g = Ilock(State, p, i)
  PROVE  Grants(p, g, 0, i, 0)
<1>1. FsType
  BY DEF FsCore
<1>2. State \in FsState /\ State.it = itable
  BY <1>1, StateType
<1>3. /\ g \in FsState /\ \A j \in Inum : j # i => g.it[j] = itable[j]
      /\ g.it[i].ref = itable[i].ref /\ g.it[i].lock = p
  BY <1>2, IlockIs
<1>4. ASSUME NEW j \in Inum PROVE g.it[j].ref = itable[j].ref + Eq(0, j)
  <2>1. itable[j].ref \in Nat /\ j # 0
    BY Held DEF Inum
  <2> QED
    BY <1>3, <2>1 DEF Eq
<1>5. ASSUME NEW j \in Inum PROVE g.it[j].lock = IF j = i THEN p ELSE IF j = 0 THEN None ELSE itable[j].lock
  <2>1. j # 0
    BY DEF Inum
  <2> QED
    BY <1>3, <2>1
<1>6. i \in 0 .. NInodes /\ 0 \in 0 .. NInodes
  BY Sizes DEF Inum
<1> QED
  BY <1>3, <1>4, <1>5, <1>6 DEF Grants

LEMMA GrantsKeep ==
  ASSUME NEW p, NEW f, NEW inc, NEW lk, NEW ul, Grants(p, f, inc, lk, ul), NEW g, Keeps(f, g)
  PROVE  Grants(p, g, inc, lk, ul)
  BY DEF Grants, Keeps

LEMMA GrantsGet ==
  ASSUME FsCore, NEW p \in Proc, NEW f, NEW lk, NEW ul, Grants(p, f, 0, lk, ul), NEW e \in Inum,
         NEW g, g = Iget(f, e), g.panic = "no"
  PROVE  Grants(p, g, e, lk, ul) /\ f.panic = "no"
<1>1. f \in FsState
  BY DEF Grants
<1>2. ASSUME NEW j \in Inum PROVE f.it[j].ref = itable[j].ref /\ itable[j].ref \in Nat
  <2>1. itable[j].ref \in Nat
    BY Held
  <2>2. j # 0
    BY DEF Inum
  <2> QED
    BY <2>1, <2>2 DEF Grants, Eq
<1>3. f.it[e].ref >= 0
  BY <1>2
<1>4. /\ g \in FsState /\ \A j \in Inum : j # e => g.it[j] = f.it[j]
      /\ g.it[e].lock = f.it[e].lock /\ f.panic = "no" /\ g.it[e].ref = f.it[e].ref + 1
  BY <1>1, <1>3, IgetIs
<1>5. ASSUME NEW j \in Inum PROVE g.it[j].ref = itable[j].ref + Eq(e, j)
  BY <1>2, <1>4 DEF Eq
<1>6. \A j \in Inum : g.it[j].lock = f.it[j].lock
  BY <1>4
<1>7. e \in 0 .. NInodes
  BY Sizes DEF Inum
<1> QED
  BY <1>4, <1>5, <1>6, <1>7 DEF Grants

\* The inode that a step has locked.
LEMMA GrantsUnlock ==
  ASSUME FsCore, NEW p \in Proc, NEW i \in Inum, itable[i].ref >= 1, NEW f, NEW inc, Grants(p, f, inc, i, 0),
         NEW g, g = Iunlock(f, p, i)
  PROVE  Grants(p, g, inc, 0, 0) /\ g.panic = f.panic
<1>1. f \in FsState /\ f.it[i].lock = p /\ itable[i].lock = None /\ inc \in 0 .. NInodes
  BY DEF Grants, Inum
<1>2. f.it[i].ref >= 1
  <2>1. f.it[i].ref = itable[i].ref + Eq(inc, i)
    BY DEF Grants
  <2>2. itable[i].ref \in Nat
    BY Held
  <2> QED
    BY <2>1, <2>2 DEF Eq
<1>3. /\ g \in FsState /\ \A j \in Inum : j # i => g.it[j] = f.it[j]
      /\ g.it[i].ref = f.it[i].ref /\ g.panic = f.panic /\ g.it[i].lock = None
  BY <1>1, <1>2, IunlockIs
<1>4. ASSUME NEW j \in Inum PROVE g.it[j].lock = IF j = 0 THEN p ELSE IF j = 0 THEN None ELSE itable[j].lock
  <2>1. j # 0
    BY DEF Inum
  <2>2. f.it[j].lock = IF j = i THEN p ELSE IF j = 0 THEN None ELSE itable[j].lock
    BY DEF Grants
  <2> QED
    BY <1>1, <1>3, <2>1, <2>2
<1>5. \A j \in Inum : g.it[j].ref = itable[j].ref + Eq(inc, j)
  BY <1>3 DEF Grants
<1> QED
  BY <1>1, <1>3, <1>4, <1>5, Sizes DEF Grants

\* An inode that was locked by an earlier step.
LEMMA GrantsRelease ==
  ASSUME FsCore, NEW p \in Proc, NEW i \in Inum, itable[i].lock = p, NEW f, NEW inc, NEW lk, Grants(p, f, inc, lk, 0),
         NEW g, g = Iunlock(f, p, i), itable[i].ref >= 1 \/ g.panic = "no"
  PROVE  Grants(p, g, inc, lk, i) /\ g.panic = f.panic
<1>0. p # None /\ i # 0
  BY Sizes DEF Inum
<1>1. f \in FsState /\ i # lk /\ f.it[i].lock = p /\ inc \in 0 .. NInodes /\ lk \in 0 .. NInodes
  BY <1>0 DEF Grants
<1>2. itable[i].ref >= 1 => f.it[i].ref >= 1
  <2>1. f.it[i].ref = itable[i].ref + Eq(inc, i)
    BY DEF Grants
  <2>2. itable[i].ref \in Nat
    BY Held
  <2> QED
    BY <2>1, <2>2 DEF Eq
<1>3. /\ g \in FsState /\ \A j \in Inum : j # i => g.it[j] = f.it[j]
      /\ g.it[i].ref = f.it[i].ref /\ g.panic = f.panic /\ g.it[i].lock = None
  BY <1>1, <1>2, IunlockIs
<1>4. ASSUME NEW j \in Inum PROVE g.it[j].lock = IF j = lk THEN p ELSE IF j = i THEN None ELSE itable[j].lock
  <2>1. j # 0
    BY DEF Inum
  <2>2. f.it[j].lock = IF j = lk THEN p ELSE IF j = 0 THEN None ELSE itable[j].lock
    BY DEF Grants
  <2> QED
    BY <1>1, <1>3, <2>1, <2>2
<1>5. \A j \in Inum : g.it[j].ref = itable[j].ref + Eq(inc, j)
  BY <1>3 DEF Grants
<1>6. lk # 0 => itable[lk].lock = None
  BY DEF Grants
<1>7. i \in 0 .. NInodes
  BY Sizes DEF Inum
<1> QED
  BY <1>1, <1>3, <1>4, <1>5, <1>6, <1>7 DEF Grants

LEMMA AsDirKeeps ==
  ASSUME NEW f \in FsState, NEW d \in Inum, NEW g, g = AsDir(f, d)
  PROVE  Keeps(f, g)
  BY AsDirIs DEF Keeps


\* What a step finds in ret.
LEMMA RetFree ==
  ASSUME FsCore, NEW p \in Proc, NEW s, s = todo[p], todo[p] # <<>>, NEW q, q = ret[p], NEW j \in Inum
  PROVE  /\ s[1][1] \in {"create", "link", "linkdir", "unlink", "chdir"} => RetLock(s, q, j) = 0
         /\ s[1][1] \in {"created", "ialloc", "fill", "unlinkfile", "unlinked", "linkbad", "walk", "setcwd"} =>
              q = 0 /\ RetLock(s, q, j) = 0 /\ Eq(q, j) = 0
<1>1. s \in Seq(FsStep) /\ RetShape(s, q) /\ j # 0
  BY DEF FsCore, FsType, Shapes, Inum
<1>2. s[1][1] \in {"create", "link", "linkdir", "unlink", "chdir"} => RetLock(s, q, j) = 0
  BY DEF RetLock, RetLocked, Putting
<1>3. ASSUME s[1][1] \in {"created", "ialloc", "fill", "unlinkfile", "unlinked", "linkbad", "walk", "setcwd"}
      PROVE  q = 0
  <2>1. s[1][1] \notin Putting \union {"create", "open", "made", "link", "linkdir", "unlink", "chdir"}
    BY <1>3 DEF Putting
  <2> QED
    BY <1>1, <2>1, RetNone
<1> QED
  BY <1>1, <1>2, <1>3 DEF RetLock, Eq

\* A call that ends, or goes on in create()'s caller.
LEMMA EndsAt ==
  ASSUME FsCore, NEW p \in Proc, NEW s, s = todo[p], todo[p] # <<>>, s[1][1] \in InCreate \union Alone
  PROVE  /\ FsType /\ s \in Seq(FsStep) /\ Len(s) \in 1 .. 2 /\ Len(s) \in 1 .. 4
         /\ EndFrom(s, 2) /\ ~Moving(s)
         /\ Len(s) = IF s[1][1] \in InCreate THEN 2 ELSE 1
         /\ s[1][1] \in InCreate => Returns(s[2])
<1>1. FsType /\ s \in Seq(FsStep) /\ Shape(s)
  BY DEF FsCore, FsType, Shapes
<1>2. Len(s) \in 1 .. 4
  <2>1. Len(s) # 0 /\ Len(s) \in Nat
    BY <1>1, EmptyIs
  <2> QED
    BY <1>1, <2>1, ShapeLen
<1>3. /\ EndFrom(s, 2) /\ ~Moving(s)
      /\ Len(s) = IF s[1][1] \in InCreate THEN 2 ELSE 1
      /\ s[1][1] \in InCreate => Returns(s[2])
  BY <1>1, <1>2, Ends
<1>4. Len(s) \in 1 .. 2
  BY <1>3
<1> QED
  BY <1>1, <1>2, <1>3, <1>4

LEMMA RetTaken ==
  ASSUME NEW t, NEW r, NEW j \in Inum, r = 0 \/ t[1][1] = "put" \/ Returns(t[1])
  PROVE  RetLock(t, r, j) = Eq(r, j)
<1>1. j # 0
  BY DEF Inum
<1>2. r = 0 \/ RetLocked(t)
  BY DEF RetLocked, Returns, Putting
<1> QED
  BY <1>1, <1>2 DEF RetLock, Eq

Even0(s, q, r, inc, lk, ul) ==
  \A j \in Inum :
    /\ Eq(r, j) = Refs(s[1], j) + Eq(q, j) + Eq(inc, j)
    /\ Eq(r, j) + Eq(ul, j) = Locks(s[1], j) + RetLock(s, q, j) + Eq(lk, j)

LEMMA Out0 ==
  ASSUME FsCore, NEW p \in Proc, NEW s, s = todo[p], NEW q, q = ret[p], todo[p] # <<>>,
         s[1][1] \in InCreate \union Alone,
         NEW r \in 0 .. NInodes, r = 0 \/ s[1][1] \in InCreate, Go(p, <<>>, r), UNCHANGED <<file, cwd>>,
         NEW g, itable' = g.it, dinode' = g.di, bitmap' = g.used, panic' = g.panic,
         NEW inc, NEW lk, NEW ul, Grants(p, g, inc, lk, ul),
         Even0(s, q, r, inc, lk, ul)
  PROVE  FsCore'
<1>1. /\ FsType /\ s \in Seq(FsStep) /\ Len(s) \in 1 .. 2 /\ Len(s) \in 1 .. 4
      /\ EndFrom(s, 2) /\ ~Moving(s)
      /\ Len(s) = IF s[1][1] \in InCreate THEN 2 ELSE 1
      /\ s[1][1] \in InCreate => Returns(s[2])
  BY EndsAt
<1>2. PICK t : After0(p, s, t, r)
  <2>1. s # <<>> /\ r \in 0 .. NInodes
    BY Sizes
  <2>2. Len(s) \in 1 .. 3
    BY <1>1
  <2> QED
    BY <1>1, <2>1, <2>2, Go0
<1>3. /\ t \in Seq(FsStep) /\ Turn(p, t, r) /\ Len(t) = Len(s) - 1
      /\ \A n \in 1 .. Len(t) : t[n] = s[n + 1]
  BY <1>2 DEF After0
<1>4. Shape(t) /\ ~Moving(t) /\ Len(t) \in 0 .. 1 /\ (Len(t) = 1 => Returns(t[1]))
  BY <1>1, <1>3, End0
<1>5. RetShape(t, r) /\ (r = 0 \/ Returns(t[1]))
  <2>1. CASE r = 0
    BY <2>1 DEF RetShape
  <2>2. CASE r # 0
    <3>1. s[1][1] \in InCreate
      BY <2>2
    <3>2. Len(t) = 1
      BY <1>1, <1>3, <3>1
    <3> QED
      BY <1>4, <3>2 DEF RetShape, Returns
  <2> QED
    BY <2>1, <2>2
<1>6. \A j \in Inum : RetLock(t, r, j) = Eq(r, j)
  BY <1>5, RetTaken
<1>7. Balance0(s, q, t, r, inc, lk, ul)
  BY <1>6 DEF Balance0, Even0
<1> QED
  BY <1>1, <1>2, <1>4, <1>5, <1>7, Granted0

Even1(s, q, a, r, inc, lk, ul) ==
  \A j \in Inum :
    /\ Refs(a, j) + Eq(r, j) = Refs(s[1], j) + Eq(q, j) + Eq(inc, j)
    /\ Locks(a, j) + Eq(r, j) + Eq(ul, j) = Locks(s[1], j) + RetLock(s, q, j) + Eq(lk, j)

LEMMA Out1 ==
  ASSUME FsCore, NEW p \in Proc, NEW s, s = todo[p], NEW q, q = ret[p], todo[p] # <<>>,
         s[1][1] \in InCreate \union Alone, NEW a \in FsStep,
         \/ a[1] = "put"
         \/ s[1][1] \in InCreate /\ a[1] \in {"ialloc", "fill"}
         \/ s[1][1] \in Alone /\ a[1] \in {"linkbad", "unlinkfile"},
         NEW r \in 0 .. NInodes, r = 0 \/ (s[1][1] \in InCreate /\ a[1] = "put"), Go(p, <<a>>, r), UNCHANGED <<file, cwd>>,
         NEW g, itable' = g.it, dinode' = g.di, bitmap' = g.used, panic' = g.panic,
         NEW inc, NEW lk, NEW ul, panic' = "no" => Grants(p, g, inc, lk, ul),
         Even1(s, q, a, r, inc, lk, ul)
  PROVE  FsCore' \/ Stuck'
<1>1. /\ FsType /\ s \in Seq(FsStep) /\ Len(s) \in 1 .. 2 /\ Len(s) \in 1 .. 4
      /\ EndFrom(s, 2) /\ ~Moving(s)
      /\ Len(s) = IF s[1][1] \in InCreate THEN 2 ELSE 1
      /\ s[1][1] \in InCreate => Returns(s[2])
  BY EndsAt
<1>2. PICK t : After1(p, s, t, a, r)
  <2>1. s # <<>> /\ r \in 0 .. NInodes
    BY Sizes
  <2>2. Len(s) \in 1 .. 3
    BY <1>1
  <2> QED
    BY <1>1, <2>1, <2>2, Go1
<1>3. /\ t \in Seq(FsStep) /\ Turn(p, t, r) /\ Len(t) = Len(s) /\ t[1] = a
      /\ \A n \in 2 .. Len(t) : t[n] = s[n]
  BY <1>2 DEF After1
<1>4. Shape(t) /\ ~Moving(t) /\ (Len(t) = 2 => Returns(t[2]))
  <2>1. s[1][1] \in InCreate <=> s[1][1] \notin Alone
    BY DEF InCreate, Alone
  <2>2. \/ t[1][1] = "put"
        \/ Len(s) = 2 /\ t[1][1] \in {"ialloc", "fill"}
        \/ Len(s) = 1 /\ t[1][1] \in {"linkbad", "unlinkfile"}
    BY <1>1, <1>3, <2>1
  <2> QED
    BY <1>1, <1>3, <2>2, End1
<1>5. RetShape(t, r) /\ (r = 0 \/ t[1][1] = "put")
  <2>1. CASE r = 0
    BY <2>1 DEF RetShape
  <2>2. CASE r # 0
    <3>1. s[1][1] \in InCreate /\ t[1][1] = "put"
      BY <1>3, <2>2
    <3>2. Len(t) = 2
      BY <1>1, <1>3, <3>1
    <3> QED
      BY <1>4, <3>1, <3>2 DEF RetShape, Putting
  <2> QED
    BY <2>1, <2>2
<1>6. \A j \in Inum : RetLock(t, r, j) = Eq(r, j)
  BY <1>5, RetTaken
<1>7. Balance1(s, q, a, t, r, inc, lk, ul)
  BY <1>6 DEF Balance1, Even1
<1>8. CASE panic' = "no"
  <2>1. Grants(p, g, inc, lk, ul)
    BY <1>8
  <2>2. (Moving(t) <=> Moving(s)) /\ Shape(t) /\ RetShape(t, r)
    BY <1>1, <1>4, <1>5
  <2>3. FsCore'
    BY <1>2, <1>7, <2>1, <2>2, Granted1
  <2> QED
    BY <2>3
<1>9. CASE panic' # "no"
  <2>1. Len(t) # 0
    BY <1>1, <1>3
  <2>2. t \in Seq(FsStep) /\ Turn(p, t, r)
    BY <1>3
  <2>3. Stuck'
    BY <1>9, <2>1, <2>2, Sticks
  <2> QED
    BY <2>3
<1> QED
  BY <1>8, <1>9

Even2(s, q, a, b, r, inc, lk, ul) ==
  \A j \in Inum :
    /\ Refs(a, j) + Refs(b, j) + Eq(r, j) = Refs(s[1], j) + Eq(q, j) + Eq(inc, j)
    /\ Locks(a, j) + Locks(b, j) + Eq(r, j) + Eq(ul, j) = Locks(s[1], j) + RetLock(s, q, j) + Eq(lk, j)

LEMMA Out2 ==
  ASSUME FsCore, NEW p \in Proc, NEW s, s = todo[p], NEW q, q = ret[p], todo[p] # <<>>,
         s[1][1] \in InCreate \union Alone, NEW a \in FsStep, NEW b \in FsStep,
         \/ a[1] = "unlock" /\ b[1] = "put"
         \/ s[1][1] \in InCreate /\ a[1] = "put" /\ b[1] = "created"
         \/ s[1][1] \in Alone /\ a[1] = "put" /\ b[1] \in {"put", "linkbad", "unlinked"}
         \/ s[1][1] \in Alone /\ a[1] = "walk" /\ b[1] = "linkdir",
         NEW r, r = 0, Go(p, <<a, b>>, r), UNCHANGED <<file, cwd>>,
         NEW g, itable' = g.it, dinode' = g.di, bitmap' = g.used, panic' = g.panic,
         NEW inc, NEW lk, NEW ul, panic' = "no" => Grants(p, g, inc, lk, ul),
         Even2(s, q, a, b, r, inc, lk, ul)
  PROVE  FsCore' \/ Stuck'
<1>1. /\ FsType /\ s \in Seq(FsStep) /\ Len(s) \in 1 .. 2 /\ Len(s) \in 1 .. 4
      /\ EndFrom(s, 2) /\ ~Moving(s)
      /\ Len(s) = IF s[1][1] \in InCreate THEN 2 ELSE 1
      /\ s[1][1] \in InCreate => Returns(s[2])
  BY EndsAt
<1>2. PICK t : After2(p, s, t, a, b, r)
  <2>1. s # <<>> /\ r \in 0 .. NInodes
    BY Sizes
  <2>2. Len(s) \in 1 .. 3
    BY <1>1
  <2> QED
    BY <1>1, <2>1, <2>2, Go2
<1>3. /\ t \in Seq(FsStep) /\ Turn(p, t, r) /\ Len(t) = Len(s) + 1 /\ t[1] = a /\ t[2] = b
      /\ \A n \in 3 .. Len(t) : t[n] = s[n - 1]
  BY <1>2 DEF After2
<1>4. Shape(t) /\ ~Moving(t)
  <2>1. s[1][1] \in InCreate <=> s[1][1] \notin Alone
    BY DEF InCreate, Alone
  <2>2. \/ t[1][1] = "unlock" /\ t[2][1] = "put"
        \/ Len(s) = 2 /\ t[1][1] = "put" /\ t[2][1] = "created"
        \/ Len(s) = 1 /\ t[1][1] = "put" /\ t[2][1] \in {"put", "linkbad", "unlinked"}
        \/ Len(s) = 1 /\ t[1][1] = "walk" /\ t[2][1] = "linkdir"
    BY <1>1, <1>3, <2>1
  <2>3. t[2][1] # "setcwd"
    BY <2>2
  <2>4. Shape(t) /\ (Moving(t) <=> t[2][1] = "setcwd")
    BY <1>1, <1>3, <2>2, End2
  <2> QED
    BY <2>3, <2>4
<1>5. RetShape(t, r) /\ r = 0
  BY DEF RetShape
<1>6. \A j \in Inum : RetLock(t, r, j) = Eq(r, j)
  BY <1>5, RetTaken
<1>7. Balance2(s, q, a, b, t, r, inc, lk, ul)
  BY <1>6 DEF Balance2, Even2
<1>8. CASE panic' = "no"
  <2>1. Grants(p, g, inc, lk, ul)
    BY <1>8
  <2>2. (Moving(t) <=> Moving(s)) /\ Shape(t) /\ RetShape(t, r)
    BY <1>1, <1>4, <1>5
  <2>3. FsCore'
    BY <1>2, <1>7, <2>1, <2>2, Granted2
  <2> QED
    BY <2>3
<1>9. CASE panic' # "no"
  <2>1. Len(t) # 0
    BY <1>1, <1>3
  <2>2. t \in Seq(FsStep) /\ Turn(p, t, r)
    BY <1>3
  <2>3. Stuck'
    BY <1>9, <2>1, <2>2, Sticks
  <2> QED
    BY <2>3
<1> QED
  BY <1>8, <1>9

Even3(s, q, a, b, c, r, inc, lk, ul) ==
  \A j \in Inum :
    /\ Refs(a, j) + Refs(b, j) + Refs(c, j) + Eq(r, j) = Refs(s[1], j) + Eq(q, j) + Eq(inc, j)
    /\ Locks(a, j) + Locks(b, j) + Locks(c, j) + Eq(r, j) + Eq(ul, j) = Locks(s[1], j) + RetLock(s, q, j) + Eq(lk, j)

LEMMA Out3 ==
  ASSUME FsCore, NEW p \in Proc, NEW s, s = todo[p], NEW q, q = ret[p], todo[p] # <<>>,
         s[1][1] \in InCreate \union Alone, NEW a \in FsStep, NEW b \in FsStep, NEW c \in FsStep,
         a[1] = "put", b[1] = "unlock", c[1] = "put",
         NEW r, r = 0, Go(p, <<a, b, c>>, r), UNCHANGED <<file, cwd>>,
         NEW g, itable' = g.it, dinode' = g.di, bitmap' = g.used, panic' = g.panic,
         NEW inc, NEW lk, NEW ul, panic' = "no" => Grants(p, g, inc, lk, ul),
         Even3(s, q, a, b, c, r, inc, lk, ul)
  PROVE  FsCore' \/ Stuck'
<1>1. /\ FsType /\ s \in Seq(FsStep) /\ Len(s) \in 1 .. 2 /\ Len(s) \in 1 .. 4
      /\ EndFrom(s, 2) /\ ~Moving(s)
      /\ Len(s) = IF s[1][1] \in InCreate THEN 2 ELSE 1
      /\ s[1][1] \in InCreate => Returns(s[2])
  BY EndsAt
<1>2. PICK t : After3(p, s, t, a, b, c, r)
  <2>1. s # <<>> /\ r \in 0 .. NInodes
    BY Sizes
  <2>2. Len(s) \in 1 .. 3
    BY <1>1
  <2> QED
    BY <1>1, <2>1, <2>2, Go3
<1>3. /\ t \in Seq(FsStep) /\ Turn(p, t, r) /\ Len(t) = Len(s) + 2 /\ t[1] = a /\ t[2] = b /\ t[3] = c
      /\ \A n \in 4 .. Len(t) : t[n] = s[n - 2]
  BY <1>2 DEF After3
<1>4. Shape(t) /\ ~Moving(t)
  BY <1>1, <1>3, End3
<1>5. RetShape(t, r) /\ r = 0
  BY DEF RetShape
<1>6. \A j \in Inum : RetLock(t, r, j) = Eq(r, j)
  BY <1>5, RetTaken
<1>7. Balance3(s, q, a, b, c, t, r, inc, lk, ul)
  BY <1>6 DEF Balance3, Even3
<1>8. CASE panic' = "no"
  <2>1. Grants(p, g, inc, lk, ul)
    BY <1>8
  <2>2. (Moving(t) <=> Moving(s)) /\ Shape(t) /\ RetShape(t, r)
    BY <1>1, <1>4, <1>5
  <2>3. FsCore'
    BY <1>2, <1>7, <2>1, <2>2, Granted3
  <2> QED
    BY <2>3
<1>9. CASE panic' # "no"
  <2>1. Len(t) # 0
    BY <1>1, <1>3
  <2>2. t \in Seq(FsStep) /\ Turn(p, t, r)
    BY <1>3
  <2>3. Stuck'
    BY <1>9, <2>1, <2>2, Sticks
  <2> QED
    BY <2>3
<1> QED
  BY <1>8, <1>9


----------------------------------------------------------------------------
(***************************************************************************)
(* The steps of the calls                                                  *)
(***************************************************************************)
LEMMA WeightsOf ==
  ASSUME NEW st, NEW j
  PROVE  /\ st[1] \in {"put", "walk", "created", "linkdir", "linkbad", "setcwd"} =>
              Refs(st, j) = Eq(st[2], j) /\ Locks(st, j) = 0
         /\ st[1] \in {"ialloc", "unlinked"} => Refs(st, j) = Eq(st[2], j) /\ Locks(st, j) = Eq(st[2], j)
         /\ st[1] = "fill" => Refs(st, j) = Eq(st[2], j) + Eq(st[5], j) /\ Locks(st, j) = Eq(st[2], j)
         /\ st[1] = "unlinkfile" => Refs(st, j) = Eq(st[2], j) + Eq(st[3], j) /\ Locks(st, j) = Eq(st[2], j)
         /\ st[1] = "unlock" => Refs(st, j) = 0 /\ Locks(st, j) = Eq(st[2], j)
         /\ st[1] \in {"create", "open", "made", "link", "unlink", "chdir"} => Refs(st, j) = 0 /\ Locks(st, j) = 0
  BY Weights DEF Using, Locking, Putting

LEMMA EqZero ==
  ASSUME NEW j \in Inum
  PROVE  Eq(0, j) = 0
<1>1. j # 0
  BY DEF Inum
<1> QED
  BY <1>1 DEF Eq

\* What a step names is in the table.
LEMMA HasRef ==
  ASSUME FsCore, NEW p \in Proc, NEW s, s = todo[p], todo[p] # <<>>, NEW q, q = ret[p], NEW i \in Inum,
         \/ q = i
         \/ s[1][1] \in Using /\ s[1][2] = i
         \/ s[1][1] = "fill" /\ s[1][5] = i
         \/ s[1][1] = "unlinkfile" /\ s[1][3] = i
  PROVE  itable[i].ref >= 1
<1>1. s \in Seq(FsStep) /\ Shape(s)
  BY DEF FsCore, FsType, Shapes
<1>2. Len(s) \in 1 .. 4
  <2>1. Len(s) # 0 /\ Len(s) \in Nat
    BY <1>1, EmptyIs
  <2> QED
    BY <1>1, <2>1, ShapeLen
<1>3. Uses(s, q, i) >= Refs(s[1], i) + Eq(q, i)
  BY <1>2, FirstWeight
<1>4. Refs(s[1], i) + Eq(q, i) >= 1
  <2>1. CASE q = i
    <3>1. Eq(q, i) = 1 /\ Refs(s[1], i) \in Nat
      BY <2>1, Weights DEF Eq
    <3> QED
      BY <3>1
  <2>2. CASE s[1][1] \in Using /\ s[1][2] = i
    <3>1. Eq(s[1][2], i) = 1 /\ Eq(q, i) \in Nat /\ Eq(s[1][3], i) \in Nat /\ Eq(s[1][5], i) \in Nat
      BY <2>2, EqNat DEF Eq
    <3>2. Refs(s[1], i) >= 1 /\ Refs(s[1], i) \in Nat
      <4>1. CASE s[1][1] = "fill"
        BY <3>1, <4>1, Weights
      <4>2. CASE s[1][1] = "unlinkfile"
        BY <3>1, <4>2, Weights
      <4>3. CASE s[1][1] \in Using \ {"fill", "unlinkfile"}
        BY <3>1, <4>3, Weights
      <4> QED
        BY <2>2, <4>1, <4>2, <4>3
    <3> QED
      BY <3>1, <3>2
  <2>3. CASE s[1][1] = "fill" /\ s[1][5] = i
    <3>1. Eq(s[1][5], i) = 1 /\ Eq(q, i) \in Nat /\ Eq(s[1][2], i) \in Nat
      BY <2>3, EqNat DEF Eq
    <3> QED
      BY <2>3, <3>1, Weights
  <2>4. CASE s[1][1] = "unlinkfile" /\ s[1][3] = i
    <3>1. Eq(s[1][3], i) = 1 /\ Eq(q, i) \in Nat /\ Eq(s[1][2], i) \in Nat
      BY <2>4, EqNat DEF Eq
    <3> QED
      BY <2>4, <3>1, Weights
  <2> QED
    BY <2>1, <2>2, <2>3, <2>4
<1>5. Uses(s, q, i) \in Nat /\ Refs(s[1], i) \in Nat /\ Eq(q, i) \in Nat
  BY UsesNat, Weights, EqNat
<1>6. Uses(s, q, i) >= 1
  BY <1>3, <1>4, <1>5
<1> QED
  BY <1>6, Held

\* What the steps of the calls begin with.
LEMMA StepIs ==
  ASSUME FsCore, NEW p \in Proc, NEW k, At(p, k), NEW s, s = todo[p], NEW q, q = ret[p]
  PROVE  /\ todo[p] # <<>> /\ s[1] \in FsStep /\ s[1][1] = k /\ q \in 0 .. NInodes
         /\ Arg(p, 1) = s[1][2] /\ Arg(p, 2) = s[1][3] /\ Arg(p, 3) = s[1][4] /\ Arg(p, 4) = s[1][5]
         /\ State \in FsState /\ State.it = itable /\ Grants(p, State, 0, 0, 0)
         /\ q # 0 => q \in Inum /\ itable[q].ref >= 1
<1>1. s[1] \in FsStep /\ s[1][1] = k /\ q \in 0 .. NInodes /\ FsType
  BY AtIs
<1>2. todo[p] # <<>>
  BY DEF At
<1>3. /\ Arg(p, 1) = s[1][2] /\ Arg(p, 2) = s[1][3]
      /\ Arg(p, 3) = s[1][4] /\ Arg(p, 4) = s[1][5]
  BY DEF Arg
<1>4. State \in FsState /\ State.it = itable /\ Grants(p, State, 0, 0, 0)
  BY <1>1, StateType, GrantsNone
<1>5. ASSUME q # 0 PROVE q \in Inum /\ itable[q].ref >= 1
  <2>1. q \in Inum
    BY <1>1, <1>5, Sizes DEF Inum
  <2> QED
    BY <1>2, <2>1, HasRef
<1> QED
  BY <1>1, <1>2, <1>3, <1>4, <1>5

LEMMA AppendTwo ==
  ASSUME NEW x, NEW y
  PROVE  Append(<<x>>, y) = <<x, y>>
<1>1. PICK S : x \in S /\ y \in S
  <2>1. x \in {x, y} /\ y \in {x, y}
    OBVIOUS
  <2> QED
    BY <2>1
<1>2. <<x>> \in Seq(S) /\ <<x, y>> \in Seq(S)
  BY <1>1
<1>3. /\ Append(<<x>>, y) \in Seq(S) /\ Len(Append(<<x>>, y)) = 2
      /\ Append(<<x>>, y)[1] = x /\ Append(<<x>>, y)[2] = y
  BY <1>1, <1>2, AppendProperties
<1>4. Len(<<x, y>>) = 2 /\ <<x, y>>[1] = x /\ <<x, y>>[2] = y
  OBVIOUS
<1>5. \A i \in 1 .. 2 : Append(<<x>>, y)[i] = <<x, y>>[i]
  BY <1>3, <1>4
<1> QED
  BY <1>2, <1>3, <1>4, <1>5, SeqEqual

LEMMA StartIs ==
  ASSUME FsCore, NEW p \in Proc, NEW path \in WPath
  PROVE  Start(p, path) \in Inum /\ LastElem(path) \in Word /\ path.elems \in Seq(Word)
<1>1. path.elems \in Seq(Word)
  BY DEF WPath
<1>2. Start(p, path) \in Inum
  <2>1. cwd[p] \in Inum /\ Root \in Inum
    BY Sizes DEF FsCore, FsType, Inum, Root
  <2> QED
    BY <2>1 DEF Start
<1>3. LastElem(path) \in Word
  <2>1. PICK x : x = path.elems
    OBVIOUS
  <2>2. CASE x = <<>>
    BY <2>1, <2>2, Words DEF LastElem
  <2>3. CASE x # <<>>
    <3>1. x \in Seq(Word)
      BY <1>1, <2>1
    <3>2. Len(x) \in 1 .. Len(x)
      BY <2>3, <3>1, EmptySeq
    <3>3. Last(x) \in Word
      BY <3>1, <3>2 DEF Last
    <3> QED
      BY <2>1, <2>3, <3>3 DEF LastElem
  <2> QED
    BY <2>2, <2>3
<1> QED
  BY <1>1, <1>2, <1>3

LEMMA RetHeld ==
  ASSUME NEW s, NEW q, NEW j, RetLocked(s)
  PROVE  RetLock(s, q, j) = Eq(q, j)
  BY DEF RetLock, Eq

LEMMA LockedRet ==
  ASSUME FsCore, NEW p \in Proc, NEW s, s = todo[p], NEW q \in Inum, q = ret[p], RetLocked(s)
  PROVE  itable[q].lock = p
<1>1. Obliged(s, q, q) = IF itable[q].lock = p THEN 1 ELSE 0
  BY DEF FsCore, LocksHeld
<1>2. RetLock(s, q, q) = 1 /\ TodoLocks(s, q) \in Nat
  BY UsesNat DEF RetLock
<1> QED
  BY <1>1, <1>2 DEF Obliged

LEMMA GetTyped ==
  ASSUME FsCore, NEW p \in Proc, NEW f, NEW lk, NEW ul, Grants(p, f, 0, lk, ul), NEW e \in Inum, NEW g, g = Iget(f, e)
  PROVE  g \in FsState
<1>1. f \in FsState
  BY DEF Grants
<1>2. f.it[e].ref = itable[e].ref + 0 /\ itable[e].ref \in Nat
  <2>1. itable[e].ref \in Nat
    BY Held
  <2> QED
    BY <2>1, EqZero DEF Grants
<1>3. f.it[e].ref >= 0
  BY <1>2
<1> QED
  BY <1>1, <1>3, IgetIs

LEMMA LinkBadGoes ==
  ASSUME FsCore, NEW p \in Proc, LinkBad(p)
  PROVE  FsCore' \/ Stuck'
<1>1. PICK s, q : s = todo[p] /\ q = ret[p]
  OBVIOUS
<1>2. At(p, "linkbad") /\ UNCHANGED <<file, cwd>>
  BY DEF LinkBad
<1>3. /\ todo[p] # <<>> /\ s[1] \in FsStep /\ s[1][1] = "linkbad" /\ q \in 0 .. NInodes
      /\ Arg(p, 1) = s[1][2] /\ Arg(p, 2) = s[1][3] /\ Arg(p, 3) = s[1][4] /\ Arg(p, 4) = s[1][5]
      /\ State \in FsState /\ State.it = itable /\ Grants(p, State, 0, 0, 0)
      /\ q # 0 => q \in Inum /\ itable[q].ref >= 1
  BY <1>1, <1>2, StepIs
<1>4. s[1][1] \in InCreate \union Alone /\ s[1][1] \in Alone
  BY <1>3 DEF InCreate, Alone
<1>5. PICK i : i = Arg(p, 1) /\ i = s[1][2]
  BY <1>3
<1>6. i \in Inum /\ itable[i].ref >= 1
  <2>1. i \in Inum
    BY <1>3, <1>5, StepArgs DEF Using
  <2>2. s[1][1] \in Using
    BY <1>3 DEF Using
  <2> QED
    BY <1>1, <1>3, <1>5, <2>1, <2>2, HasRef
<1>7. PICK f, h, g : f = Ilock(State, p, i) /\ h = AddLinks(f, i, Unlinked) /\ g = Iunlock(h, p, i)
  OBVIOUS
<1>8. itable[i].lock = None /\ Become(g) /\ Go(p, <<<<"put", i>>>>, 0)
  BY <1>5, <1>7 DEF LinkBad, Unlocked
<1>9. Grants(p, g, 0, 0, 0)
  <2>1. Grants(p, f, 0, i, 0)
    BY <1>6, <1>7, <1>8, GrantsLock
  <2>2. f \in FsState /\ Unlinked \in Int
    BY <2>1 DEF Grants, Unlinked
  <2>3. Keeps(f, h)
    BY <1>6, <1>7, <2>2, AddLinksIs
  <2>4. Grants(p, h, 0, i, 0)
    BY <2>1, <2>3, GrantsKeep
  <2> QED
    BY <1>6, <1>7, <2>4, GrantsUnlock
<1>10. itable' = g.it /\ dinode' = g.di /\ bitmap' = g.used /\ panic' = g.panic
  BY <1>8, BecomeIs
<1>11. FsCore' \/ Stuck'
  <2>1. PICK a : a = <<"put", i>>
    OBVIOUS
  <2>2. a \in FsStep /\ a[1] = "put" /\ a[2] = i
    BY <2>1, <1>6, StepsAre DEF Putting
  <2>3. Go(p, <<a>>, 0)
    BY <1>8, <2>1
  <2>4. Even1(s, q, a, 0, 0, 0, 0)
    <3>1. ASSUME NEW j \in Inum
          PROVE  /\ Refs(a, j) + Eq(0, j) = Refs(s[1], j) + Eq(q, j) + Eq(0, j)
                 /\ Locks(a, j) + Eq(0, j) + Eq(0, j) = Locks(s[1], j) + RetLock(s, q, j) + Eq(0, j)
      <4>1. Refs(a, j) = Eq(i, j) /\ Locks(a, j) = 0
        BY <2>2, WeightsOf
      <4>2. Refs(s[1], j) = Eq(i, j) /\ Locks(s[1], j) = 0
        BY <1>3, <1>5, WeightsOf
      <4>3. RetLock(s, q, j) = 0 /\ Eq(q, j) = 0
        BY <1>1, <1>3, RetFree
      <4>4. Eq(0, j) = 0 /\ Eq(i, j) \in Nat
        BY EqZero, EqNat
      <4> QED
        BY <4>1, <4>2, <4>3, <4>4
    <3> QED
      BY <3>1 DEF Even1
  <2> QED
    BY <1>1, <1>2, <1>3, <1>4, <1>10, <1>9, <2>3, <2>2, <2>4, Sizes, Out1
<1> QED
  BY <1>11

LEMMA UnlinkDoneGoes ==
  ASSUME FsCore, NEW p \in Proc, UnlinkDone(p)
  PROVE  FsCore' \/ Stuck'
<1>1. PICK s, q : s = todo[p] /\ q = ret[p]
  OBVIOUS
<1>2. At(p, "unlinked") /\ UNCHANGED <<file, cwd>>
  BY DEF UnlinkDone
<1>3. /\ todo[p] # <<>> /\ s[1] \in FsStep /\ s[1][1] = "unlinked" /\ q \in 0 .. NInodes
      /\ Arg(p, 1) = s[1][2] /\ Arg(p, 2) = s[1][3] /\ Arg(p, 3) = s[1][4] /\ Arg(p, 4) = s[1][5]
      /\ State \in FsState /\ State.it = itable /\ Grants(p, State, 0, 0, 0)
      /\ q # 0 => q \in Inum /\ itable[q].ref >= 1
  BY <1>1, <1>2, StepIs
<1>4. s[1][1] \in InCreate \union Alone /\ s[1][1] \in Alone
  BY <1>3 DEF InCreate, Alone
<1>5. PICK i : i = Arg(p, 1) /\ i = s[1][2]
  BY <1>3
<1>6. i \in Inum /\ itable[i].ref >= 1
  <2>1. i \in Inum
    BY <1>3, <1>5, StepArgs DEF Using
  <2>2. s[1][1] \in Using
    BY <1>3 DEF Using
  <2> QED
    BY <1>1, <1>3, <1>5, <2>1, <2>2, HasRef
<1>7. PICK h, g : h = AddLinks(State, i, -1) /\ g = Iunlock(h, p, i)
  OBVIOUS
<1>8. Become(g) /\ Go(p, <<<<"put", i>>>>, 0)
  BY <1>5, <1>7 DEF UnlinkDone
<1>9. Grants(p, g, 0, 0, i)
  <2>1. PICK n \in Int : n = -1
    OBVIOUS
  <2>5. Keeps(State, h)
    BY <1>3, <1>6, <1>7, <2>1, AddLinksIs
  <2>2. Grants(p, h, 0, 0, 0)
    BY <1>3, <2>5, GrantsKeep
  <2>3. itable[i].lock = p
    <3>1. s[1][1] \in Locking
      BY <1>3 DEF Locking
    <3>2. Len(s) \in 1 .. 4
      BY <1>1, <1>3, <1>4, EndsAt
    <3> QED
      BY <1>1, <1>5, <1>6, <3>1, <3>2, LockedFirst
  <2> QED
    BY <1>6, <1>7, <2>2, <2>3, GrantsRelease
<1>10. itable' = g.it /\ dinode' = g.di /\ bitmap' = g.used /\ panic' = g.panic
  BY <1>8, BecomeIs
<1>11. FsCore' \/ Stuck'
  <2>1. PICK a : a = <<"put", i>>
    OBVIOUS
  <2>2. a \in FsStep /\ a[1] = "put" /\ a[2] = i
    BY <2>1, <1>6, StepsAre DEF Putting
  <2>3. Go(p, <<a>>, 0)
    BY <1>8, <2>1
  <2>4. Even1(s, q, a, 0, 0, 0, i)
    <3>1. ASSUME NEW j \in Inum
          PROVE  /\ Refs(a, j) + Eq(0, j) = Refs(s[1], j) + Eq(q, j) + Eq(0, j)
                 /\ Locks(a, j) + Eq(0, j) + Eq(i, j) = Locks(s[1], j) + RetLock(s, q, j) + Eq(0, j)
      <4>1. Refs(a, j) = Eq(i, j) /\ Locks(a, j) = 0
        BY <2>2, WeightsOf
      <4>2. Refs(s[1], j) = Eq(i, j) /\ Locks(s[1], j) = Eq(i, j)
        BY <1>3, <1>5, WeightsOf
      <4>3. RetLock(s, q, j) = 0 /\ Eq(q, j) = 0
        BY <1>1, <1>3, RetFree
      <4>4. Eq(0, j) = 0 /\ Eq(i, j) \in Nat
        BY EqZero, EqNat
      <4> QED
        BY <4>1, <4>2, <4>3, <4>4
    <3> QED
      BY <3>1 DEF Even1
  <2> QED
    BY <1>1, <1>2, <1>3, <1>4, <1>10, <1>9, <2>3, <2>2, <2>4, Sizes, Out1
<1> QED
  BY <1>11

LEMMA MadeGoes ==
  ASSUME FsCore, NEW p \in Proc, Made(p)
  PROVE  FsCore' \/ Stuck'
<1>1. PICK s, q : s = todo[p] /\ q = ret[p]
  OBVIOUS
<1>2. At(p, "made") /\ UNCHANGED <<file, cwd>>
  BY DEF Made
<1>3. /\ todo[p] # <<>> /\ s[1] \in FsStep /\ s[1][1] = "made" /\ q \in 0 .. NInodes
      /\ Arg(p, 1) = s[1][2] /\ Arg(p, 2) = s[1][3] /\ Arg(p, 3) = s[1][4] /\ Arg(p, 4) = s[1][5]
      /\ State \in FsState /\ State.it = itable /\ Grants(p, State, 0, 0, 0)
      /\ q # 0 => q \in Inum /\ itable[q].ref >= 1
  BY <1>1, <1>2, StepIs
<1>4. s[1][1] \in InCreate \union Alone /\ s[1][1] \in Alone
  BY <1>3 DEF InCreate, Alone
<1>5. RetLocked(s)
  BY <1>3 DEF RetLocked
<1>6. CASE q = 0
  <2>1. Become(State) /\ Go(p, <<>>, 0)
    BY <1>1, <1>6 DEF Made
  <2>2. itable' = State.it /\ dinode' = State.di /\ bitmap' = State.used /\ panic' = State.panic
    BY <2>1, BecomeIs
  <2>3. Even0(s, q, 0, 0, 0, 0)
    <3>1. ASSUME NEW j \in Inum
          PROVE  /\ Eq(0, j) = Refs(s[1], j) + Eq(q, j) + Eq(0, j)
                 /\ Eq(0, j) + Eq(0, j) = Locks(s[1], j) + RetLock(s, q, j) + Eq(0, j)
      BY <1>3, <1>5, <1>6, WeightsOf, EqZero, RetHeld
    <3> QED
      BY <3>1 DEF Even0
  <2>4. FsCore'
    BY <1>1, <1>2, <1>3, <1>4, <2>1, <2>2, <2>3, <1>3, Sizes, GrantsNone, Out0
  <2> QED
    BY <2>4
<1>7. CASE q # 0
  <2>1. PICK g : g = Iunlock(State, p, q)
    OBVIOUS
  <2>2. Become(g) /\ Go(p, <<<<"put", q>>>>, 0)
    BY <1>1, <1>7, <2>1 DEF Made
  <2>3. itable' = g.it /\ dinode' = g.di /\ bitmap' = g.used /\ panic' = g.panic
    BY <2>2, BecomeIs
  <2>4. q \in Inum /\ itable[q].ref >= 1
    BY <1>3, <1>7
  <2>5. itable[q].lock = p
    BY <1>1, <1>5, <2>4, LockedRet
  <2>6. Grants(p, g, 0, 0, q)
    BY <1>3, <2>1, <2>4, <2>5, GrantsRelease
  <2>7. PICK a : a = <<"put", q>>
    OBVIOUS
  <2>8. a \in FsStep /\ a[1] = "put" /\ a[2] = q
    BY <2>7, <2>4, StepsAre DEF Putting
  <2>9. Go(p, <<a>>, 0)
    BY <2>2, <2>7
  <2>10. Even1(s, q, a, 0, 0, 0, q)
    <3>1. ASSUME NEW j \in Inum
          PROVE  /\ Refs(a, j) + Eq(0, j) = Refs(s[1], j) + Eq(q, j) + Eq(0, j)
                 /\ Locks(a, j) + Eq(0, j) + Eq(q, j) = Locks(s[1], j) + RetLock(s, q, j) + Eq(0, j)
      <4>1. Refs(a, j) = Eq(q, j) /\ Locks(a, j) = 0
        BY <2>8, WeightsOf
      <4>2. Refs(s[1], j) = 0 /\ Locks(s[1], j) = 0
        BY <1>3, WeightsOf
      <4>3. RetLock(s, q, j) = Eq(q, j)
        BY <1>5, RetHeld
      <4>4. Eq(0, j) = 0 /\ Eq(q, j) \in Nat
        BY EqZero, EqNat
      <4> QED
        BY <4>1, <4>2, <4>3, <4>4
    <3> QED
      BY <3>1 DEF Even1
  <2> QED
    BY <1>1, <1>2, <1>3, <1>4, <2>3, <2>6, <2>9, <2>8, <2>10, Sizes, Out1
<1> QED
  BY <1>6, <1>7

LEMMA LinkGoes ==
  ASSUME FsCore, NEW p \in Proc, Link(p)
  PROVE  FsCore' \/ Stuck'
<1>1. PICK s, q : s = todo[p] /\ q = ret[p]
  OBVIOUS
<1>2. At(p, "link") /\ UNCHANGED <<file, cwd>>
  BY DEF Link
<1>3. /\ todo[p] # <<>> /\ s[1] \in FsStep /\ s[1][1] = "link" /\ q \in 0 .. NInodes
      /\ Arg(p, 1) = s[1][2] /\ Arg(p, 2) = s[1][3] /\ Arg(p, 3) = s[1][4] /\ Arg(p, 4) = s[1][5]
      /\ State \in FsState /\ State.it = itable /\ Grants(p, State, 0, 0, 0)
      /\ q # 0 => q \in Inum /\ itable[q].ref >= 1
  BY <1>1, <1>2, StepIs
<1>4. s[1][1] \in InCreate \union Alone /\ s[1][1] \in Alone
  BY <1>3 DEF InCreate, Alone
<1>5. q \in Inum /\ itable[q].ref >= 1 /\ itable[q].lock = None
  BY <1>1, <1>3 DEF Link, Unlocked
<1>6. PICK f : f = Ilock(State, p, q)
  OBVIOUS
<1>7. Grants(p, f, 0, q, 0) /\ f \in FsState
  <2>1. Grants(p, f, 0, q, 0)
    BY <1>5, <1>6, GrantsLock
  <2> QED
    BY <2>1 DEF Grants
<1>8. CASE f.it[q].ino.type = "T_DIR"
  <2>1. PICK g : g = Iunlock(f, p, q)
    OBVIOUS
  <2>2. Become(g) /\ Go(p, <<<<"put", q>>>>, 0)
    BY <1>1, <1>6, <1>8, <2>1 DEF Link
  <2>3. itable' = g.it /\ dinode' = g.di /\ bitmap' = g.used /\ panic' = g.panic
    BY <2>2, BecomeIs
  <2>4. Grants(p, g, 0, 0, 0)
    BY <1>5, <1>7, <2>1, GrantsUnlock
  <2>5. PICK a : a = <<"put", q>>
    OBVIOUS
  <2>6. a \in FsStep /\ a[1] = "put" /\ a[2] = q
    BY <2>5, <1>5, StepsAre DEF Putting
  <2>7. Go(p, <<a>>, 0)
    BY <2>2, <2>5
  <2>8. Even1(s, q, a, 0, 0, 0, 0)
    <3>1. ASSUME NEW j \in Inum
          PROVE  /\ Refs(a, j) + Eq(0, j) = Refs(s[1], j) + Eq(q, j) + Eq(0, j)
                 /\ Locks(a, j) + Eq(0, j) + Eq(0, j) = Locks(s[1], j) + RetLock(s, q, j) + Eq(0, j)
      <4>1. Refs(a, j) = Eq(q, j) /\ Locks(a, j) = 0
        BY <2>6, WeightsOf
      <4>2. Refs(s[1], j) = 0 /\ Locks(s[1], j) = 0
        BY <1>3, WeightsOf
      <4>3. RetLock(s, q, j) = 0
        BY <1>1, <1>3, RetFree
      <4>4. Eq(0, j) = 0 /\ Eq(q, j) \in Nat
        BY EqZero, EqNat
      <4> QED
        BY <4>1, <4>2, <4>3, <4>4
    <3> QED
      BY <3>1 DEF Even1
  <2> QED
    BY <1>1, <1>2, <1>3, <1>4, <2>3, <2>4, <2>7, <2>6, <2>8, Sizes, Out1
<1>9. CASE f.it[q].ino.type # "T_DIR"
  <2>1. PICK new, e, el, w, yes : /\ new = Arg(p, 1) /\ e = Start(p, new) /\ el = new.elems
                                  /\ w = LastElem(new) /\ yes = TRUE
    OBVIOUS
  <2>2. e \in Inum /\ el \in Seq(Word) /\ w \in Word /\ yes \in BOOLEAN
    <3>1. new \in WPath
      BY <1>3, <2>1, StepArgs
    <3> QED
      BY <2>1, <3>1, StartIs
  <2>3. PICK h, u, g : h = AddLinks(f, q, 1) /\ u = Iunlock(h, p, q) /\ g = Iget(u, e)
    OBVIOUS
  <2>4. Become(g) /\ Go(p, <<<<"walk", e, el, yes>>, <<"linkdir", q, w>>>>, 0)
    <3>1. Become(g) /\ Go(p, Append(Namex(p, new, TRUE), <<"linkdir", q, w>>), 0)
      BY <1>1, <1>6, <1>9, <2>1, <2>3 DEF Link
    <3>2. Append(Namex(p, new, TRUE), <<"linkdir", q, w>>) = <<<<"walk", e, el, yes>>, <<"linkdir", q, w>>>>
      <4>1. PICK x, y : x = <<"walk", e, el, yes>> /\ y = <<"linkdir", q, w>>
        OBVIOUS
      <4>2. Namex(p, new, TRUE) = <<x>>
        BY <2>1, <4>1 DEF Namex
      <4>3. Append(<<x>>, y) = <<x, y>>
        BY AppendTwo
      <4> QED
        BY <4>1, <4>2, <4>3
    <3> QED
      BY <3>1, <3>2
  <2>5. itable' = g.it /\ dinode' = g.di /\ bitmap' = g.used /\ panic' = g.panic
    BY <2>4, BecomeIs
  <2>6. panic' = "no" => Grants(p, g, e, 0, 0)
    <3>0. PICK n \in Int : n = 1
      OBVIOUS
    <3>1. Keeps(f, h)
      BY <1>5, <1>7, <2>3, <3>0, AddLinksIs
    <3>2. Grants(p, h, 0, q, 0)
      BY <1>7, <3>1, GrantsKeep
    <3>3. Grants(p, u, 0, 0, 0)
      BY <1>5, <2>3, <3>2, GrantsUnlock
    <3> QED
      BY <2>2, <2>3, <2>5, <3>3, GrantsGet
  <2>7. PICK a : a = <<"walk", e, el, yes>>
    OBVIOUS
  <2>8. PICK b : b = <<"linkdir", q, w>>
    OBVIOUS
  <2>9. a \in FsStep /\ a[1] = "walk" /\ a[2] = e
    BY <2>7, <1>5, <2>2, StepsAre DEF Putting
  <2>10. b \in FsStep /\ b[1] = "linkdir" /\ b[2] = q
    BY <2>8, <1>5, <2>2, StepsAre DEF Putting
  <2>11. Go(p, <<a, b>>, 0)
    BY <2>4, <2>7, <2>8
  <2>12. Even2(s, q, a, b, 0, e, 0, 0)
    <3>1. ASSUME NEW j \in Inum
          PROVE  /\ Refs(a, j) + Refs(b, j) + Eq(0, j) = Refs(s[1], j) + Eq(q, j) + Eq(e, j)
                 /\ Locks(a, j) + Locks(b, j) + Eq(0, j) + Eq(0, j) = Locks(s[1], j) + RetLock(s, q, j) + Eq(0, j)
      <4>1. Refs(a, j) = Eq(e, j) /\ Locks(a, j) = 0
        BY <2>9, WeightsOf
      <4>2. Refs(b, j) = Eq(q, j) /\ Locks(b, j) = 0
        BY <2>10, WeightsOf
      <4>3. Refs(s[1], j) = 0 /\ Locks(s[1], j) = 0
        BY <1>3, WeightsOf
      <4>4. RetLock(s, q, j) = 0
        BY <1>1, <1>3, RetFree
      <4>5. Eq(0, j) = 0 /\ Eq(e, j) \in Nat /\ Eq(q, j) \in Nat
        BY EqZero, EqNat
      <4> QED
        BY <4>1, <4>2, <4>3, <4>4, <4>5
    <3> QED
      BY <3>1 DEF Even2
  <2> QED
    BY <1>1, <1>2, <1>3, <1>4, <2>5, <2>6, <2>11, <2>9, <2>10, <2>12, Sizes, Out2
<1> QED
  BY <1>8, <1>9

LEMMA CreateNoDirGoes ==
  ASSUME FsCore, NEW p \in Proc, CreateNoDir(p)
  PROVE  FsCore' \/ Stuck'
<1>1. PICK s, q : s = todo[p] /\ q = ret[p]
  OBVIOUS
<1>2. At(p, "create") /\ UNCHANGED <<file, cwd>>
  BY DEF CreateNoDir
<1>3. /\ todo[p] # <<>> /\ s[1] \in FsStep /\ s[1][1] = "create" /\ q \in 0 .. NInodes
      /\ Arg(p, 1) = s[1][2] /\ Arg(p, 2) = s[1][3] /\ Arg(p, 3) = s[1][4] /\ Arg(p, 4) = s[1][5]
      /\ State \in FsState /\ State.it = itable /\ Grants(p, State, 0, 0, 0)
      /\ q # 0 => q \in Inum /\ itable[q].ref >= 1
  BY <1>1, <1>2, StepIs
<1>4. s[1][1] \in InCreate \union Alone /\ s[1][1] \in InCreate
  BY <1>3 DEF InCreate, Alone
<1>5. q = 0 /\ Go(p, <<>>, 0)
  BY <1>1 DEF CreateNoDir
<1>6. itable' = State.it /\ dinode' = State.di /\ bitmap' = State.used /\ panic' = State.panic
  BY DEF CreateNoDir, fsvars, State
<1>7. Even0(s, q, 0, 0, 0, 0)
  <2>1. ASSUME NEW j \in Inum
        PROVE  /\ Eq(0, j) = Refs(s[1], j) + Eq(q, j) + Eq(0, j)
               /\ Eq(0, j) + Eq(0, j) = Locks(s[1], j) + RetLock(s, q, j) + Eq(0, j)
    <3>1. RetLock(s, q, j) = 0
      BY <1>1, <1>3, RetFree
    <3> QED
      BY <1>3, <1>5, <3>1, WeightsOf, EqZero
  <2> QED
    BY <2>1 DEF Even0
<1>8. FsCore'
  BY <1>1, <1>2, <1>3, <1>4, <1>5, <1>6, <1>7, Sizes, Out0
<1> QED
  BY <1>8

LEMMA CreateGoes ==
  ASSUME FsCore, NEW p \in Proc, Create(p)
  PROVE  FsCore' \/ Stuck'
<1>1. PICK s, q : s = todo[p] /\ q = ret[p]
  OBVIOUS
<1>2. At(p, "create") /\ UNCHANGED <<file, cwd>>
  BY DEF Create
<1>3. /\ todo[p] # <<>> /\ s[1] \in FsStep /\ s[1][1] = "create" /\ q \in 0 .. NInodes
      /\ Arg(p, 1) = s[1][2] /\ Arg(p, 2) = s[1][3] /\ Arg(p, 3) = s[1][4] /\ Arg(p, 4) = s[1][5]
      /\ State \in FsState /\ State.it = itable /\ Grants(p, State, 0, 0, 0)
      /\ q # 0 => q \in Inum /\ itable[q].ref >= 1
  BY <1>1, <1>2, StepIs
<1>4. s[1][1] \in InCreate \union Alone /\ s[1][1] \in InCreate
  BY <1>3 DEF InCreate, Alone
<1>5. q \in Inum /\ itable[q].ref >= 1 /\ itable[q].lock = None
  BY <1>1, <1>3 DEF Create, Unlocked
<1>6. PICK f0, f, w : f0 = Ilock(State, p, q) /\ f = AsDir(f0, q) /\ w = Arg(p, 1)
  OBVIOUS
<1>7. Grants(p, f, 0, q, 0) /\ f \in FsState
  <2>1. Grants(p, f0, 0, q, 0)
    BY <1>5, <1>6, GrantsLock
  <2>2. f0 \in FsState
    BY <2>1 DEF Grants
  <2>3. Keeps(f0, f)
    BY <1>5, <1>6, <2>2, AsDirKeeps
  <2>4. Grants(p, f, 0, q, 0)
    BY <2>1, <2>3, GrantsKeep
  <2> QED
    BY <2>4 DEF Grants

<1>8. PICK k, ty : k = Dirlookup(f, q, w) /\ ty = Arg(p, 2)
  OBVIOUS
<1>9. w \in Word /\ ty \in Types
  BY <1>3, <1>6, <1>8, StepArgs
<1>10. CASE k # 0
  <2>1. PICK e, h, g : e = Entry(f, q, k) /\ h = Iget(f, e) /\ g = Iunlock(h, p, q)
    OBVIOUS
  <2>2. Become(g) /\ Go(p, <<<<"put", q>>, <<"created", e, ty>>>>, 0)
    BY <1>1, <1>6, <1>8, <1>10, <2>1 DEF Create
  <2>3. itable' = g.it /\ dinode' = g.di /\ bitmap' = g.used /\ panic' = g.panic
    BY <2>2, BecomeIs
  <2>4. e \in Inum
    BY <1>5, <1>7, <1>8, <1>10, <2>1, DirlookupIs
  <2>5. panic' = "no" => Grants(p, g, e, 0, 0)
    <3>1. h \in FsState
      BY <1>7, <2>1, <2>4, GetTyped
    <3>2. ASSUME panic' = "no" PROVE Grants(p, g, e, 0, 0)
      <4>1. g.panic = "no"
        BY <2>3, <3>2
      <4>2. h.panic = "no"
        BY <1>5, <2>1, <3>1, <4>1, IunlockIs
      <4>3. Grants(p, h, e, q, 0)
        BY <1>7, <2>1, <2>4, <4>2, GrantsGet
      <4> QED
        BY <1>5, <2>1, <4>3, GrantsUnlock
    <3> QED
      BY <3>2
  <2>6. PICK a : a = <<"put", q>>
    OBVIOUS
  <2>7. PICK b : b = <<"created", e, ty>>
    OBVIOUS
  <2>8. a \in FsStep /\ a[1] = "put" /\ a[2] = q
    BY <2>6, <1>5, <1>9, <2>4, StepsAre DEF Putting
  <2>9. b \in FsStep /\ b[1] = "created" /\ b[2] = e
    BY <2>7, <1>5, <1>9, <2>4, StepsAre DEF Putting
  <2>10. Go(p, <<a, b>>, 0)
    BY <2>2, <2>6, <2>7
  <2>11. Even2(s, q, a, b, 0, e, 0, 0)
    <3>1. ASSUME NEW j \in Inum
          PROVE  /\ Refs(a, j) + Refs(b, j) + Eq(0, j) = Refs(s[1], j) + Eq(q, j) + Eq(e, j)
                 /\ Locks(a, j) + Locks(b, j) + Eq(0, j) + Eq(0, j) = Locks(s[1], j) + RetLock(s, q, j) + Eq(0, j)
      <4>1. Refs(a, j) = Eq(q, j) /\ Locks(a, j) = 0
        BY <2>8, WeightsOf
      <4>2. Refs(b, j) = Eq(e, j) /\ Locks(b, j) = 0
        BY <2>9, WeightsOf
      <4>3. Refs(s[1], j) = 0 /\ Locks(s[1], j) = 0
        BY <1>3, WeightsOf
      <4>4. RetLock(s, q, j) = 0
        BY <1>1, <1>3, RetFree
      <4>5. Eq(0, j) = 0 /\ Eq(e, j) \in Nat /\ Eq(q, j) \in Nat
        BY EqZero, EqNat
      <4> QED
        BY <4>1, <4>2, <4>3, <4>4, <4>5
    <3> QED
      BY <3>1 DEF Even2
  <2> QED
    BY <1>1, <1>2, <1>3, <1>4, <2>3, <2>5, <2>10, <2>8, <2>9, <2>11, Sizes, Out2
<1>11. CASE k = 0
  <2>1. Become(f) /\ Go(p, <<<<"ialloc", q, w, ty>>>>, 0)
    BY <1>1, <1>6, <1>8, <1>11 DEF Create
  <2>2. itable' = f.it /\ dinode' = f.di /\ bitmap' = f.used /\ panic' = f.panic
    BY <2>1, BecomeIs
  <2>3. PICK a : a = <<"ialloc", q, w, ty>>
    OBVIOUS
  <2>4. a \in FsStep /\ a[1] = "ialloc" /\ a[2] = q
    BY <2>3, <1>5, <1>9, StepsAre DEF Putting
  <2>5. Go(p, <<a>>, 0)
    BY <2>1, <2>3
  <2>6. Even1(s, q, a, 0, 0, q, 0)
    <3>1. ASSUME NEW j \in Inum
          PROVE  /\ Refs(a, j) + Eq(0, j) = Refs(s[1], j) + Eq(q, j) + Eq(0, j)
                 /\ Locks(a, j) + Eq(0, j) + Eq(0, j) = Locks(s[1], j) + RetLock(s, q, j) + Eq(q, j)
      <4>1. Refs(a, j) = Eq(q, j) /\ Locks(a, j) = Eq(q, j)
        BY <2>4, WeightsOf
      <4>2. Refs(s[1], j) = 0 /\ Locks(s[1], j) = 0
        BY <1>3, WeightsOf
      <4>3. RetLock(s, q, j) = 0
        BY <1>1, <1>3, RetFree
      <4>4. Eq(0, j) = 0 /\ Eq(q, j) \in Nat
        BY EqZero, EqNat
      <4> QED
        BY <4>1, <4>2, <4>3, <4>4
    <3> QED
      BY <3>1 DEF Even1
  <2> QED
    BY <1>1, <1>2, <1>3, <1>4, <2>2, <1>7, <2>5, <2>4, <2>6, Sizes, Out1
<1> QED
  BY <1>10, <1>11

LEMMA CreatedGoes ==
  ASSUME FsCore, NEW p \in Proc, Created(p)
  PROVE  FsCore' \/ Stuck'
<1>1. PICK s, q : s = todo[p] /\ q = ret[p]
  OBVIOUS
<1>2. At(p, "created") /\ UNCHANGED <<file, cwd>>
  BY DEF Created
<1>3. /\ todo[p] # <<>> /\ s[1] \in FsStep /\ s[1][1] = "created" /\ q \in 0 .. NInodes
      /\ Arg(p, 1) = s[1][2] /\ Arg(p, 2) = s[1][3] /\ Arg(p, 3) = s[1][4] /\ Arg(p, 4) = s[1][5]
      /\ State \in FsState /\ State.it = itable /\ Grants(p, State, 0, 0, 0)
      /\ q # 0 => q \in Inum /\ itable[q].ref >= 1
  BY <1>1, <1>2, StepIs
<1>4. s[1][1] \in InCreate \union Alone /\ s[1][1] \in InCreate
  BY <1>3 DEF InCreate, Alone
<1>5. PICK i : i = Arg(p, 1) /\ i = s[1][2]
  BY <1>3
<1>6. i \in Inum /\ itable[i].ref >= 1
  <2>1. i \in Inum
    BY <1>3, <1>5, StepArgs DEF Using
  <2>2. s[1][1] \in Using
    BY <1>3 DEF Using
  <2> QED
    BY <1>1, <1>3, <1>5, <2>1, <2>2, HasRef
<1>7. PICK f : f = Ilock(State, p, i)
  OBVIOUS
<1>8. itable[i].lock = None
  BY <1>5 DEF Created, Unlocked
<1>9. Grants(p, f, 0, i, 0)
  BY <1>6, <1>7, <1>8, GrantsLock
<1>10. CASE Arg(p, 2) = "T_FILE" /\ f.it[i].ino.type \in {"T_FILE", "T_DEVICE"}
  <2>1. Become(f) /\ Go(p, <<>>, i)
    BY <1>5, <1>7, <1>10 DEF Created
  <2>2. itable' = f.it /\ dinode' = f.di /\ bitmap' = f.used /\ panic' = f.panic
    BY <2>1, BecomeIs
  <2>0. i \in 0 .. NInodes
    BY <1>6, Sizes DEF Inum
  <2>3. Even0(s, q, i, 0, i, 0)
    <3>1. ASSUME NEW j \in Inum
          PROVE  /\ Eq(i, j) = Refs(s[1], j) + Eq(q, j) + Eq(0, j)
                 /\ Eq(i, j) + Eq(0, j) = Locks(s[1], j) + RetLock(s, q, j) + Eq(i, j)
      <4>1. Refs(s[1], j) = Eq(i, j) /\ Locks(s[1], j) = 0
        BY <1>3, <1>5, WeightsOf
      <4>2. RetLock(s, q, j) = 0 /\ Eq(q, j) = 0
        BY <1>1, <1>3, RetFree
      <4>3. Eq(0, j) = 0 /\ Eq(i, j) \in Nat
        BY EqZero, EqNat
      <4> QED
        BY <4>1, <4>2, <4>3
    <3> QED
      BY <3>1 DEF Even0
  <2> QED
    BY <1>1, <1>2, <1>3, <1>4, <2>2, <2>0, <1>9, <2>1, <2>3, Sizes, Out0
<1>11. CASE ~(Arg(p, 2) = "T_FILE" /\ f.it[i].ino.type \in {"T_FILE", "T_DEVICE"})
  <2>1. PICK g : g = Iunlock(f, p, i)
    OBVIOUS
  <2>2. Become(g) /\ Go(p, <<<<"put", i>>>>, 0)
    BY <1>5, <1>7, <1>11, <2>1 DEF Created
  <2>3. itable' = g.it /\ dinode' = g.di /\ bitmap' = g.used /\ panic' = g.panic
    BY <2>2, BecomeIs
  <2>4. Grants(p, g, 0, 0, 0)
    BY <1>6, <1>9, <2>1, GrantsUnlock
  <2>5. PICK a : a = <<"put", i>>
    OBVIOUS
  <2>6. a \in FsStep /\ a[1] = "put" /\ a[2] = i
    BY <2>5, <1>6, StepsAre DEF Putting
  <2>7. Go(p, <<a>>, 0)
    BY <2>2, <2>5
  <2>8. Even1(s, q, a, 0, 0, 0, 0)
    <3>1. ASSUME NEW j \in Inum
          PROVE  /\ Refs(a, j) + Eq(0, j) = Refs(s[1], j) + Eq(q, j) + Eq(0, j)
                 /\ Locks(a, j) + Eq(0, j) + Eq(0, j) = Locks(s[1], j) + RetLock(s, q, j) + Eq(0, j)
      <4>1. Refs(a, j) = Eq(i, j) /\ Locks(a, j) = 0
        BY <2>6, WeightsOf
      <4>2. Refs(s[1], j) = Eq(i, j) /\ Locks(s[1], j) = 0
        BY <1>3, <1>5, WeightsOf
      <4>3. RetLock(s, q, j) = 0 /\ Eq(q, j) = 0
        BY <1>1, <1>3, RetFree
      <4>4. Eq(0, j) = 0 /\ Eq(i, j) \in Nat
        BY EqZero, EqNat
      <4> QED
        BY <4>1, <4>2, <4>3, <4>4
    <3> QED
      BY <3>1 DEF Even1
  <2> QED
    BY <1>1, <1>2, <1>3, <1>4, <2>3, <2>4, <2>7, <2>6, <2>8, Sizes, Out1
<1> QED
  BY <1>10, <1>11

LEMMA IallocGoes ==
  ASSUME FsCore, NEW p \in Proc, Ialloc(p)
  PROVE  FsCore' \/ Stuck'
<1>1. PICK s, q : s = todo[p] /\ q = ret[p]
  OBVIOUS
<1>2. At(p, "ialloc") /\ UNCHANGED <<file, cwd>>
  BY DEF Ialloc
<1>3. /\ todo[p] # <<>> /\ s[1] \in FsStep /\ s[1][1] = "ialloc" /\ q \in 0 .. NInodes
      /\ Arg(p, 1) = s[1][2] /\ Arg(p, 2) = s[1][3] /\ Arg(p, 3) = s[1][4] /\ Arg(p, 4) = s[1][5]
      /\ State \in FsState /\ State.it = itable /\ Grants(p, State, 0, 0, 0)
      /\ q # 0 => q \in Inum /\ itable[q].ref >= 1
  BY <1>1, <1>2, StepIs
<1>4. s[1][1] \in InCreate \union Alone /\ s[1][1] \in InCreate
  BY <1>3 DEF InCreate, Alone
<1>5. PICK i : i = Arg(p, 1) /\ i = s[1][2]
  BY <1>3
<1>6. i \in Inum /\ itable[i].ref >= 1
  <2>1. i \in Inum
    BY <1>3, <1>5, StepArgs DEF Using
  <2>2. s[1][1] \in Using
    BY <1>3 DEF Using
  <2> QED
    BY <1>1, <1>3, <1>5, <2>1, <2>2, HasRef
<1>7. PICK free, w, ty : free = {j \in Inum : dinode[j].type = "none"} /\ w = Arg(p, 2) /\ ty = Arg(p, 3)
  OBVIOUS
<1>8. w \in Word /\ ty \in Types
  BY <1>3, <1>7, StepArgs
<1>9. CASE free = {}
  <2>1. Become(State) /\ Go(p, <<<<"unlock", i>>, <<"put", i>>>>, 0)
    BY <1>5, <1>7, <1>9 DEF Ialloc
  <2>2. itable' = State.it /\ dinode' = State.di /\ bitmap' = State.used /\ panic' = State.panic
    BY <2>1, BecomeIs
  <2>3. PICK a : a = <<"unlock", i>>
    OBVIOUS
  <2>4. PICK b : b = <<"put", i>>
    OBVIOUS
  <2>5. a \in FsStep /\ a[1] = "unlock" /\ a[2] = i
    BY <2>3, <1>6, StepsAre DEF Putting
  <2>6. b \in FsStep /\ b[1] = "put" /\ b[2] = i
    BY <2>4, <1>6, StepsAre DEF Putting
  <2>7. Go(p, <<a, b>>, 0)
    BY <2>1, <2>3, <2>4
  <2>8. Even2(s, q, a, b, 0, 0, 0, 0)
    <3>1. ASSUME NEW j \in Inum
          PROVE  /\ Refs(a, j) + Refs(b, j) + Eq(0, j) = Refs(s[1], j) + Eq(q, j) + Eq(0, j)
                 /\ Locks(a, j) + Locks(b, j) + Eq(0, j) + Eq(0, j) = Locks(s[1], j) + RetLock(s, q, j) + Eq(0, j)
      <4>1. Refs(a, j) = 0 /\ Locks(a, j) = Eq(i, j)
        BY <2>5, WeightsOf
      <4>2. Refs(b, j) = Eq(i, j) /\ Locks(b, j) = 0
        BY <2>6, WeightsOf
      <4>3. Refs(s[1], j) = Eq(i, j) /\ Locks(s[1], j) = Eq(i, j)
        BY <1>3, <1>5, WeightsOf
      <4>4. RetLock(s, q, j) = 0 /\ Eq(q, j) = 0
        BY <1>1, <1>3, RetFree
      <4>5. Eq(0, j) = 0 /\ Eq(i, j) \in Nat
        BY EqZero, EqNat
      <4> QED
        BY <4>1, <4>2, <4>3, <4>4, <4>5
    <3> QED
      BY <3>1 DEF Even2
  <2> QED
    BY <1>1, <1>2, <1>3, <1>4, <2>2, <1>3, <2>7, <2>5, <2>6, <2>8, Sizes, Out2
<1>10. CASE free # {}
  <2>1. PICK e : e = CHOOSE j \in free : \A k \in free : j <= k
    OBVIOUS
  <2>2. e \in Inum
    <3>1. free \subseteq 1 .. NInodes /\ NInodes \in Nat
      BY <1>7, Sizes DEF Inum
    <3>2. \E j \in free : \A k \in free : j <= k
      BY <1>10, <3>1, FirstOne
    <3>3. e \in free
      BY <2>1, <3>2
    <3> QED
      BY <1>7, <3>3
  <2>3. PICK ino, h, g : /\ ino = [FreeInode EXCEPT !.type = ty]
                         /\ h = [State EXCEPT !.di[e] = ino] /\ g = Iget(h, e)
    OBVIOUS
  <2>4. Become(g) /\ Go(p, <<<<"fill", i, w, ty, e>>>>, 0)
    BY <1>5, <1>7, <1>10, <2>1, <2>3 DEF Ialloc
  <2>5. itable' = g.it /\ dinode' = g.di /\ bitmap' = g.used /\ panic' = g.panic
    BY <2>4, BecomeIs
  <2>6. panic' = "no" => Grants(p, g, e, 0, 0)
    <3>1. ino \in Dinode
      <4>1. /\ <<>> \in Seq(1 .. NBlocks) /\ <<>> \in Seq(Word \X (0 .. NInodes))
            /\ 0 \in 0 .. NBlocks /\ ty \in Types \union {"none"}
        BY <1>8, EmptySeq, Sizes
      <4>2. FreeInode \in Dinode
        BY <4>1 DEF FreeInode, Dinode
      <4>3. PICK z \in Dinode : z = FreeInode
        BY <4>2
      <4>4. ino = [z EXCEPT !.type = ty]
        BY <2>3, <4>3
      <4> QED
        BY <4>1, <4>4 DEF Dinode
    <3>2. h \in FsState /\ h.it = State.it /\ h.panic = State.panic
      BY <1>3, <2>2, <2>3, <3>1 DEF FsState
    <3>3. Keeps(State, h)
      BY <3>2 DEF Keeps
    <3>4. Grants(p, h, 0, 0, 0)
      BY <1>3, <3>3, GrantsKeep
    <3> QED
      BY <2>2, <2>3, <2>5, <3>4, GrantsGet
  <2>7. PICK a : a = <<"fill", i, w, ty, e>>
    OBVIOUS
  <2>8. a \in FsStep /\ a[1] = "fill" /\ a[2] = i /\ a[5] = e
    BY <2>7, <1>6, <1>8, <2>2, StepsAre DEF Putting
  <2>9. Go(p, <<a>>, 0)
    BY <2>4, <2>7
  <2>10. Even1(s, q, a, 0, e, 0, 0)
    <3>1. ASSUME NEW j \in Inum
          PROVE  /\ Refs(a, j) + Eq(0, j) = Refs(s[1], j) + Eq(q, j) + Eq(e, j)
                 /\ Locks(a, j) + Eq(0, j) + Eq(0, j) = Locks(s[1], j) + RetLock(s, q, j) + Eq(0, j)
      <4>1. Refs(a, j) = Eq(i, j) + Eq(e, j) /\ Locks(a, j) = Eq(i, j)
        BY <2>8, WeightsOf
      <4>2. Refs(s[1], j) = Eq(i, j) /\ Locks(s[1], j) = Eq(i, j)
        BY <1>3, <1>5, WeightsOf
      <4>3. RetLock(s, q, j) = 0 /\ Eq(q, j) = 0
        BY <1>1, <1>3, RetFree
      <4>4. Eq(0, j) = 0 /\ Eq(e, j) \in Nat /\ Eq(i, j) \in Nat
        BY EqZero, EqNat
      <4> QED
        BY <4>1, <4>2, <4>3, <4>4
    <3> QED
      BY <3>1 DEF Even1
  <2>11. s[1][1] \in InCreate /\ a[1] \in {"ialloc", "fill"}
    BY <1>4, <2>8
  <2>12. todo[p] # <<>> /\ 0 \in 0 .. NInodes
    BY <1>3, Sizes
  <2> QED
    BY <1>1, <1>2, <1>4, <2>5, <2>6, <2>9, <2>11, <2>8, <2>10, <2>12, Out1
<1> QED
  BY <1>9, <1>10

LEMMA FillGoes ==
  ASSUME FsCore, NEW p \in Proc, Fill(p)
  PROVE  FsCore' \/ Stuck'
<1>1. PICK s, q : s = todo[p] /\ q = ret[p]
  OBVIOUS
<1>2. At(p, "fill") /\ UNCHANGED <<file, cwd>>
  BY DEF Fill
<1>3. /\ todo[p] # <<>> /\ s[1] \in FsStep /\ s[1][1] = "fill" /\ q \in 0 .. NInodes
      /\ Arg(p, 1) = s[1][2] /\ Arg(p, 2) = s[1][3] /\ Arg(p, 3) = s[1][4] /\ Arg(p, 4) = s[1][5]
      /\ State \in FsState /\ State.it = itable /\ Grants(p, State, 0, 0, 0)
      /\ q # 0 => q \in Inum /\ itable[q].ref >= 1
  BY <1>1, <1>2, StepIs
<1>4. s[1][1] \in InCreate \union Alone /\ s[1][1] \in InCreate
  BY <1>3 DEF InCreate, Alone
<1>5. PICK i : i = Arg(p, 1) /\ i = s[1][2]
  BY <1>3
<1>6. i \in Inum /\ itable[i].ref >= 1
  <2>1. i \in Inum
    BY <1>3, <1>5, StepArgs DEF Using
  <2>2. s[1][1] \in Using
    BY <1>3 DEF Using
  <2> QED
    BY <1>1, <1>3, <1>5, <2>1, <2>2, HasRef
<1>7. PICK w, e, dir : w = Arg(p, 2) /\ e = Arg(p, 4) /\ e = s[1][5] /\ dir = (Arg(p, 3) = "T_DIR")
  BY <1>3
<1>8. w \in Word /\ e \in Inum /\ itable[e].ref >= 1 /\ itable[i].lock = p /\ itable[e].lock = None
  <2>1. w \in Word /\ e \in Inum
    BY <1>3, <1>7, StepArgs
  <2>2. itable[e].ref >= 1
    BY <1>1, <1>3, <1>7, <2>1, HasRef
  <2>3. itable[i].lock = p
    <3>1. s[1][1] \in Locking
      BY <1>3 DEF Locking
    <3>2. Len(s) \in 1 .. 4
      BY <1>1, <1>3, <1>4, EndsAt
    <3> QED
      BY <1>1, <1>5, <1>6, <3>1, <3>2, LockedFirst
  <2>4. itable[e].lock = None
    BY <1>7 DEF Fill, Unlocked
  <2> QED
    BY <2>1, <2>2, <2>3, <2>4
<1>9. PICK f, f1, r1, r2, f2, bad :
        /\ f = Ilock(State, p, e)
        /\ f1 = Update(f, e, [f.it[e].ino EXCEPT !.nlink = 1])
        /\ r1 = IF dir THEN Dots(f1, i, e) ELSE <<TRUE, f1>>
        /\ r2 = IF r1[1] THEN Dirlink(r1[2], i, w, e) ELSE r1
        /\ f2 = IF dir THEN AddLinks(r2[2], i, 1) ELSE r2[2]
        /\ bad = Update(r2[2], e, [r2[2].it[e].ino EXCEPT !.nlink = 0])
  OBVIOUS
<1>10. /\ r2[1] => Become(Iunlock(f2, p, i)) /\ Go(p, <<<<"put", i>>>>, e)
       /\ ~r2[1] => Become(Iunlock(bad, p, e)) /\ Go(p, <<<<"put", e>>, <<"unlock", i>>, <<"put", i>>>>, 0)
  BY <1>5, <1>7, <1>9 DEF Fill
<1>11. Grants(p, f2, 0, e, 0) /\ Grants(p, bad, 0, e, 0)
  <2>1. PICK n1, n0 \in Int : n1 = 1 /\ n0 = 0
    OBVIOUS
  <2>2. Grants(p, f, 0, e, 0) /\ f \in FsState
    <3>1. Grants(p, f, 0, e, 0)
      BY <1>8, <1>9, GrantsLock
    <3> QED
      BY <3>1 DEF Grants
  <2>3. Keeps(f, f1)
    <3>1. PICK ino : ino = [f.it[e].ino EXCEPT !.nlink = n1]
      OBVIOUS
    <3>2. ino \in Dinode
      <4>1. f.it[e].ino \in Dinode
        BY <1>8, <2>2, StateIs
      <4> QED
        BY <3>1, <4>1, DinodeIs
    <3>3. f1 = Update(f, e, ino)
      BY <1>9, <2>1, <3>1
    <3> QED
      BY <1>8, <2>2, <3>2, <3>3, UpdateKeeps
  <2>4. Grants(p, f1, 0, e, 0) /\ f1 \in FsState
    <3>1. Grants(p, f1, 0, e, 0)
      BY <2>2, <2>3, GrantsKeep
    <3> QED
      BY <3>1 DEF Grants
  <2>5. Keeps(f1, r1[2])
    <3>1. CASE dir
      BY <1>6, <1>8, <1>9, <2>4, <3>1, DotsIs
    <3>2. CASE ~dir
      <4>1. r1[2] = f1
        BY <1>9, <3>2
      <4> QED
        BY <2>4, <4>1, KeepsSelf
    <3> QED
      BY <3>1, <3>2
  <2>6. Grants(p, r1[2], 0, e, 0) /\ r1[2] \in FsState
    <3>1. Grants(p, r1[2], 0, e, 0)
      BY <2>4, <2>5, GrantsKeep
    <3> QED
      BY <3>1 DEF Grants
  <2>7. Keeps(r1[2], r2[2])
    <3>1. CASE r1[1]
      BY ZenonT(60), <1>6, <1>8, <1>9, <2>6, <3>1, DirlinkIs
    <3>2. CASE ~r1[1]
      <4>1. r2 = r1
        BY <1>9, <3>2
      <4> QED
        BY <2>6, <4>1, KeepsSelf
    <3> QED
      BY <3>1, <3>2
  <2>8. Grants(p, r2[2], 0, e, 0) /\ r2[2] \in FsState
    <3>1. Grants(p, r2[2], 0, e, 0)
      BY <2>6, <2>7, GrantsKeep
    <3> QED
      BY <3>1 DEF Grants
  <2>9. Keeps(r2[2], f2)
    <3>1. CASE dir
      <4>1. f2 = AddLinks(r2[2], i, n1)
        BY <1>9, <2>1, <3>1
      <4> QED
        BY <1>6, <2>8, <4>1, AddLinksIs
    <3>2. CASE ~dir
      <4>1. f2 = r2[2]
        BY <1>9, <3>2
      <4> QED
        BY <2>8, <4>1, KeepsSelf
    <3> QED
      BY <3>1, <3>2
  <2>10. Keeps(r2[2], bad)
    <3>1. PICK ino : ino = [r2[2].it[e].ino EXCEPT !.nlink = n0]
      OBVIOUS
    <3>2. ino \in Dinode
      <4>1. r2[2].it[e].ino \in Dinode
        BY <1>8, <2>8, StateIs
      <4> QED
        BY <3>1, <4>1, DinodeIs
    <3>3. bad = Update(r2[2], e, ino)
      BY <1>9, <2>1, <3>1
    <3> QED
      BY <1>8, <2>8, <3>2, <3>3, UpdateKeeps
  <2> QED
    BY <2>8, <2>9, <2>10, GrantsKeep
<1>12. CASE r2[1]
  <2>1. PICK g : g = Iunlock(f2, p, i)
    OBVIOUS
  <2>2. Become(g) /\ Go(p, <<<<"put", i>>>>, e)
    BY <1>10, <1>12, <2>1
  <2>3. itable' = g.it /\ dinode' = g.di /\ bitmap' = g.used /\ panic' = g.panic
    BY <2>2, BecomeIs
  <2>4. Grants(p, g, 0, e, i)
    BY <1>6, <1>8, <1>11, <2>1, GrantsRelease
  <2>0. e \in 0 .. NInodes
    BY <1>8, Sizes DEF Inum
  <2>5. PICK a : a = <<"put", i>>
    OBVIOUS
  <2>6. a \in FsStep /\ a[1] = "put" /\ a[2] = i
    BY <2>5, <1>6, <1>8, StepsAre DEF Putting
  <2>7. Go(p, <<a>>, e)
    BY <2>2, <2>5
  <2>8. Even1(s, q, a, e, 0, e, i)
    <3>1. ASSUME NEW j \in Inum
          PROVE  /\ Refs(a, j) + Eq(e, j) = Refs(s[1], j) + Eq(q, j) + Eq(0, j)
                 /\ Locks(a, j) + Eq(e, j) + Eq(i, j) = Locks(s[1], j) + RetLock(s, q, j) + Eq(e, j)
      <4>1. Refs(a, j) = Eq(i, j) /\ Locks(a, j) = 0
        BY <2>6, WeightsOf
      <4>2. Refs(s[1], j) = Eq(i, j) + Eq(e, j) /\ Locks(s[1], j) = Eq(i, j)
        BY <1>3, <1>5, <1>7, WeightsOf
      <4>3. RetLock(s, q, j) = 0 /\ Eq(q, j) = 0
        BY <1>1, <1>3, RetFree
      <4>4. Eq(0, j) = 0 /\ Eq(e, j) \in Nat /\ Eq(i, j) \in Nat
        BY EqZero, EqNat
      <4> QED
        BY <4>1, <4>2, <4>3, <4>4
    <3> QED
      BY <3>1 DEF Even1
  <2> QED
    BY <1>1, <1>2, <1>3, <1>4, <2>3, <2>0, <2>4, <2>7, <2>6, <2>8, Sizes, Out1
<1>13. CASE ~r2[1]
  <2>1. PICK g : g = Iunlock(bad, p, e)
    OBVIOUS
  <2>2. Become(g) /\ Go(p, <<<<"put", e>>, <<"unlock", i>>, <<"put", i>>>>, 0)
    BY <1>10, <1>13, <2>1
  <2>3. itable' = g.it /\ dinode' = g.di /\ bitmap' = g.used /\ panic' = g.panic
    BY <2>2, BecomeIs
  <2>4. Grants(p, g, 0, 0, 0)
    BY <1>8, <1>11, <2>1, GrantsUnlock
  <2>5. PICK a : a = <<"put", e>>
    OBVIOUS
  <2>6. PICK b : b = <<"unlock", i>>
    OBVIOUS
  <2>7. PICK c : c = <<"put", i>>
    OBVIOUS
  <2>8. a \in FsStep /\ a[1] = "put" /\ a[2] = e
    BY <2>5, <1>6, <1>8, StepsAre DEF Putting
  <2>9. b \in FsStep /\ b[1] = "unlock" /\ b[2] = i
    BY <2>6, <1>6, <1>8, StepsAre DEF Putting
  <2>10. c \in FsStep /\ c[1] = "put" /\ c[2] = i
    BY <2>7, <1>6, <1>8, StepsAre DEF Putting
  <2>11. Go(p, <<a, b, c>>, 0)
    BY <2>2, <2>5, <2>6, <2>7
  <2>12. Even3(s, q, a, b, c, 0, 0, 0, 0)
    <3>1. ASSUME NEW j \in Inum
          PROVE  /\ Refs(a, j) + Refs(b, j) + Refs(c, j) + Eq(0, j) = Refs(s[1], j) + Eq(q, j) + Eq(0, j)
                 /\ Locks(a, j) + Locks(b, j) + Locks(c, j) + Eq(0, j) + Eq(0, j) = Locks(s[1], j) + RetLock(s, q, j) + Eq(0, j)
      <4>1. Refs(a, j) = Eq(e, j) /\ Locks(a, j) = 0
        BY <2>8, WeightsOf
      <4>2. Refs(b, j) = 0 /\ Locks(b, j) = Eq(i, j)
        BY <2>9, WeightsOf
      <4>3. Refs(c, j) = Eq(i, j) /\ Locks(c, j) = 0
        BY <2>10, WeightsOf
      <4>4. Refs(s[1], j) = Eq(i, j) + Eq(e, j) /\ Locks(s[1], j) = Eq(i, j)
        BY <1>3, <1>5, <1>7, WeightsOf
      <4>5. RetLock(s, q, j) = 0 /\ Eq(q, j) = 0
        BY <1>1, <1>3, RetFree
      <4>6. Eq(0, j) = 0 /\ Eq(e, j) \in Nat /\ Eq(i, j) \in Nat
        BY EqZero, EqNat
      <4> QED
        BY <4>1, <4>2, <4>3, <4>4, <4>5, <4>6
    <3> QED
      BY <3>1 DEF Even3
  <2> QED
    BY <1>1, <1>2, <1>3, <1>4, <2>3, <2>4, <2>11, <2>8, <2>9, <2>10, <2>12, Sizes, Out3
<1> QED
  BY <1>12, <1>13

LEMMA LinkDirGoes ==
  ASSUME FsCore, NEW p \in Proc, LinkDir(p)
  PROVE  FsCore' \/ Stuck'
<1>1. PICK s, q : s = todo[p] /\ q = ret[p]
  OBVIOUS
<1>2. At(p, "linkdir") /\ UNCHANGED <<file, cwd>>
  BY DEF LinkDir
<1>3. /\ todo[p] # <<>> /\ s[1] \in FsStep /\ s[1][1] = "linkdir" /\ q \in 0 .. NInodes
      /\ Arg(p, 1) = s[1][2] /\ Arg(p, 2) = s[1][3] /\ Arg(p, 3) = s[1][4] /\ Arg(p, 4) = s[1][5]
      /\ State \in FsState /\ State.it = itable /\ Grants(p, State, 0, 0, 0)
      /\ q # 0 => q \in Inum /\ itable[q].ref >= 1
  BY <1>1, <1>2, StepIs
<1>4. s[1][1] \in InCreate \union Alone /\ s[1][1] \in Alone
  BY <1>3 DEF InCreate, Alone
<1>5. PICK i : i = Arg(p, 1) /\ i = s[1][2]
  BY <1>3
<1>6. i \in Inum /\ itable[i].ref >= 1
  <2>1. i \in Inum
    BY <1>3, <1>5, StepArgs DEF Using
  <2>2. s[1][1] \in Using
    BY <1>3 DEF Using
  <2> QED
    BY <1>1, <1>3, <1>5, <2>1, <2>2, HasRef
<1>7. CASE q = 0 /\ Become(State) /\ Go(p, <<<<"linkbad", i>>>>, 0)
  <2>1. q = 0
    BY <1>7
  <2>2. itable' = State.it /\ dinode' = State.di /\ bitmap' = State.used /\ panic' = State.panic
    BY <1>7, BecomeIs
  <2>3. PICK a : a = <<"linkbad", i>>
    OBVIOUS
  <2>4. a \in FsStep /\ a[1] = "linkbad" /\ a[2] = i
    BY <2>3, <1>6, StepsAre DEF Putting
  <2>5. Go(p, <<a>>, 0)
    BY <1>7, <2>3
  <2>6. Even1(s, q, a, 0, 0, 0, 0)
    <3>1. ASSUME NEW j \in Inum
          PROVE  /\ Refs(a, j) + Eq(0, j) = Refs(s[1], j) + Eq(q, j) + Eq(0, j)
                 /\ Locks(a, j) + Eq(0, j) + Eq(0, j) = Locks(s[1], j) + RetLock(s, q, j) + Eq(0, j)
      <4>1. Refs(a, j) = Eq(i, j) /\ Locks(a, j) = 0
        BY <2>4, WeightsOf
      <4>2. Refs(s[1], j) = Eq(i, j) /\ Locks(s[1], j) = 0
        BY <1>3, <1>5, WeightsOf
      <4>3. RetLock(s, q, j) = 0 /\ Eq(q, j) = 0
        BY <1>1, <1>3, <2>1, RetFree, EqZero
      <4>4. Eq(0, j) = 0 /\ Eq(i, j) \in Nat
        BY EqZero, EqNat
      <4> QED
        BY <4>1, <4>2, <4>3, <4>4
    <3> QED
      BY <3>1 DEF Even1
  <2> QED
    BY <1>1, <1>2, <1>3, <1>4, <2>2, <1>3, <2>5, <2>4, <2>6, Sizes, Out1
<1>8. CASE q # 0
  <2>1. PICK f0, f, w, r, g : /\ f0 = Ilock(State, p, q) /\ f = AsDir(f0, q) /\ w = Arg(p, 2)
                              /\ r = Dirlink(f, q, w, i) /\ g = Iunlock(r[2], p, q)
    OBVIOUS
  <2>2. itable[q].lock = None /\ Become(g)
    BY <1>1, <1>5, <1>8, <2>1 DEF LinkDir, Unlocked
  <2>3. itable' = g.it /\ dinode' = g.di /\ bitmap' = g.used /\ panic' = g.panic
    BY <2>2, BecomeIs
  <2>4. q \in Inum /\ itable[q].ref >= 1 /\ w \in Word
    BY <1>3, <1>8, <2>1, StepArgs
  <2>5. Grants(p, g, 0, 0, 0)
    <3>1. Grants(p, f0, 0, q, 0)
      BY <2>1, <2>2, <2>4, GrantsLock
    <3>2. f0 \in FsState
      BY <3>1 DEF Grants
    <3>3. Keeps(f0, f)
      BY <2>1, <2>4, <3>2, AsDirKeeps
    <3>4. Grants(p, f, 0, q, 0)
      BY <3>1, <3>3, GrantsKeep
    <3>5. f \in FsState
      BY <3>4 DEF Grants
    <3>6. Keeps(f, r[2])
      BY <1>6, <2>1, <2>4, <3>5, DirlinkIs
    <3>7. Grants(p, r[2], 0, q, 0)
      BY <3>4, <3>6, GrantsKeep
    <3> QED
      BY <2>1, <2>4, <3>7, GrantsUnlock
  <2>6. CASE r[1]
    <3>1. Go(p, <<<<"put", q>>, <<"put", i>>>>, 0)
      BY <1>1, <1>5, <1>8, <2>1, <2>6 DEF LinkDir
    <3>2. PICK a : a = <<"put", q>>
      OBVIOUS
    <3>3. PICK b : b = <<"put", i>>
      OBVIOUS
    <3>4. a \in FsStep /\ a[1] = "put" /\ a[2] = q
      BY <3>2, <1>6, <2>4, StepsAre DEF Putting
    <3>5. b \in FsStep /\ b[1] = "put" /\ b[2] = i
      BY <3>3, <1>6, <2>4, StepsAre DEF Putting
    <3>6. Go(p, <<a, b>>, 0)
      BY <3>1, <3>2, <3>3
    <3>7. Even2(s, q, a, b, 0, 0, 0, 0)
      <4>1. ASSUME NEW j \in Inum
            PROVE  /\ Refs(a, j) + Refs(b, j) + Eq(0, j) = Refs(s[1], j) + Eq(q, j) + Eq(0, j)
                   /\ Locks(a, j) + Locks(b, j) + Eq(0, j) + Eq(0, j) = Locks(s[1], j) + RetLock(s, q, j) + Eq(0, j)
        <5>1. Refs(a, j) = Eq(q, j) /\ Locks(a, j) = 0
          BY <3>4, WeightsOf
        <5>2. Refs(b, j) = Eq(i, j) /\ Locks(b, j) = 0
          BY <3>5, WeightsOf
        <5>3. Refs(s[1], j) = Eq(i, j) /\ Locks(s[1], j) = 0
          BY <1>3, <1>5, WeightsOf
        <5>4. RetLock(s, q, j) = 0
          BY <1>1, <1>3, RetFree
        <5>5. Eq(0, j) = 0 /\ Eq(i, j) \in Nat /\ Eq(q, j) \in Nat
          BY EqZero, EqNat
        <5> QED
          BY <5>1, <5>2, <5>3, <5>4, <5>5
      <4> QED
        BY <4>1 DEF Even2
    <3> QED
      BY <1>1, <1>2, <1>3, <1>4, <2>3, <2>5, <3>6, <3>4, <3>5, <3>7, Sizes, Out2
  <2>7. CASE ~r[1]
    <3>1. Go(p, <<<<"put", q>>, <<"linkbad", i>>>>, 0)
      BY <1>1, <1>5, <1>8, <2>1, <2>7 DEF LinkDir
    <3>2. PICK a : a = <<"put", q>>
      OBVIOUS
    <3>3. PICK b : b = <<"linkbad", i>>
      OBVIOUS
    <3>4. a \in FsStep /\ a[1] = "put" /\ a[2] = q
      BY <3>2, <1>6, <2>4, StepsAre DEF Putting
    <3>5. b \in FsStep /\ b[1] = "linkbad" /\ b[2] = i
      BY <3>3, <1>6, <2>4, StepsAre DEF Putting
    <3>6. Go(p, <<a, b>>, 0)
      BY <3>1, <3>2, <3>3
    <3>7. Even2(s, q, a, b, 0, 0, 0, 0)
      <4>1. ASSUME NEW j \in Inum
            PROVE  /\ Refs(a, j) + Refs(b, j) + Eq(0, j) = Refs(s[1], j) + Eq(q, j) + Eq(0, j)
                   /\ Locks(a, j) + Locks(b, j) + Eq(0, j) + Eq(0, j) = Locks(s[1], j) + RetLock(s, q, j) + Eq(0, j)
        <5>1. Refs(a, j) = Eq(q, j) /\ Locks(a, j) = 0
          BY <3>4, WeightsOf
        <5>2. Refs(b, j) = Eq(i, j) /\ Locks(b, j) = 0
          BY <3>5, WeightsOf
        <5>3. Refs(s[1], j) = Eq(i, j) /\ Locks(s[1], j) = 0
          BY <1>3, <1>5, WeightsOf
        <5>4. RetLock(s, q, j) = 0
          BY <1>1, <1>3, RetFree
        <5>5. Eq(0, j) = 0 /\ Eq(i, j) \in Nat /\ Eq(q, j) \in Nat
          BY EqZero, EqNat
        <5> QED
          BY <5>1, <5>2, <5>3, <5>4, <5>5
      <4> QED
        BY <4>1 DEF Even2
    <3> QED
      BY <1>1, <1>2, <1>3, <1>4, <2>3, <2>5, <3>6, <3>4, <3>5, <3>7, Sizes, Out2
  <2> QED
    BY <2>6, <2>7
<1> QED
  <2>1. (q = 0 /\ Become(State) /\ Go(p, <<<<"linkbad", i>>>>, 0)) \/ q # 0
    BY <1>1, <1>5 DEF LinkDir
  <2> QED
    BY <1>7, <1>8, <2>1

LEMMA UnlinkGoes ==
  ASSUME FsCore, NEW p \in Proc, Unlink(p)
  PROVE  FsCore' \/ Stuck'
<1>1. PICK s, q : s = todo[p] /\ q = ret[p]
  OBVIOUS
<1>2. At(p, "unlink") /\ UNCHANGED <<file, cwd>>
  BY DEF Unlink
<1>3. /\ todo[p] # <<>> /\ s[1] \in FsStep /\ s[1][1] = "unlink" /\ q \in 0 .. NInodes
      /\ Arg(p, 1) = s[1][2] /\ Arg(p, 2) = s[1][3] /\ Arg(p, 3) = s[1][4] /\ Arg(p, 4) = s[1][5]
      /\ State \in FsState /\ State.it = itable /\ Grants(p, State, 0, 0, 0)
      /\ q # 0 => q \in Inum /\ itable[q].ref >= 1
  BY <1>1, <1>2, StepIs
<1>4. s[1][1] \in InCreate \union Alone /\ s[1][1] \in Alone
  BY <1>3 DEF InCreate, Alone
<1>5. q \in Inum /\ itable[q].ref >= 1 /\ itable[q].lock = None
  BY <1>1, <1>3 DEF Unlink, Unlocked
<1>6. PICK f0, f, w : f0 = Ilock(State, p, q) /\ f = AsDir(f0, q) /\ w = Arg(p, 1)
  OBVIOUS
<1>7. Grants(p, f, 0, q, 0) /\ f \in FsState
  <2>1. Grants(p, f0, 0, q, 0)
    BY <1>5, <1>6, GrantsLock
  <2>2. f0 \in FsState
    BY <2>1 DEF Grants
  <2>3. Keeps(f0, f)
    BY <1>5, <1>6, <2>2, AsDirKeeps
  <2>4. Grants(p, f, 0, q, 0)
    BY <2>1, <2>3, GrantsKeep
  <2> QED
    BY <2>4 DEF Grants

<1>8. PICK k : k = Dirlookup(f, q, w)
  OBVIOUS
<1>9. CASE w \in {".", ".."} \/ k = 0
  <2>1. PICK g : g = Iunlock(f, p, q)
    OBVIOUS
  <2>2. Become(g) /\ Go(p, <<<<"put", q>>>>, 0)
    BY <1>1, <1>6, <1>8, <1>9, <2>1 DEF Unlink
  <2>3. itable' = g.it /\ dinode' = g.di /\ bitmap' = g.used /\ panic' = g.panic
    BY <2>2, BecomeIs
  <2>4. Grants(p, g, 0, 0, 0)
    BY <1>5, <1>7, <2>1, GrantsUnlock
  <2>5. PICK a : a = <<"put", q>>
    OBVIOUS
  <2>6. a \in FsStep /\ a[1] = "put" /\ a[2] = q
    BY <2>5, <1>5, StepsAre DEF Putting
  <2>7. Go(p, <<a>>, 0)
    BY <2>2, <2>5
  <2>8. Even1(s, q, a, 0, 0, 0, 0)
    <3>1. ASSUME NEW j \in Inum
          PROVE  /\ Refs(a, j) + Eq(0, j) = Refs(s[1], j) + Eq(q, j) + Eq(0, j)
                 /\ Locks(a, j) + Eq(0, j) + Eq(0, j) = Locks(s[1], j) + RetLock(s, q, j) + Eq(0, j)
      <4>1. Refs(a, j) = Eq(q, j) /\ Locks(a, j) = 0
        BY <2>6, WeightsOf
      <4>2. Refs(s[1], j) = 0 /\ Locks(s[1], j) = 0
        BY <1>3, WeightsOf
      <4>3. RetLock(s, q, j) = 0
        BY <1>1, <1>3, RetFree
      <4>4. Eq(0, j) = 0 /\ Eq(q, j) \in Nat
        BY EqZero, EqNat
      <4> QED
        BY <4>1, <4>2, <4>3, <4>4
    <3> QED
      BY <3>1 DEF Even1
  <2> QED
    BY <1>1, <1>2, <1>3, <1>4, <2>3, <2>4, <2>7, <2>6, <2>8, Sizes, Out1
<1>10. CASE ~(w \in {".", ".."} \/ k = 0)
  <2>1. PICK e, g : e = Entry(f, q, k) /\ g = Iget(f, e)
    OBVIOUS
  <2>2. Become(g) /\ Go(p, <<<<"unlinkfile", q, e, k>>>>, 0)
    BY <1>1, <1>6, <1>8, <1>10, <2>1 DEF Unlink
  <2>3. itable' = g.it /\ dinode' = g.di /\ bitmap' = g.used /\ panic' = g.panic
    BY <2>2, BecomeIs
  <2>4. e \in Inum /\ k \in Nat \ {0}
    <3>1. k # 0
      BY <1>10
    <3>2. k \in 0 .. Len(f.it[q].ino.data) /\ Entry(f, q, k) \in Inum
      BY <1>5, <1>7, <1>8, <3>1, DirlookupIs
    <3> QED
      BY <2>1, <3>1, <3>2
  <2>5. panic' = "no" => Grants(p, g, e, q, 0)
    BY <1>7, <2>1, <2>3, <2>4, GrantsGet
  <2>6. PICK a : a = <<"unlinkfile", q, e, k>>
    OBVIOUS
  <2>7. a \in FsStep /\ a[1] = "unlinkfile" /\ a[2] = q /\ a[3] = e
    BY <2>6, <1>5, <2>4, StepsAre DEF Putting
  <2>8. Go(p, <<a>>, 0)
    BY <2>2, <2>6
  <2>9. Even1(s, q, a, 0, e, q, 0)
    <3>1. ASSUME NEW j \in Inum
          PROVE  /\ Refs(a, j) + Eq(0, j) = Refs(s[1], j) + Eq(q, j) + Eq(e, j)
                 /\ Locks(a, j) + Eq(0, j) + Eq(0, j) = Locks(s[1], j) + RetLock(s, q, j) + Eq(q, j)
      <4>1. Refs(a, j) = Eq(q, j) + Eq(e, j) /\ Locks(a, j) = Eq(q, j)
        BY <2>7, WeightsOf
      <4>2. Refs(s[1], j) = 0 /\ Locks(s[1], j) = 0
        BY <1>3, WeightsOf
      <4>3. RetLock(s, q, j) = 0
        BY <1>1, <1>3, RetFree
      <4>4. Eq(0, j) = 0 /\ Eq(e, j) \in Nat /\ Eq(q, j) \in Nat
        BY EqZero, EqNat
      <4> QED
        BY <4>1, <4>2, <4>3, <4>4
    <3> QED
      BY <3>1 DEF Even1
  <2>10. s[1][1] \in Alone /\ a[1] \in {"linkbad", "unlinkfile"}
    BY <1>4, <2>7
  <2>11. todo[p] # <<>> /\ 0 \in 0 .. NInodes
    BY <1>3, Sizes
  <2> QED
    BY <1>1, <1>2, <1>4, <2>3, <2>5, <2>8, <2>10, <2>7, <2>9, <2>11, Out1
<1> QED
  BY <1>9, <1>10

LEMMA UnlinkFileGoes ==
  ASSUME FsCore, NEW p \in Proc, UnlinkFile(p)
  PROVE  FsCore' \/ Stuck'
<1>1. PICK s, q : s = todo[p] /\ q = ret[p]
  OBVIOUS
<1>2. At(p, "unlinkfile") /\ UNCHANGED <<file, cwd>>
  BY DEF UnlinkFile
<1>3. /\ todo[p] # <<>> /\ s[1] \in FsStep /\ s[1][1] = "unlinkfile" /\ q \in 0 .. NInodes
      /\ Arg(p, 1) = s[1][2] /\ Arg(p, 2) = s[1][3] /\ Arg(p, 3) = s[1][4] /\ Arg(p, 4) = s[1][5]
      /\ State \in FsState /\ State.it = itable /\ Grants(p, State, 0, 0, 0)
      /\ q # 0 => q \in Inum /\ itable[q].ref >= 1
  BY <1>1, <1>2, StepIs
<1>4. s[1][1] \in InCreate \union Alone /\ s[1][1] \in Alone
  BY <1>3 DEF InCreate, Alone
<1>5. PICK i : i = Arg(p, 1) /\ i = s[1][2]
  BY <1>3
<1>6. i \in Inum /\ itable[i].ref >= 1
  <2>1. i \in Inum
    BY <1>3, <1>5, StepArgs DEF Using
  <2>2. s[1][1] \in Using
    BY <1>3 DEF Using
  <2> QED
    BY <1>1, <1>3, <1>5, <2>1, <2>2, HasRef
<1>7. PICK e, k : e = Arg(p, 2) /\ e = s[1][3] /\ k = Arg(p, 3) /\ k = s[1][4]
  BY <1>3
<1>8. k \in Nat \ {0} /\ e \in Inum /\ itable[e].ref >= 1 /\ itable[i].lock = p /\ itable[e].lock = None
  <2>1. k \in Nat \ {0} /\ e \in Inum
    BY <1>3, <1>7, StepArgs
  <2>2. itable[e].ref >= 1
    BY <1>1, <1>3, <1>7, <2>1, HasRef
  <2>3. itable[i].lock = p
    <3>1. s[1][1] \in Locking
      BY <1>3 DEF Locking
    <3>2. Len(s) \in 1 .. 4
      BY <1>1, <1>3, <1>4, EndsAt
    <3> QED
      BY <1>1, <1>5, <1>6, <3>1, <3>2, LockedFirst
  <2>4. itable[e].lock = None
    BY <1>7 DEF UnlinkFile, Unlocked
  <2> QED
    BY <2>1, <2>2, <2>3, <2>4
<1>9. PICK f, ino, r, h : /\ f = Ilock(State, p, e) /\ ino = f.it[e].ino
                          /\ r = Writei(f, i, k - 1, FreeEntry, TRUE)
                          /\ h = IF ino.type = "T_DIR" THEN AddLinks(r[2], i, -1) ELSE r[2]
  OBVIOUS
<1>10. Grants(p, f, 0, e, 0) /\ f \in FsState
  <2>1. Grants(p, f, 0, e, 0)
    BY <1>8, <1>9, GrantsLock
  <2> QED
    BY <2>1 DEF Grants
<1>11. \/ Become(Panic(f, "unlink: nlink < 1")) /\ UNCHANGED <<todo, ret>>
       \/ Become(Panic(f, "unlink: writei")) /\ UNCHANGED <<todo, ret>>
       \/ Become(Iunlock(f, p, e)) /\ Go(p, <<<<"put", e>>, <<"unlock", i>>, <<"put", i>>>>, 0)
       \/ Become(Iunlock(h, p, i)) /\ Go(p, <<<<"put", i>>, <<"unlinked", e>>>>, 0)
  BY <1>5, <1>7, <1>9 DEF UnlinkFile
<1>12. CASE \/ Become(Panic(f, "unlink: nlink < 1")) /\ UNCHANGED <<todo, ret>>
            \/ Become(Panic(f, "unlink: writei")) /\ UNCHANGED <<todo, ret>>
  <2>0. PICK m \in Message : m # "no" /\ Become(Panic(f, m)) /\ UNCHANGED <<todo, ret>>
    BY <1>12, Messages
  <2>1. PICK g : g = Panic(f, m) /\ Become(g) /\ UNCHANGED <<todo, ret>>
    BY <2>0
  <2>2. g.panic # "no"
    BY <1>10, <2>0, <2>1, PanicIs
  <2>3. panic' # "no"
    BY <2>1, <2>2, BecomeIs
  <2>4. todo'[p] # <<>>
    BY <1>3, <2>1
  <2> QED
    BY <2>3, <2>4 DEF Stuck
<1>13. CASE Become(Iunlock(f, p, e)) /\ Go(p, <<<<"put", e>>, <<"unlock", i>>, <<"put", i>>>>, 0)
  <2>1. PICK g : g = Iunlock(f, p, e)
    OBVIOUS
  <2>2. Become(g)
    BY <1>13, <2>1
  <2>3. itable' = g.it /\ dinode' = g.di /\ bitmap' = g.used /\ panic' = g.panic
    BY <2>2, BecomeIs
  <2>4. Grants(p, g, 0, 0, 0)
    BY <1>8, <1>10, <2>1, GrantsUnlock
  <2>5. PICK a : a = <<"put", e>>
    OBVIOUS
  <2>6. PICK b : b = <<"unlock", i>>
    OBVIOUS
  <2>7. PICK c : c = <<"put", i>>
    OBVIOUS
  <2>8. a \in FsStep /\ a[1] = "put" /\ a[2] = e
    BY <2>5, <1>6, <1>8, StepsAre DEF Putting
  <2>9. b \in FsStep /\ b[1] = "unlock" /\ b[2] = i
    BY <2>6, <1>6, <1>8, StepsAre DEF Putting
  <2>10. c \in FsStep /\ c[1] = "put" /\ c[2] = i
    BY <2>7, <1>6, <1>8, StepsAre DEF Putting
  <2>11. Go(p, <<a, b, c>>, 0)
    BY <1>13, <2>5, <2>6, <2>7
  <2>12. Even3(s, q, a, b, c, 0, 0, 0, 0)
    <3>1. ASSUME NEW j \in Inum
          PROVE  /\ Refs(a, j) + Refs(b, j) + Refs(c, j) + Eq(0, j) = Refs(s[1], j) + Eq(q, j) + Eq(0, j)
                 /\ Locks(a, j) + Locks(b, j) + Locks(c, j) + Eq(0, j) + Eq(0, j) = Locks(s[1], j) + RetLock(s, q, j) + Eq(0, j)
      <4>1. Refs(a, j) = Eq(e, j) /\ Locks(a, j) = 0
        BY <2>8, WeightsOf
      <4>2. Refs(b, j) = 0 /\ Locks(b, j) = Eq(i, j)
        BY <2>9, WeightsOf
      <4>3. Refs(c, j) = Eq(i, j) /\ Locks(c, j) = 0
        BY <2>10, WeightsOf
      <4>4. Refs(s[1], j) = Eq(i, j) + Eq(e, j) /\ Locks(s[1], j) = Eq(i, j)
        BY <1>3, <1>5, <1>7, WeightsOf
      <4>5. RetLock(s, q, j) = 0 /\ Eq(q, j) = 0
        BY <1>1, <1>3, RetFree
      <4>6. Eq(0, j) = 0 /\ Eq(e, j) \in Nat /\ Eq(i, j) \in Nat
        BY EqZero, EqNat
      <4> QED
        BY <4>1, <4>2, <4>3, <4>4, <4>5, <4>6
    <3> QED
      BY <3>1 DEF Even3
  <2> QED
    BY <1>1, <1>2, <1>3, <1>4, <2>3, <2>4, <2>11, <2>8, <2>9, <2>10, <2>12, Sizes, Out3
<1>14. CASE Become(Iunlock(h, p, i)) /\ Go(p, <<<<"put", i>>, <<"unlinked", e>>>>, 0)
  <2>1. PICK g : g = Iunlock(h, p, i)
    OBVIOUS
  <2>2. Become(g)
    BY <1>14, <2>1
  <2>3. itable' = g.it /\ dinode' = g.di /\ bitmap' = g.used /\ panic' = g.panic
    BY <2>2, BecomeIs
  <2>4. Grants(p, g, 0, e, i)
    <3>1. Keeps(f, r[2])
      <4>1. k - 1 \in Nat
        BY <1>8
      <4>2. PICK v, all : v = FreeEntry /\ all = TRUE
        OBVIOUS
      <4>5. v \in Word \X (0 .. NInodes)
        <5>1. PICK x \in Word : x = ""
          BY Words, Zenon
        <5>2. v = <<x, 0>>
          BY <4>2, <5>1, Zenon DEF FreeEntry
        <5> QED
          BY <5>2, Sizes
      <4>3. r = Writei(f, i, k - 1, v, all)
        BY <1>9, <4>2
      <4> QED
        BY <1>6, <1>10, <4>1, <4>3, <4>5, WriteiIs
    <3>2. Grants(p, r[2], 0, e, 0)
      BY <1>10, <3>1, GrantsKeep
    <3>3. r[2] \in FsState
      BY <3>2 DEF Grants
    <3>4. Keeps(r[2], h)
      <4>1. PICK n \in Int : n = -1
        OBVIOUS
      <4>2. CASE ino.type = "T_DIR"
        <5>1. h = AddLinks(r[2], i, n)
          BY <1>9, <4>1, <4>2
        <5> QED
          BY <1>6, <3>3, <5>1, AddLinksIs
      <4>3. CASE ino.type # "T_DIR"
        <5>1. h = r[2]
          BY <1>9, <4>3
        <5> QED
          BY <3>3, <5>1, KeepsSelf
      <4> QED
        BY <4>2, <4>3
    <3>5. Grants(p, h, 0, e, 0)
      BY <3>2, <3>4, GrantsKeep
    <3> QED
      BY <1>6, <1>8, <2>1, <3>5, GrantsRelease
  <2>5. PICK a : a = <<"put", i>>
    OBVIOUS
  <2>6. PICK b : b = <<"unlinked", e>>
    OBVIOUS
  <2>7. a \in FsStep /\ a[1] = "put" /\ a[2] = i
    BY <2>5, <1>6, <1>8, StepsAre DEF Putting
  <2>8. b \in FsStep /\ b[1] = "unlinked" /\ b[2] = e
    BY <2>6, <1>6, <1>8, StepsAre DEF Putting
  <2>9. Go(p, <<a, b>>, 0)
    BY <1>14, <2>5, <2>6
  <2>10. Even2(s, q, a, b, 0, 0, e, i)
    <3>1. ASSUME NEW j \in Inum
          PROVE  /\ Refs(a, j) + Refs(b, j) + Eq(0, j) = Refs(s[1], j) + Eq(q, j) + Eq(0, j)
                 /\ Locks(a, j) + Locks(b, j) + Eq(0, j) + Eq(i, j) = Locks(s[1], j) + RetLock(s, q, j) + Eq(e, j)
      <4>1. Refs(a, j) = Eq(i, j) /\ Locks(a, j) = 0
        BY <2>7, WeightsOf
      <4>2. Refs(b, j) = Eq(e, j) /\ Locks(b, j) = Eq(e, j)
        BY <2>8, WeightsOf
      <4>3. Refs(s[1], j) = Eq(i, j) + Eq(e, j) /\ Locks(s[1], j) = Eq(i, j)
        BY <1>3, <1>5, <1>7, WeightsOf
      <4>4. RetLock(s, q, j) = 0 /\ Eq(q, j) = 0
        BY <1>1, <1>3, RetFree
      <4>5. Eq(0, j) = 0 /\ Eq(e, j) \in Nat /\ Eq(i, j) \in Nat
        BY EqZero, EqNat
      <4> QED
        BY <4>1, <4>2, <4>3, <4>4, <4>5
    <3> QED
      BY <3>1 DEF Even2
  <2> QED
    BY <1>1, <1>2, <1>3, <1>4, <2>3, <2>4, <2>9, <2>7, <2>8, <2>10, Sizes, Out2
<1> QED
  BY <1>11, <1>12, <1>13, <1>14

----------------------------------------------------------------------------
(***************************************************************************)
(* The steps that change an open file or a current directory               *)
(***************************************************************************)
\* A reference goes from the call to the file or the directory, or back.
Trade(s, q, t, r, c, c1, x, x1, inc, lk, ul) ==
  \A j \in Inum :
    /\ Uses(t, r, j) - Uses(s, q, j) \in {-1, 0, 1}
    /\ Uses(t, r, j) + CwdAt(c1, t, j) + FileAt(x1, j) = Uses(s, q, j) + CwdAt(c, s, j) + FileAt(x, j) + Eq(inc, j)
    /\ Obliged(t, r, j) + Eq(ul, j) = Obliged(s, q, j) + Eq(lk, j)

LEMMA Traded ==
  ASSUME FsCore, NEW p \in Proc, NEW s, s = todo[p], NEW q, q = ret[p],
         NEW g, NEW inc, NEW lk, NEW ul, Grants(p, g, inc, lk, ul), Others(p, g),
         NEW t, NEW r, Turn(p, t, r), Shape(t), RetShape(t, r),
         NEW c1, c1 = cwd'[p], NEW x1, x1 = file'[p], Trade(s, q, t, r, cwd[p], c1, file[p], x1, inc, lk, ul)
  PROVE  FsCore'
<1>1. g \in FsState
  BY DEF Grants
<1>2. ASSUME NEW j \in Inum
      PROVE  /\ Uses(t, r, j) - Uses(todo[p], ret[p], j) \in {-1, 0, 1}
             /\ g.it[j].ref = itable[j].ref + CwdAt(cwd'[p], t, j) - CwdAt(cwd[p], todo[p], j)
                              + FileAt(file'[p], j) - FileAt(file[p], j)
                              + Uses(t, r, j) - Uses(todo[p], ret[p], j)
             /\ Obliged(t, r, j) = IF g.it[j].lock = p THEN 1 ELSE 0
             /\ \/ g.it[j].lock = itable[j].lock
                \/ itable[j].lock \in {p, None} /\ g.it[j].lock \in {p, None}
  <2>1. PICK u, v, w, d, m, m1, n, n1 \in Nat :
          /\ u = Uses(s, q, j) /\ v = Uses(t, r, j) /\ w = itable[j].ref /\ d = Eq(inc, j)
          /\ m = CwdAt(cwd[p], s, j) /\ m1 = CwdAt(c1, t, j)
          /\ n = FileAt(file[p], j) /\ n1 = FileAt(x1, j)
    <3>1. itable[j].ref \in Nat
      BY Held
    <3>2. /\ CwdAt(cwd[p], s, j) \in Nat /\ CwdAt(c1, t, j) \in Nat
          /\ FileAt(file[p], j) \in Nat /\ FileAt(x1, j) \in Nat
      BY DEF CwdAt, FileAt
    <3> QED
      BY <3>1, <3>2, UsesNat, EqNat
  <2>2. v - u \in {-1, 0, 1} /\ v + m1 + n1 = u + m + n + d
    BY <2>1 DEF Trade
  <2>3. g.it[j].ref = w + d
    BY <2>1 DEF Grants
  <2>4. g.it[j].ref = w + m1 - m + n1 - n + v - u
    BY <2>2, <2>3
  <2>5. Obliged(t, r, j) + Eq(ul, j) = Obliged(s, q, j) + Eq(lk, j)
    BY DEF Trade
  <2>6. /\ Obliged(t, r, j) = IF g.it[j].lock = p THEN 1 ELSE 0
        /\ \/ g.it[j].lock = itable[j].lock
           \/ itable[j].lock \in {p, None} /\ g.it[j].lock \in {p, None}
    BY <2>5, LocksGranted
  <2> QED
    BY <2>1, <2>2, <2>4, <2>6
<1> QED
  BY <1>1, <1>2, TurnCore

\* The numbers a trade is about.
LEMMA TradeNat ==
  ASSUME NEW s, NEW q, NEW c, NEW x, NEW i, NEW j
  PROVE  /\ Uses(s, q, j) = TodoRefs(s, j) + Eq(q, j) /\ Obliged(s, q, j) = TodoLocks(s, j) + RetLock(s, q, j)
         /\ TodoRefs(s, j) \in Nat /\ TodoLocks(s, j) \in Nat /\ RetLock(s, q, j) \in Nat
         /\ CwdAt(c, s, j) \in Nat /\ FileAt(x, j) \in Nat /\ Eq(i, j) \in {0, 1}
  BY UsesNat, EqNat DEF Uses, Obliged, CwdAt, FileAt, Eq

LEMMA Differ ==
  ASSUME NEW u \in Nat, NEW a \in {0, 1}
  PROVE  /\ (u + 0) - (u + a) \in {-1, 0, 1} /\ (u + a) - (u + 0) \in {-1, 0, 1}
         /\ u - u \in {-1, 0, 1}
  OBVIOUS

SetFile(p, x) == file' = [file EXCEPT ![p] = x]

\* sys_open(): the file takes the reference of the call.
LEMMA OpensFile ==
  ASSUME FsCore, NEW p \in Proc, NEW s, s = todo[p], NEW q, q = ret[p], todo[p] # <<>>, s[1][1] = "open", q # 0,
         NEW g, NEW ul, Grants(p, g, 0, 0, ul), itable' = g.it, dinode' = g.di, bitmap' = g.used, panic' = g.panic,
         \A j \in Inum : RetLock(s, q, j) = Eq(ul, j),
         Go(p, <<>>, 0), file[p] = None, NEW x \in OpenFile, x.ip = q, SetFile(p, x), cwd' = cwd
  PROVE  FsCore'
<1>1. s[1][1] \in InCreate \union Alone /\ s[1][1] \notin InCreate
  BY DEF InCreate, Alone
<1>2. /\ FsType /\ s \in Seq(FsStep) /\ Len(s) \in 1 .. 2 /\ Len(s) \in 1 .. 4
      /\ EndFrom(s, 2) /\ ~Moving(s) /\ Len(s) = 1
  BY <1>1, EndsAt
<1>3. q \in Inum /\ 0 \in 0 .. NInodes
  <2>1. q \in 0 .. NInodes
    BY <1>2 DEF FsType
  <2> QED
    BY <2>1, Sizes DEF Inum
<1>4. PICK t : After0(p, s, t, 0)
  <2>1. s # <<>>
    OBVIOUS
  <2> QED
    BY <1>2, <1>3, <2>1, Go0
<1>5. /\ t \in Seq(FsStep) /\ Turn(p, t, 0) /\ Len(t) = Len(s) - 1
      /\ \A n \in 1 .. Len(t) : t[n] = s[n + 1]
  BY <1>4 DEF After0
<1>6. Shape(t) /\ ~Moving(t) /\ RetShape(t, 0)
  BY <1>2, <1>5, End0 DEF RetShape
<1>9. file' = [file EXCEPT ![p] = x] /\ file'[p] = x /\ cwd'[p] = cwd[p]
  BY <1>2 DEF FsType, SetFile
<1>10. Others(p, g)
  <2>1. file' \in [Proc -> OpenFile \union {None}] /\ cwd' \in [Proc -> Inum]
    BY <1>2, <1>9 DEF FsType
  <2> QED
    BY <1>2, <1>9, <2>1 DEF Others, FsType
<1>11. x # None
  <2>1. x \in [ip : Nat, off : Nat, writable : BOOLEAN]
    BY DEF OpenFile, Inum
  <2> QED
    BY <2>1, Sizes
<1>12. Trade(s, q, t, 0, cwd[p], cwd[p], file[p], x, 0, 0, ul)
  <2>1. ASSUME NEW j \in Inum
        PROVE  /\ Uses(t, 0, j) - Uses(s, q, j) \in {-1, 0, 1}
               /\ Uses(t, 0, j) + CwdAt(cwd[p], t, j) + FileAt(x, j)
                    = Uses(s, q, j) + CwdAt(cwd[p], s, j) + FileAt(file[p], j) + Eq(0, j)
               /\ Obliged(t, 0, j) + Eq(ul, j) = Obliged(s, q, j) + Eq(0, j)
    <3>1. PICK u, v, m, a, l, n \in Nat :
            /\ u = TodoRefs(s, j) /\ v = TodoLocks(s, j) /\ m = CwdAt(cwd[p], s, j) /\ a = Eq(q, j)
            /\ l = Eq(ul, j) /\ n = RetLock(t, 0, j)
      BY TradeNat, EqNat
    <3>2. a \in {0, 1}
      BY <3>1 DEF Eq
    <3>3. TodoRefs(t, j) = u - 0 /\ TodoLocks(t, j) = v - 0
      <4>1. Refs(s[1], j) = 0 /\ Locks(s[1], j) = 0
        BY WeightsOf
      <4> QED
        BY <1>4, <3>1, <4>1 DEF After0
    <3>4. Eq(0, j) = 0 /\ n = 0
      <4>1. j # 0
        BY DEF Inum
      <4> QED
        BY <3>1, <4>1 DEF Eq, RetLock
    <3>5. CwdAt(cwd[p], t, j) = m
      BY <1>2, <1>6, <3>1 DEF CwdAt
    <3>6. FileAt(x, j) = a /\ FileAt(file[p], j) = 0
      BY <1>11, <3>1 DEF FileAt, Eq
    <3>7. Uses(t, 0, j) = u + 0 /\ Uses(s, q, j) = u + a
      BY <3>1, <3>3, <3>4 DEF Uses
    <3>8. Obliged(t, 0, j) = v + 0 /\ Obliged(s, q, j) = v + l
      BY <3>1, <3>3, <3>4 DEF Obliged
    <3>9. Uses(t, 0, j) - Uses(s, q, j) \in {-1, 0, 1}
      <4>1. (u + 0) - (u + a) \in {-1, 0, 1}
        BY <3>1, <3>2, Differ
      <4> QED
        BY <3>7, <4>1
    <3>10. Uses(t, 0, j) + CwdAt(cwd[p], t, j) + FileAt(x, j)
             = Uses(s, q, j) + CwdAt(cwd[p], s, j) + FileAt(file[p], j) + Eq(0, j)
      <4>1. CwdAt(cwd[p], s, j) = m
        BY <3>1
      <4>2. (u + 0) + m + a = (u + a) + m + 0 + 0
        BY <3>1
      <4> QED
        BY <3>4, <3>5, <3>6, <3>7, <4>1, <4>2
    <3>11. Obliged(t, 0, j) + Eq(ul, j) = Obliged(s, q, j) + Eq(0, j)
      <4>1. Eq(ul, j) = l
        BY <3>1
      <4>2. (v + 0) + l = (v + l) + 0
        BY <3>1
      <4> QED
        BY <3>4, <3>8, <4>1, <4>2
    <3> QED
      BY <3>9, <3>10, <3>11
  <2> QED
    BY <2>1 DEF Trade
<1> QED
  BY <1>5, <1>6, <1>9, <1>10, <1>12, Traded

\* Whether create() or sys_open() itself has locked the inode.
LEMMA OpenLocks ==
  ASSUME FsCore, NEW p \in Proc, At(p, "open"), NEW s, s = todo[p], NEW q \in Inum, q = ret[p],
         NEW m, m = s[1][2], m.create \/ Unlocked(q),
         NEW ul, ul = (IF m.create THEN q ELSE 0),
         NEW f, f = (IF m.create THEN State ELSE Ilock(State, p, q))
  PROVE  /\ f \in FsState
         /\ \A j \in Inum : RetLock(s, q, j) = Eq(ul, j)
         /\ \A h, g : Keeps(f, h) /\ g = Iunlock(h, p, q) => Grants(p, g, 0, 0, ul)
<1>1. s[1][1] = "open" /\ State \in FsState /\ Grants(p, State, 0, 0, 0) /\ itable[q].ref >= 1
  <2>1. q # 0
    BY DEF Inum
  <2> QED
    BY <2>1, StepIs
<1>2. CASE m.create
  <2>1. RetLocked(s) /\ ul = q /\ f = State
    BY <1>1, <1>2 DEF RetLocked
  <2>2. itable[q].lock = p
    BY <2>1, LockedRet
  <2>3. \A j \in Inum : RetLock(s, q, j) = Eq(ul, j)
    BY <2>1, RetHeld
  <2>4. ASSUME NEW h, NEW g, Keeps(f, h), g = Iunlock(h, p, q)
        PROVE  Grants(p, g, 0, 0, ul)
    <3>1. Grants(p, h, 0, 0, 0)
      BY <1>1, <2>1, <2>4, GrantsKeep
    <3> QED
      BY <1>1, <2>1, <2>2, <2>4, <3>1, GrantsRelease
  <2> QED
    BY <1>1, <2>1, <2>3, <2>4
<1>3. CASE ~m.create
  <2>1. ~RetLocked(s) /\ ul = 0 /\ f = Ilock(State, p, q) /\ itable[q].lock = None
    BY <1>1, <1>3 DEF RetLocked, Putting, Unlocked
  <2>2. Grants(p, f, 0, q, 0)
    BY <1>1, <2>1, GrantsLock
  <2>3. f \in FsState
    BY <2>2 DEF Grants
  <2>4. \A j \in Inum : RetLock(s, q, j) = Eq(ul, j)
    BY <2>1, EqZero DEF RetLock
  <2>5. ASSUME NEW h, NEW g, Keeps(f, h), g = Iunlock(h, p, q)
        PROVE  Grants(p, g, 0, 0, ul)
    <3>1. Grants(p, h, 0, q, 0)
      BY <2>2, <2>5, GrantsKeep
    <3> QED
      BY <1>1, <2>1, <2>5, <3>1, GrantsUnlock
  <2> QED
    BY <2>3, <2>4, <2>5
<1> QED
  BY <1>2, <1>3

\* sys_open() and sys_chdir(): iunlockput() of an inode that cannot be used.
LEMMA GivesBack ==
  ASSUME FsCore, NEW p \in Proc, NEW s, s = todo[p], todo[p] # <<>>, s[1][1] \in {"open", "chdir"},
         NEW q \in Inum, q = ret[p], NEW g, NEW ul, Grants(p, g, 0, 0, ul), Become(g),
         \A j \in Inum : RetLock(s, q, j) = Eq(ul, j), Go(p, <<<<"put", q>>>>, 0), UNCHANGED <<file, cwd>>
  PROVE  FsCore' \/ Stuck'
<1>1. s[1][1] \in InCreate \union Alone
  BY DEF InCreate, Alone
<1>2. itable' = g.it /\ dinode' = g.di /\ bitmap' = g.used /\ panic' = g.panic
  BY BecomeIs
<1>3. PICK a : a = <<"put", q>>
  OBVIOUS
<1>4. a \in FsStep /\ a[1] = "put" /\ a[2] = q
  BY <1>3, StepsAre DEF Putting
<1>5. Go(p, <<a>>, 0)
  BY <1>3
<1>6. Even1(s, q, a, 0, 0, 0, ul)
  <2>1. ASSUME NEW j \in Inum
        PROVE  /\ Refs(a, j) + Eq(0, j) = Refs(s[1], j) + Eq(q, j) + Eq(0, j)
               /\ Locks(a, j) + Eq(0, j) + Eq(ul, j) = Locks(s[1], j) + RetLock(s, q, j) + Eq(0, j)
    <3>1. Refs(a, j) = Eq(q, j) /\ Locks(a, j) = 0
      BY <1>4, WeightsOf
    <3>2. Refs(s[1], j) = 0 /\ Locks(s[1], j) = 0
      BY WeightsOf
    <3>3. RetLock(s, q, j) = Eq(ul, j)
      OBVIOUS
    <3>4. Eq(0, j) = 0 /\ Eq(q, j) \in Nat /\ Eq(ul, j) \in Nat
      BY EqZero, EqNat
    <3> QED
      BY <3>1, <3>2, <3>3, <3>4
  <2> QED
    BY <2>1 DEF Even1
<1>7. 0 \in 0 .. NInodes
  BY Sizes
<1> QED
  BY <1>1, <1>2, <1>4, <1>5, <1>6, <1>7, Out1

LEMMA OpenGoes ==
  ASSUME FsCore, NEW p \in Proc, Open(p)
  PROVE  FsCore' \/ Stuck'
<1>1. PICK s, q : s = todo[p] /\ q = ret[p]
  OBVIOUS
<1>2. At(p, "open") /\ q # 0 /\ cwd' = cwd
  BY <1>1 DEF Open
<1>3. /\ todo[p] # <<>> /\ s[1] \in FsStep /\ s[1][1] = "open" /\ q \in Inum
      /\ Arg(p, 1) = s[1][2] /\ State \in FsState
  BY <1>1, <1>2, StepIs
<1>4. PICK m : m = Arg(p, 1) /\ m = s[1][2]
  BY <1>3
<1>5. m.write \in BOOLEAN
  <2>1. m \in Mode
    BY <1>3, <1>4, StepArgs
  <2> QED
    BY <2>1 DEF Mode
<1>6. PICK f, ul : /\ f = (IF m.create THEN State ELSE Ilock(State, p, q))
                   /\ ul = (IF m.create THEN q ELSE 0)
  OBVIOUS
<1>7. PICK h : h = (IF m.trunc /\ f.it[q].ino.type = "T_FILE" THEN Itrunc(f, q) ELSE f)
  OBVIOUS
<1>8. m.create \/ Unlocked(q)
  BY <1>1, <1>4 DEF Open
<1>9. /\ f \in FsState
      /\ \A j \in Inum : RetLock(s, q, j) = Eq(ul, j)
      /\ \A k, g : Keeps(f, k) /\ g = Iunlock(k, p, q) => Grants(p, g, 0, 0, ul)
  BY <1>1, <1>2, <1>3, <1>4, <1>6, <1>8, OpenLocks
<1>10. \/ /\ file[p] = None
          /\ file' = [file EXCEPT ![p] = [ip |-> q, off |-> 0, writable |-> m.write]]
          /\ Become(Iunlock(h, p, q)) /\ Go(p, <<>>, 0)
       \/ Become(Iunlock(f, p, q)) /\ Go(p, <<<<"put", q>>>>, 0) /\ UNCHANGED file
  BY <1>1, <1>4, <1>6, <1>7 DEF Open
<1>11. ASSUME file[p] = None,
              file' = [file EXCEPT ![p] = [ip |-> q, off |-> 0, writable |-> m.write]],
              Become(Iunlock(h, p, q)), Go(p, <<>>, 0)
       PROVE  FsCore'
  <2>1. PICK g : g = Iunlock(h, p, q)
    OBVIOUS
  <2>2. itable' = g.it /\ dinode' = g.di /\ bitmap' = g.used /\ panic' = g.panic
    BY <1>11, <2>1, BecomeIs
  <2>3. Keeps(f, h)
    <3>1. PICK x : x = Itrunc(f, q)
      OBVIOUS
    <3>2. Keeps(f, x)
      BY <1>3, <1>9, <3>1, ItruncIs
    <3> QED
      BY <1>7, <1>9, <3>1, <3>2, KeepsSelf
  <2>4. Grants(p, g, 0, 0, ul)
    BY <1>9, <2>1, <2>3
  <2>5. PICK x : x = [ip |-> q, off |-> 0, writable |-> m.write]
    OBVIOUS
  <2>6. x \in OpenFile /\ x.ip = q /\ SetFile(p, x)
    BY <1>3, <1>5, <1>11, <2>5 DEF OpenFile, SetFile
  <2>7. \A j \in Inum : RetLock(s, q, j) = Eq(ul, j)
    BY <1>9
  <2>8. q # 0 /\ cwd' = cwd /\ todo[p] # <<>> /\ s[1][1] = "open"
    BY <1>2, <1>3
  <2> QED
    BY <1>1, <1>11, <2>2, <2>4, <2>6, <2>7, <2>8, OpensFile
<1>12. ASSUME Become(Iunlock(f, p, q)), Go(p, <<<<"put", q>>>>, 0), UNCHANGED file
       PROVE  FsCore' \/ Stuck'
  <2>1. PICK g : g = Iunlock(f, p, q)
    OBVIOUS
  <2>2. Grants(p, g, 0, 0, ul)
    BY <1>9, <2>1, KeepsSelf
  <2>3. Become(g) /\ UNCHANGED <<file, cwd>>
    BY <1>2, <1>12, <2>1
  <2> QED
    BY <1>1, <1>3, <1>9, <1>12, <2>2, <2>3, GivesBack
<1> QED
  BY <1>10, <1>11, <1>12

\* A path that names nothing.
LEMMA NoInodeGoes ==
  ASSUME FsCore, NEW p \in Proc, NoInode(p)
  PROVE  FsCore'
<1>1. PICK s, q : s = todo[p] /\ q = ret[p]
  OBVIOUS
<1>2. PICK kind \in {"open", "link", "unlink", "chdir"} : At(p, kind)
  BY DEF NoInode
<1>3. q = 0 /\ Go(p, <<>>, 0) /\ UNCHANGED <<file, cwd>>
  BY <1>1 DEF NoInode
<1>4. todo[p] # <<>> /\ s[1][1] = kind /\ Grants(p, State, 0, 0, 0)
  BY <1>1, <1>2, StepIs
<1>5. s[1][1] \in InCreate \union Alone
  BY <1>4 DEF InCreate, Alone
<1>6. itable' = State.it /\ dinode' = State.di /\ bitmap' = State.used /\ panic' = State.panic
  BY DEF NoInode, fsvars, State
<1>7. Even0(s, q, 0, 0, 0, 0)
  <2>1. ASSUME NEW j \in Inum
        PROVE  /\ Eq(0, j) = Refs(s[1], j) + Eq(q, j) + Eq(0, j)
               /\ Eq(0, j) + Eq(0, j) = Locks(s[1], j) + RetLock(s, q, j) + Eq(0, j)
    <3>1. q # j
      BY <1>3 DEF Inum
    <3>2. RetLock(s, q, j) = 0
      BY <3>1 DEF RetLock
    <3>3. Refs(s[1], j) = 0 /\ Locks(s[1], j) = 0
      BY <1>4, WeightsOf
    <3> QED
      BY <1>3, <3>2, <3>3, EqZero
  <2> QED
    BY <2>1 DEF Even0
<1>8. 0 \in 0 .. NInodes /\ todo[p] # <<>> /\ Go(p, <<>>, 0) /\ UNCHANGED <<file, cwd>>
  BY <1>3, <1>4, Sizes
<1>9. Grants(p, State, 0, 0, 0)
  BY <1>4
<1> QED
  BY <1>1, <1>5, <1>6, <1>7, <1>8, <1>9, Out0

\* sys_chdir(): the references of the old and the new directory are the call's.
LEMMA LeavesDir ==
  ASSUME FsCore, NEW p \in Proc, NEW s, s = todo[p], NEW q \in Inum, q = ret[p], todo[p] # <<>>, s[1][1] = "chdir",
         NEW g, Grants(p, g, 0, 0, 0), itable' = g.it, dinode' = g.di, bitmap' = g.used, panic' = g.panic,
         NEW c, c = cwd[p], NEW a \in FsStep, a[1] = "put", a[2] = c, NEW b \in FsStep, b[1] = "setcwd", b[2] = q,
         Go(p, <<a, b>>, 0), UNCHANGED <<file, cwd>>
  PROVE  FsCore'
<1>1. s[1][1] \in InCreate \union Alone /\ s[1][1] \notin InCreate
  BY DEF InCreate, Alone
<1>2. /\ FsType /\ s \in Seq(FsStep) /\ Len(s) \in 1 .. 2 /\ Len(s) \in 1 .. 3
      /\ EndFrom(s, 2) /\ ~Moving(s) /\ Len(s) = 1
  BY <1>1, EndsAt
<1>3. 0 \in 0 .. NInodes
  BY Sizes
<1>4. PICK t : After2(p, s, t, a, b, 0)
  <2>1. s # <<>>
    OBVIOUS
  <2> QED
    BY <1>2, <1>3, <2>1, Go2
<1>5. /\ t \in Seq(FsStep) /\ Turn(p, t, 0) /\ Len(t) = Len(s) + 1 /\ t[1] = a /\ t[2] = b
      /\ \A n \in 3 .. Len(t) : t[n] = s[n - 1]
  BY <1>4 DEF After2
<1>6. Shape(t) /\ Moving(t) /\ RetShape(t, 0)
  <2>1. t[1][1] = "put" /\ t[2][1] = "setcwd"
    BY <1>5
  <2> QED
    BY <1>2, <1>5, <2>1, End2 DEF RetShape
<1>7. Others(p, g)
  BY <1>2 DEF Others, FsType
<1>8. PICK x : x = file[p]
  OBVIOUS
<1>9. Trade(s, q, t, 0, c, c, x, x, 0, 0, 0)
  <2>1. ASSUME NEW j \in Inum
        PROVE  /\ Uses(t, 0, j) - Uses(s, q, j) \in {-1, 0, 1}
               /\ Uses(t, 0, j) + CwdAt(c, t, j) + FileAt(x, j)
                    = Uses(s, q, j) + CwdAt(c, s, j) + FileAt(x, j) + Eq(0, j)
               /\ Obliged(t, 0, j) + Eq(0, j) = Obliged(s, q, j) + Eq(0, j)
    <3>1. PICK u, v, m, d, n \in Nat :
            /\ u = TodoRefs(s, j) /\ v = TodoLocks(s, j) /\ m = Eq(c, j) /\ d = Eq(q, j)
            /\ n = FileAt(x, j)
      BY TradeNat, EqNat
    <3>2. m \in {0, 1}
      BY <3>1 DEF Eq
    <3>3. TodoRefs(t, j) = u - 0 + m + d /\ TodoLocks(t, j) = v - 0 + 0 + 0
      <4>1. /\ Refs(s[1], j) = 0 /\ Locks(s[1], j) = 0
            /\ Refs(a, j) = m /\ Locks(a, j) = 0 /\ Refs(b, j) = d /\ Locks(b, j) = 0
        BY <3>1, WeightsOf
      <4> QED
        BY <1>4, <3>1, <4>1 DEF After2
    <3>4. Eq(0, j) = 0 /\ RetLock(t, 0, j) = 0 /\ RetLock(s, q, j) = 0
      <4>1. j # 0
        BY DEF Inum
      <4>2. RetLock(s, q, j) = 0
        BY RetFree
      <4> QED
        BY <4>1, <4>2 DEF Eq, RetLock
    <3>5. CwdAt(c, t, j) = 0 /\ CwdAt(c, s, j) = m
      BY <1>2, <1>6, <3>1 DEF CwdAt, Eq
    <3>6. Uses(t, 0, j) = (u + d) + m /\ Uses(s, q, j) = (u + d) + 0
      BY SMTT(30), <3>1, <3>3, <3>4 DEF Uses
    <3>7. Obliged(t, 0, j) = v /\ Obliged(s, q, j) = v
      BY <3>1, <3>3, <3>4 DEF Obliged
    <3>8. Uses(t, 0, j) - Uses(s, q, j) \in {-1, 0, 1}
      <4>1. u + d \in Nat
        BY <3>1
      <4>2. ((u + d) + m) - ((u + d) + 0) \in {-1, 0, 1}
        BY <3>2, <4>1, Differ
      <4> QED
        BY <3>6, <4>2
    <3>9. Uses(t, 0, j) + CwdAt(c, t, j) + FileAt(x, j)
            = Uses(s, q, j) + CwdAt(c, s, j) + FileAt(x, j) + Eq(0, j)
      <4>1. FileAt(x, j) = n
        BY <3>1
      <4>2. ((u + d) + m) + 0 + n = ((u + d) + 0) + m + n + 0
        BY <3>1
      <4> QED
        BY <3>4, <3>5, <3>6, <4>1, <4>2
    <3> QED
      BY <3>4, <3>7, <3>8, <3>9
  <2> QED
    BY <2>1 DEF Trade
<1> QED
  BY <1>5, <1>6, <1>7, <1>8, <1>9, Traded

LEMMA ChdirGoes ==
  ASSUME FsCore, NEW p \in Proc, Chdir(p)
  PROVE  FsCore' \/ Stuck'
<1>1. PICK s, q : s = todo[p] /\ q = ret[p]
  OBVIOUS
<1>2. At(p, "chdir") /\ UNCHANGED <<file, cwd>>
  BY DEF Chdir
<1>3. /\ todo[p] # <<>> /\ s[1] \in FsStep /\ s[1][1] = "chdir"
      /\ q \in Inum /\ itable[q].ref >= 1 /\ itable[q].lock = None
  <2>1. q # 0 /\ Unlocked(q)
    BY <1>1 DEF Chdir
  <2> QED
    BY <1>1, <1>2, <2>1, StepIs DEF Unlocked
<1>4. PICK f, g : f = Ilock(State, p, q) /\ g = Iunlock(f, p, q)
  OBVIOUS
<1>5. Grants(p, g, 0, 0, 0)
  <2>1. Grants(p, f, 0, q, 0)
    BY <1>3, <1>4, GrantsLock
  <2> QED
    BY <1>3, <1>4, <2>1, GrantsUnlock
<1>6. Become(g) /\ \/ Go(p, <<<<"put", q>>>>, 0)
                   \/ Go(p, <<<<"put", cwd[p]>>, <<"setcwd", q>>>>, 0)
  BY <1>1, <1>4 DEF Chdir
<1>7. itable' = g.it /\ dinode' = g.di /\ bitmap' = g.used /\ panic' = g.panic
  BY <1>6, BecomeIs
<1>8. CASE Go(p, <<<<"put", q>>>>, 0)
  <2>1. \A j \in Inum : RetLock(s, q, j) = Eq(0, j)
    BY <1>1, <1>3, RetFree, EqZero
  <2>2. PICK ul : ul = 0
    OBVIOUS
  <2>3. Grants(p, g, 0, 0, ul) /\ \A j \in Inum : RetLock(s, q, j) = Eq(ul, j)
    BY <1>5, <2>1, <2>2
  <2>4. s[1][1] \in {"open", "chdir"}
    BY <1>3
  <2> QED
    BY <1>1, <1>2, <1>3, <1>6, <1>8, <2>3, <2>4, GivesBack
<1>9. CASE Go(p, <<<<"put", cwd[p]>>, <<"setcwd", q>>>>, 0)
  <2>1. PICK c : c = cwd[p]
    OBVIOUS
  <2>2. c \in Inum
    BY <2>1 DEF FsCore, FsType
  <2>3. PICK a, b : a = <<"put", c>> /\ b = <<"setcwd", q>>
    OBVIOUS
  <2>4. a \in FsStep /\ a[1] = "put" /\ a[2] = c
    BY <2>2, <2>3, StepsAre DEF Putting
  <2>5. b \in FsStep /\ b[1] = "setcwd" /\ b[2] = q
    BY <1>3, <2>3, StepsAre DEF Putting
  <2>6. Go(p, <<a, b>>, 0)
    BY <1>9, <2>1, <2>3
  <2> QED
    BY <1>1, <1>2, <1>3, <1>5, <1>7, <2>1, <2>4, <2>5, <2>6, LeavesDir
<1> QED
  BY <1>6, <1>8, <1>9

\* sys_chdir(): the new directory takes the reference of the call.
LEMMA SetCwdGoes ==
  ASSUME FsCore, NEW p \in Proc, SetCwd(p)
  PROVE  FsCore'
<1>1. PICK s, q : s = todo[p] /\ q = ret[p]
  OBVIOUS
<1>2. At(p, "setcwd")
  BY DEF SetCwd
<1>3. todo[p] # <<>> /\ s[1] \in FsStep /\ s[1][1] = "setcwd" /\ Arg(p, 1) = s[1][2] /\ Grants(p, State, 0, 0, 0)
  BY <1>1, <1>2, StepIs
<1>4. PICK c \in Inum : c = s[1][2]
  BY <1>3, StepArgs DEF Using
<1>5. /\ cwd' = [cwd EXCEPT ![p] = c] /\ Go(p, <<>>, 0) /\ UNCHANGED <<fsvars, file>>
  BY <1>3, <1>4 DEF SetCwd
<1>6. FsType /\ s \in Seq(FsStep) /\ s # <<>> /\ Shape(s) /\ Len(s) \in 1 .. 4
  BY <1>1, <1>2, AtIs
<1>7. Len(s) = 1 /\ Moving(s)
  BY <1>3, <1>6, ShapeKinds DEF Moving
<1>8. PICK t : After0(p, s, t, 0)
  <2>1. 0 \in 0 .. NInodes
    BY Sizes
  <2> QED
    BY <1>1, <1>5, <1>6, <2>1, Go0
<1>9. t \in Seq(FsStep) /\ Turn(p, t, 0) /\ Len(t) = 0
  BY <1>7, <1>8 DEF After0
<1>10. Shape(t) /\ ~Moving(t) /\ RetShape(t, 0)
  <2>1. EndFrom(t, 1)
    BY <1>9 DEF EndFrom
  <2> QED
    BY <1>9, <2>1, ShapeOf, MovingNot DEF RetShape
<1>11. PICK x, d : x = file[p] /\ d = cwd[p]
  OBVIOUS
<1>12. c = cwd'[p] /\ x = file'[p]
  BY <1>5, <1>6, <1>11 DEF FsType
<1>13. Others(p, State)
  <2>1. cwd' \in [Proc -> Inum] /\ \A r \in Proc : r # p => cwd'[r] = cwd[r]
    BY <1>5, <1>6 DEF FsType
  <2> QED
    BY <1>5, <1>6, <2>1 DEF Others, FsType, fsvars, State
<1>14. Trade(s, q, t, 0, d, c, x, x, 0, 0, 0)
  <2>1. ASSUME NEW j \in Inum
        PROVE  /\ Uses(t, 0, j) - Uses(s, q, j) \in {-1, 0, 1}
               /\ Uses(t, 0, j) + CwdAt(c, t, j) + FileAt(x, j)
                    = Uses(s, q, j) + CwdAt(d, s, j) + FileAt(x, j) + Eq(0, j)
               /\ Obliged(t, 0, j) + Eq(0, j) = Obliged(s, q, j) + Eq(0, j)
    <3>1. PICK u, u1, v, m, n \in Nat :
            /\ u = TodoRefs(s, j) /\ u1 = TodoRefs(t, j) /\ v = TodoLocks(s, j) /\ m = Eq(c, j)
            /\ n = FileAt(x, j)
      BY TradeNat, EqNat
    <3>2. m \in {0, 1}
      BY <3>1 DEF Eq
    <3>3. TodoRefs(t, j) = u - m /\ TodoLocks(t, j) = v - 0
      <4>1. Refs(s[1], j) = m /\ Locks(s[1], j) = 0
        BY <1>3, <1>4, <3>1, WeightsOf
      <4> QED
        BY <1>8, <3>1, <4>1 DEF After0
    <3>4. /\ Eq(0, j) = 0 /\ RetLock(t, 0, j) = 0 /\ RetLock(s, q, j) = 0 /\ Eq(q, j) = 0
      <4>1. j # 0
        BY DEF Inum
      <4>2. RetLock(s, q, j) = 0 /\ Eq(q, j) = 0
        BY <1>1, <1>3, RetFree
      <4> QED
        BY <4>1, <4>2 DEF Eq, RetLock
    <3>5. CwdAt(c, t, j) = m /\ CwdAt(d, s, j) = 0
      BY <1>7, <1>10, <3>1 DEF CwdAt, Eq
    <3>6. Uses(t, 0, j) = u1 + 0 /\ Uses(s, q, j) = u + 0 /\ u1 = u - m
      BY <3>1, <3>3, <3>4 DEF Uses
    <3>7. Obliged(t, 0, j) = v /\ Obliged(s, q, j) = v
      BY <3>1, <3>3, <3>4 DEF Obliged
    <3>8. u = u1 + m
      BY <3>1, <3>6
    <3>9. Uses(t, 0, j) - Uses(s, q, j) \in {-1, 0, 1}
      <4>1. (u1 + 0) - (u1 + m) \in {-1, 0, 1}
        BY <3>1, <3>2, Differ
      <4>2. (u1 + m) + 0 = u1 + m
        BY <3>1
      <4> QED
        BY <3>6, <3>8, <4>1, <4>2
    <3>10. Uses(t, 0, j) + CwdAt(c, t, j) + FileAt(x, j)
             = Uses(s, q, j) + CwdAt(d, s, j) + FileAt(x, j) + Eq(0, j)
      <4>1. FileAt(x, j) = n
        BY <3>1
      <4>2. (u1 + 0) + m + n = ((u1 + m) + 0) + 0 + n + 0
        BY <3>1
      <4> QED
        BY <3>4, <3>5, <3>6, <3>8, <4>1, <4>2
    <3> QED
      BY <3>4, <3>7, <3>9, <3>10
  <2> QED
    BY <2>1 DEF Trade
<1>15. Trade(s, q, t, 0, cwd[p], c, file[p], x, 0, 0, 0)
  BY <1>11, <1>14
<1> QED
  BY <1>1, <1>3, <1>9, <1>10, <1>12, <1>13, <1>15, Traded

----------------------------------------------------------------------------
(***************************************************************************)
(* The steps of namex()                                                    *)
(***************************************************************************)
LEMMA WalkAt ==
  ASSUME FsCore, NEW p \in Proc, At(p, "walk"), NEW s, s = todo[p], NEW q, q = ret[p], NEW i, i = s[1][2]
  PROVE  /\ FsType /\ s \in Seq(FsStep) /\ s # <<>> /\ Len(s) \in 1 .. 4 /\ Len(s) \in 1 .. 3 /\ Shape(s)
         /\ s[1] \in FsStep /\ s[1][1] = "walk" /\ i \in Inum /\ itable[i].ref >= 1
         /\ s[1][3] \in Seq(Word) /\ s[1][4] \in BOOLEAN
         /\ Arg(p, 1) = i /\ Arg(p, 2) = s[1][3] /\ Arg(p, 3) = s[1][4]
         /\ q = 0 /\ ~Moving(s) /\ State \in FsState /\ Grants(p, State, 0, 0, 0)
         /\ \A j \in Inum : RetLock(s, q, j) = 0 /\ Eq(q, j) = 0 /\ Refs(s[1], j) = Eq(i, j) /\ Locks(s[1], j) = 0
<1>1. FsType /\ s \in Seq(FsStep) /\ s # <<>> /\ Len(s) \in 1 .. 4 /\ Shape(s) /\ RetShape(s, q)
  BY AtIs
<1>2. /\ todo[p] # <<>> /\ s[1] \in FsStep /\ s[1][1] = "walk"
      /\ Arg(p, 1) = i /\ Arg(p, 2) = s[1][3] /\ Arg(p, 3) = s[1][4]
      /\ State \in FsState /\ Grants(p, State, 0, 0, 0)
  BY StepIs
<1>3. i \in Inum /\ s[1][3] \in Seq(Word) /\ s[1][4] \in BOOLEAN
  BY <1>2, StepArgs DEF Using
<1>4. itable[i].ref >= 1
  <2>1. s[1][1] \in Using
    BY <1>2 DEF Using
  <2> QED
    BY <1>2, <1>3, <2>1, HasRef
<1>5. Len(s) \in 2 .. 3 /\ ~Moving(s)
  BY <1>1, <1>2, WalkIs
<1>6. Len(s) \in 1 .. 3
  BY <1>5
<1>7. q = 0
  BY <1>1, <1>2, RetNone DEF Putting
<1>8. \A j \in Inum : RetLock(s, q, j) = 0 /\ Eq(q, j) = 0 /\ Refs(s[1], j) = Eq(i, j) /\ Locks(s[1], j) = 0
  BY <1>2, RetFree, WeightsOf
<1> QED
  BY <1>1, <1>2, <1>3, <1>4, <1>5, <1>6, <1>7, <1>8

\* The path names nothing: the last directory is given back.
LEMMA WalkFails ==
  ASSUME FsCore, NEW p \in Proc, At(p, "walk"), NEW s, s = todo[p], NEW i, i = s[1][2],
         NEW g, Grants(p, g, 0, 0, 0), itable' = g.it, dinode' = g.di, bitmap' = g.used, panic' = g.panic,
         Go(p, <<<<"put", i>>>>, 0), UNCHANGED <<file, cwd>>
  PROVE  FsCore'
<1>1. PICK q : q = ret[p]
  OBVIOUS
<1>2. /\ FsType /\ s \in Seq(FsStep) /\ s # <<>> /\ Len(s) \in 1 .. 4 /\ Shape(s)
      /\ s[1][1] = "walk" /\ i \in Inum /\ ~Moving(s)
  BY <1>1, WalkAt
<1>3. PICK a : a = <<"put", i>>
  OBVIOUS
<1>4. a \in FsStep /\ a[1] = "put" /\ a[2] = i
  BY <1>2, <1>3, StepsAre DEF Putting
<1>5. Go(p, <<a>>, 0) /\ 0 \in 0 .. NInodes
  BY <1>3, Sizes
<1>6. PICK t : After1(p, s, t, a, 0)
  BY <1>2, <1>4, <1>5, Go1
<1>7. /\ t \in Seq(FsStep) /\ Len(t) = Len(s) /\ t[1] = a /\ \A n \in 2 .. Len(t) : t[n] = s[n]
  BY <1>6 DEF After1
<1>8. t[1][1] = "put"
  BY <1>4, <1>7
<1>9. Shape(t) /\ ~Moving(t) /\ RetShape(t, 0)
  BY <1>2, <1>7, <1>8, Walk1 DEF RetShape
<1>10. Balance1(s, q, a, t, 0, 0, 0, 0)
  <2>1. ASSUME NEW j \in Inum
        PROVE  /\ Refs(a, j) + Eq(0, j) = Refs(s[1], j) + Eq(q, j) + Eq(0, j)
               /\ Locks(a, j) + RetLock(t, 0, j) + Eq(0, j) = Locks(s[1], j) + RetLock(s, q, j) + Eq(0, j)
    <3>1. Refs(a, j) = Eq(i, j) /\ Locks(a, j) = 0
      BY <1>4, WeightsOf
    <3>2. RetLock(s, q, j) = 0 /\ Eq(q, j) = 0 /\ Refs(s[1], j) = Eq(i, j) /\ Locks(s[1], j) = 0
      BY <1>1, WalkAt
    <3>3. Eq(0, j) = 0 /\ RetLock(t, 0, j) = 0 /\ Eq(i, j) \in Nat
      <4>1. j # 0
        BY DEF Inum
      <4> QED
        BY <4>1, EqNat DEF Eq, RetLock
    <3> QED
      BY <3>1, <3>2, <3>3
  <2> QED
    BY <2>1 DEF Balance1
<1> QED
  BY <1>1, <1>2, <1>6, <1>9, <1>10, Granted1

\* The inode is returned.
LEMMA WalkFinds ==
  ASSUME FsCore, NEW p \in Proc, At(p, "walk"), NEW s, s = todo[p], NEW i, i = s[1][2],
         NEW g, Grants(p, g, 0, 0, 0), itable' = g.it, dinode' = g.di, bitmap' = g.used, panic' = g.panic,
         Go(p, <<>>, i), UNCHANGED <<file, cwd>>
  PROVE  FsCore'
<1>1. PICK q : q = ret[p]
  OBVIOUS
<1>2. /\ FsType /\ s \in Seq(FsStep) /\ s # <<>> /\ Len(s) \in 1 .. 4 /\ Shape(s)
      /\ s[1][1] = "walk" /\ i \in Inum /\ ~Moving(s)
  BY <1>1, WalkAt
<1>3. i \in 0 .. NInodes
  BY <1>2, Sizes DEF Inum
<1>4. PICK t : After0(p, s, t, i)
  BY <1>2, <1>3, Go0
<1>5. /\ t \in Seq(FsStep) /\ Len(t) = Len(s) - 1 /\ \A n \in 1 .. Len(t) : t[n] = s[n + 1]
  BY <1>4 DEF After0
<1>6. Shape(t) /\ ~Moving(t) /\ RetShape(t, i) /\ ~RetLocked(t)
  BY <1>2, <1>5, Walk0
<1>7. Balance0(s, q, t, i, 0, 0, 0)
  <2>1. ASSUME NEW j \in Inum
        PROVE  /\ Eq(i, j) = Refs(s[1], j) + Eq(q, j) + Eq(0, j)
               /\ RetLock(t, i, j) + Eq(0, j) = Locks(s[1], j) + RetLock(s, q, j) + Eq(0, j)
    <3>1. RetLock(s, q, j) = 0 /\ Eq(q, j) = 0 /\ Refs(s[1], j) = Eq(i, j) /\ Locks(s[1], j) = 0
      BY <1>1, WalkAt
    <3>2. Eq(0, j) = 0 /\ Eq(i, j) \in Nat
      BY EqZero, EqNat
    <3>3. RetLock(t, i, j) = 0
      BY <1>6 DEF RetLock
    <3> QED
      BY <3>1, <3>2, <3>3
  <2> QED
    BY <2>1 DEF Balance0
<1> QED
  BY <1>1, <1>2, <1>4, <1>6, <1>7, Granted0

\* The walk goes on from the next inode.
LEMMA WalkOn ==
  ASSUME FsCore, NEW p \in Proc, At(p, "walk"), NEW s, s = todo[p], NEW i, i = s[1][2],
         NEW e \in Inum, NEW g, panic' = "no" => Grants(p, g, e, 0, 0),
         itable' = g.it, dinode' = g.di, bitmap' = g.used, panic' = g.panic,
         NEW a \in FsStep, a[1] = "put", a[2] = i, NEW b \in FsStep, b[1] = "walk", b[2] = e,
         Go(p, <<a, b>>, 0), UNCHANGED <<file, cwd>>
  PROVE  FsCore' \/ Stuck'
<1>1. PICK q : q = ret[p]
  OBVIOUS
<1>2. /\ FsType /\ s \in Seq(FsStep) /\ s # <<>> /\ Len(s) \in 1 .. 4 /\ Len(s) \in 1 .. 3 /\ Shape(s)
      /\ s[1][1] = "walk" /\ i \in Inum /\ ~Moving(s)
  BY <1>1, WalkAt
<1>3. 0 \in 0 .. NInodes
  BY Sizes
<1>4. PICK t : After2(p, s, t, a, b, 0)
  BY <1>2, <1>3, Go2
<1>5. /\ t \in Seq(FsStep) /\ Turn(p, t, 0) /\ Len(t) = Len(s) + 1 /\ t[1] = a /\ t[2] = b
      /\ \A n \in 3 .. Len(t) : t[n] = s[n - 1]
  BY <1>4 DEF After2
<1>6. CASE panic' # "no"
  <2>1. Len(t) # 0
    BY <1>2, <1>5
  <2> QED
    BY <1>5, <1>6, <2>1, Sticks
<1>7. CASE panic' = "no"
  <2>1. t[1][1] = "put" /\ t[2][1] = "walk"
    BY <1>5
  <2>2. Shape(t) /\ ~Moving(t) /\ RetShape(t, 0)
    BY <1>2, <1>5, <2>1, Walk2 DEF RetShape
  <2>3. Balance2(s, q, a, b, t, 0, e, 0, 0)
    <3>1. ASSUME NEW j \in Inum
          PROVE  /\ Refs(a, j) + Refs(b, j) + Eq(0, j) = Refs(s[1], j) + Eq(q, j) + Eq(e, j)
                 /\ Locks(a, j) + Locks(b, j) + RetLock(t, 0, j) + Eq(0, j)
                      = Locks(s[1], j) + RetLock(s, q, j) + Eq(0, j)
      <4>1. Refs(a, j) = Eq(i, j) /\ Locks(a, j) = 0 /\ Refs(b, j) = Eq(e, j) /\ Locks(b, j) = 0
        BY WeightsOf
      <4>2. RetLock(s, q, j) = 0 /\ Eq(q, j) = 0 /\ Refs(s[1], j) = Eq(i, j) /\ Locks(s[1], j) = 0
        BY <1>1, WalkAt
      <4>3. Eq(0, j) = 0 /\ RetLock(t, 0, j) = 0 /\ Eq(i, j) \in Nat /\ Eq(e, j) \in Nat
        <5>1. j # 0
          BY DEF Inum
        <5> QED
          BY <5>1, EqNat DEF Eq, RetLock
      <4> QED
        BY <4>1, <4>2, <4>3
    <3> QED
      BY <3>1 DEF Balance2
  <2>4. Grants(p, g, e, 0, 0)
    BY <1>7
  <2>5. FsCore'
    BY <1>1, <1>2, <1>4, <2>2, <2>3, <2>4, Granted2
  <2> QED
    BY <2>5
<1> QED
  BY <1>6, <1>7

LEMMA WalkEndGoes ==
  ASSUME FsCore, NEW p \in Proc, WalkEnd(p)
  PROVE  FsCore'
<1>1. PICK s, q, i : s = todo[p] /\ q = ret[p] /\ i = s[1][2]
  OBVIOUS
<1>2. At(p, "walk") /\ UNCHANGED <<file, cwd>>
  BY DEF WalkEnd
<1>3. Arg(p, 1) = i /\ Grants(p, State, 0, 0, 0)
  BY <1>1, <1>2, WalkAt
<1>4. Go(p, <<<<"put", i>>>>, 0) \/ Go(p, <<>>, i)
  BY <1>3 DEF WalkEnd
<1>5. itable' = State.it /\ dinode' = State.di /\ bitmap' = State.used /\ panic' = State.panic
  BY DEF WalkEnd, fsvars, State
<1> QED
  BY <1>1, <1>2, <1>3, <1>4, <1>5, WalkFails, WalkFinds

LEMMA WalkGoes ==
  ASSUME FsCore, NEW p \in Proc, Walk(p)
  PROVE  FsCore' \/ Stuck'
<1>1. PICK s, q, i : s = todo[p] /\ q = ret[p] /\ i = s[1][2]
  OBVIOUS
<1>2. At(p, "walk") /\ UNCHANGED <<file, cwd>>
  BY DEF Walk
<1>3. /\ s \in Seq(FsStep) /\ i \in Inum /\ itable[i].ref >= 1 /\ s[1][3] \in Seq(Word) /\ s[1][4] \in BOOLEAN
      /\ Arg(p, 1) = i /\ Arg(p, 2) = s[1][3] /\ Arg(p, 3) = s[1][4]
  BY <1>1, <1>2, WalkAt
<1>4. itable[i].lock = None /\ s[1][3] # <<>>
  BY <1>3 DEF Walk, Unlocked
<1>5. PICK f, g, k : /\ f = Ilock(State, p, i) /\ g = Iunlock(f, p, i)
                     /\ k = Dirlookup(f, i, Head(s[1][3]))
  OBVIOUS
<1>6. Grants(p, f, 0, i, 0) /\ Grants(p, g, 0, 0, 0) /\ f \in FsState
  <2>1. Grants(p, f, 0, i, 0)
    BY <1>3, <1>4, <1>5, GrantsLock
  <2>2. Grants(p, g, 0, 0, 0)
    BY <1>3, <1>5, <2>1, GrantsUnlock
  <2> QED
    BY <2>1, <2>2 DEF Grants
<1>7. PICK e, h : e = Entry(f, i, k) /\ h = Iget(f, e)
  OBVIOUS
<1>8. PICK w, b : w = Tail(s[1][3]) /\ b = <<"walk", e, w, s[1][4]>>
  OBVIOUS
<1>9. \/ Become(g) /\ Go(p, <<>>, i)
      \/ Become(g) /\ Go(p, <<<<"put", i>>>>, 0)
      \/ k # 0 /\ Become(Iunlock(h, p, i)) /\ Go(p, <<<<"put", i>>, b>>, 0)
  BY <1>3, <1>5, <1>7, <1>8 DEF Walk
<1>10. CASE Become(g) /\ Go(p, <<>>, i)
  <2>1. itable' = g.it /\ dinode' = g.di /\ bitmap' = g.used /\ panic' = g.panic
    BY <1>10, BecomeIs
  <2>2. FsCore'
    BY <1>1, <1>2, <1>6, <1>10, <2>1, WalkFinds
  <2> QED
    BY <2>2
<1>11. CASE Become(g) /\ Go(p, <<<<"put", i>>>>, 0)
  <2>1. itable' = g.it /\ dinode' = g.di /\ bitmap' = g.used /\ panic' = g.panic
    BY <1>11, BecomeIs
  <2>2. FsCore'
    BY <1>1, <1>2, <1>6, <1>11, <2>1, WalkFails
  <2> QED
    BY <2>2
<1>12. CASE k # 0 /\ Become(Iunlock(h, p, i)) /\ Go(p, <<<<"put", i>>, b>>, 0)
  <2>1. PICK g1, a : g1 = Iunlock(h, p, i) /\ a = <<"put", i>>
    OBVIOUS
  <2>2. itable' = g1.it /\ dinode' = g1.di /\ bitmap' = g1.used /\ panic' = g1.panic
    BY <1>12, <2>1, BecomeIs
  <2>3. e \in Inum
    <3>1. PICK name : name = Head(s[1][3])
      OBVIOUS
    <3>2. k = Dirlookup(f, i, name) /\ k # 0
      BY <1>5, <1>12, <3>1
    <3> QED
      BY <1>3, <1>6, <1>7, <3>2, DirlookupIs
  <2>4. panic' = "no" => Grants(p, g1, e, 0, 0)
    <3>1. h \in FsState
      BY <1>6, <1>7, <2>3, GetTyped
    <3>2. ASSUME panic' = "no" PROVE Grants(p, g1, e, 0, 0)
      <4>1. g1.panic = "no"
        BY <2>2, <3>2
      <4>2. h.panic = "no"
        BY <1>3, <2>1, <3>1, <4>1, IunlockIs
      <4>3. Grants(p, h, e, i, 0)
        BY <1>6, <1>7, <2>3, <4>2, GrantsGet
      <4> QED
        BY <1>3, <2>1, <4>3, GrantsUnlock
    <3> QED
      BY <3>2
  <2>5. a \in FsStep /\ a[1] = "put" /\ a[2] = i
    BY <1>3, <2>1, StepsAre DEF Putting
  <2>6. b \in FsStep /\ b[1] = "walk" /\ b[2] = e
    <3>1. PICK l : l = s[1][3]
      OBVIOUS
    <3>2. l \in Seq(Word) /\ l # <<>> /\ w = Tail(l)
      BY <1>3, <1>4, <1>8, <3>1
    <3>3. w \in Seq(Word)
      BY <3>2, HeadTailProperties
    <3>4. PICK m \in BOOLEAN : m = s[1][4]
      BY <1>3
    <3>5. b = <<"walk", e, w, m>>
      BY <1>8, <3>4
    <3> QED
      BY <2>3, <3>3, <3>5, StepsAre
  <2>7. Go(p, <<a, b>>, 0)
    BY <1>12, <2>1
  <2> QED
    BY <1>1, <1>2, <2>2, <2>3, <2>4, <2>5, <2>6, <2>7, WalkOn
<1> QED
  BY <1>9, <1>10, <1>11, <1>12

----------------------------------------------------------------------------
(***************************************************************************)
(* The calls                                                               *)
(***************************************************************************)
LEMMA ConcatTwo ==
  ASSUME NEW x, NEW y
  PROVE  <<x>> \o <<y>> = <<x, y>>
<1>1. PICK S : x \in S /\ y \in S
  <2>1. x \in {x, y} /\ y \in {x, y}
    OBVIOUS
  <2> QED
    BY <2>1
<1>2. PICK u, v, w : u = <<x>> /\ v = <<y>> /\ w = <<x, y>>
  OBVIOUS
<1>3. /\ u \in Seq(S) /\ v \in Seq(S) /\ w \in Seq(S) /\ Len(u) = 1 /\ Len(v) = 1 /\ Len(w) = 2
      /\ u[1] = x /\ v[1] = y /\ w[1] = x /\ w[2] = y
  BY <1>1, <1>2
<1>4. PICK z : z = u \o v
  OBVIOUS
<1>5. /\ z \in Seq(S) /\ Len(z) = Len(u) + Len(v)
      /\ \A i \in 1 .. Len(u) + Len(v) : z[i] = IF i <= Len(u) THEN u[i] ELSE v[i - Len(u)]
  BY <1>3, <1>4, ConcatProperties
<1>6. Len(z) = 2 /\ z[1] = x /\ z[2] = y
  BY <1>3, <1>5
<1>7. ASSUME NEW i \in 1 .. 2 PROVE z[i] = w[i]
  <2>1. i = 1 \/ i = 2
    OBVIOUS
  <2> QED
    BY <1>3, <1>6, <2>1
<1>8. z = w
  BY <1>3, <1>5, <1>6, <1>7, SeqEqual
<1> QED
  BY <1>2, <1>4, <1>8

LEMMA ConcatThree ==
  ASSUME NEW x, NEW y, NEW z
  PROVE  <<x>> \o <<y, z>> = <<x, y, z>>
<1>1. PICK S : x \in S /\ y \in S /\ z \in S
  <2>1. x \in {x, y, z} /\ y \in {x, y, z} /\ z \in {x, y, z}
    OBVIOUS
  <2> QED
    BY <2>1
<1>2. PICK u, v, w : u = <<x>> /\ v = <<y, z>> /\ w = <<x, y, z>>
  OBVIOUS
<1>3. /\ u \in Seq(S) /\ v \in Seq(S) /\ w \in Seq(S) /\ Len(u) = 1 /\ Len(v) = 2 /\ Len(w) = 3
      /\ u[1] = x /\ v[1] = y /\ v[2] = z /\ w[1] = x /\ w[2] = y /\ w[3] = z
  BY <1>1, <1>2
<1>4. PICK c : c = u \o v
  OBVIOUS
<1>5. /\ c \in Seq(S) /\ Len(c) = Len(u) + Len(v)
      /\ \A i \in 1 .. Len(u) + Len(v) : c[i] = IF i <= Len(u) THEN u[i] ELSE v[i - Len(u)]
  BY <1>3, <1>4, ConcatProperties
<1>6. Len(c) = 3 /\ c[1] = x /\ c[2] = y /\ c[3] = z
  BY <1>3, <1>5
<1>7. ASSUME NEW i \in 1 .. 3 PROVE c[i] = w[i]
  <2>1. i = 1 \/ i = 2 \/ i = 3
    OBVIOUS
  <2> QED
    BY <1>3, <1>6, <2>1
<1>8. c = w
  BY <1>3, <1>5, <1>6, <1>7, SeqEqual
<1> QED
  BY <1>2, <1>4, <1>8

SetTodo(p, t) == todo' = [todo EXCEPT ![p] = t]

\* What a process that is in no call holds.
LEMMA IdleIs ==
  ASSUME FsCore, NEW p \in Proc, Idle(p), NEW s, s = todo[p], NEW q, q = ret[p]
  PROVE  /\ FsType /\ s \in Seq(FsStep) /\ Len(s) = 0 /\ q = 0 /\ ~Moving(s) /\ Shape(s) /\ RetShape(s, q)
         /\ State \in FsState /\ Grants(p, State, 0, 0, 0)
         /\ \A j \in Inum : /\ TodoRefs(s, j) = 0 /\ TodoLocks(s, j) = 0 /\ Eq(q, j) = 0 /\ RetLock(s, q, j) = 0
                            /\ Uses(s, q, j) = 0 /\ Obliged(s, q, j) = 0
<1>1. FsType /\ s \in Seq(FsStep) /\ s = <<>> /\ Shape(s) /\ RetShape(s, q)
  BY DEF Idle, FsCore, FsType, Shapes
<1>2. Len(s) = 0
  BY <1>1, EmptyIs
<1>3. q = 0
  BY <1>1, RetNone
<1>4. ~Moving(s)
  BY <1>1, <1>2, MovingNot
<1>5. State \in FsState /\ Grants(p, State, 0, 0, 0)
  BY <1>1, StateType, GrantsNone
<1>6. ASSUME NEW j \in Inum
      PROVE  /\ TodoRefs(s, j) = 0 /\ TodoLocks(s, j) = 0 /\ Eq(q, j) = 0 /\ RetLock(s, q, j) = 0
             /\ Uses(s, q, j) = 0 /\ Obliged(s, q, j) = 0
  <2>1. TodoRefs(s, j) = 0 /\ TodoLocks(s, j) = 0
    BY <1>2 DEF TodoRefs, TodoLocks, RefsAt, LocksAt
  <2>2. q # j
    BY <1>3 DEF Inum
  <2>3. Eq(q, j) = 0 /\ RetLock(s, q, j) = 0
    BY <2>2 DEF Eq, RetLock
  <2> QED
    BY <2>1, <2>3 DEF Uses, Obliged
<1> QED
  BY <1>1, <1>2, <1>3, <1>4, <1>5, <1>6

\* What two or three steps hold.
LEMMA FewWeights ==
  ASSUME NEW t, Len(t) \in 2 .. 3, NEW i
  PROVE  /\ TodoRefs(t, i) = Refs(t[1], i) + Refs(t[2], i) + (IF Len(t) = 3 THEN Refs(t[3], i) ELSE 0)
         /\ TodoLocks(t, i) = Locks(t[1], i) + Locks(t[2], i) + (IF Len(t) = 3 THEN Locks(t[3], i) ELSE 0)
<1>1. PICK x1, x2, x3, y1, y2, y3 \in Nat :
        /\ x1 = Refs(t[1], i) /\ x2 = Refs(t[2], i) /\ x3 = Refs(t[3], i)
        /\ y1 = Locks(t[1], i) /\ y2 = Locks(t[2], i) /\ y3 = Locks(t[3], i)
  BY Weights
<1>2. CASE Len(t) = 2
  <2>1. /\ RefsAt(t, 1, i) = x1 /\ RefsAt(t, 2, i) = x2 /\ RefsAt(t, 3, i) = 0 /\ RefsAt(t, 4, i) = 0
        /\ LocksAt(t, 1, i) = y1 /\ LocksAt(t, 2, i) = y2 /\ LocksAt(t, 3, i) = 0 /\ LocksAt(t, 4, i) = 0
    BY <1>1, <1>2 DEF RefsAt, LocksAt
  <2> QED
    BY <1>1, <1>2, <2>1 DEF TodoRefs, TodoLocks
<1>3. CASE Len(t) = 3
  <2>1. /\ RefsAt(t, 1, i) = x1 /\ RefsAt(t, 2, i) = x2 /\ RefsAt(t, 3, i) = x3 /\ RefsAt(t, 4, i) = 0
        /\ LocksAt(t, 1, i) = y1 /\ LocksAt(t, 2, i) = y2 /\ LocksAt(t, 3, i) = y3 /\ LocksAt(t, 4, i) = 0
    BY <1>1, <1>3 DEF RefsAt, LocksAt
  <2> QED
    BY <1>1, <1>3, <2>1 DEF TodoRefs, TodoLocks
<1> QED
  BY <1>2, <1>3

\* begin_op() and the first reference of namex().
LEMMA Begins ==
  ASSUME FsCore, NEW p \in Proc, Idle(p), NEW e \in Inum, Become(Iget(State, e)),
         NEW t \in Seq(FsStep), SetTodo(p, t), UNCHANGED <<file, cwd, ret>>,
         WalkFrom(t, 1), t[1][2] = e, Len(t) \in 2 .. 3,
         t[2][1] \in {"create", "open", "link", "unlink", "chdir"},
         Len(t) = 3 => t[3][1] \in {"made", "open"}
  PROVE  FsCore' \/ Stuck'
<1>1. PICK s, q : s = todo[p] /\ q = ret[p]
  OBVIOUS
<1>2. /\ FsType /\ Len(s) = 0 /\ q = 0 /\ ~Moving(s) /\ State \in FsState /\ Grants(p, State, 0, 0, 0)
  BY <1>1, IdleIs
<1>3. PICK g : g = Iget(State, e)
  OBVIOUS
<1>4. itable' = g.it /\ dinode' = g.di /\ bitmap' = g.used /\ panic' = g.panic
  BY <1>3, BecomeIs
<1>5. Turn(p, t, 0)
  BY <1>1, <1>2 DEF Turn, SetTodo, FsType
<1>6. CASE panic' # "no"
  <2>1. Len(t) # 0
    OBVIOUS
  <2> QED
    BY <1>5, <1>6, <2>1, Sticks
<1>7. CASE panic' = "no"
  <2>1. Grants(p, g, e, 0, 0)
    BY <1>2, <1>3, <1>4, <1>7, GrantsGet
  <2>2. Shape(t) /\ RetShape(t, 0)
    BY ShapeOf DEF RetShape
  <2>3. Len(t) \in 1 .. 4 /\ t[1][1] = "walk"
    BY DEF WalkFrom
  <2>4. ~Moving(t)
    BY <2>2, <2>3, WalkIs
  <2>5. ASSUME NEW j \in Inum
        PROVE  /\ Uses(t, 0, j) = Uses(s, q, j) + Eq(e, j)
               /\ Obliged(t, 0, j) + Eq(0, j) = Obliged(s, q, j) + Eq(0, j)
    <3>1. Refs(t[1], j) = Eq(e, j) /\ Locks(t[1], j) = 0 /\ Refs(t[2], j) = 0 /\ Locks(t[2], j) = 0
      BY <2>3, WeightsOf
    <3>2. Len(t) = 3 => Refs(t[3], j) = 0 /\ Locks(t[3], j) = 0
      BY WeightsOf
    <3>3. PICK n \in Nat : n = Eq(e, j)
      BY EqNat
    <3>4. TodoRefs(t, j) = n + 0 + 0 /\ TodoLocks(t, j) = 0 + 0 + 0
      BY <3>1, <3>2, <3>3, FewWeights
    <3>5. Eq(0, j) = 0 /\ RetLock(t, 0, j) = 0
      <4>1. j # 0
        BY DEF Inum
      <4> QED
        BY <4>1 DEF Eq, RetLock
    <3>6. Uses(t, 0, j) = n /\ Obliged(t, 0, j) = 0
      BY <3>3, <3>4, <3>5 DEF Uses, Obliged
    <3>7. Uses(s, q, j) = 0 /\ Obliged(s, q, j) = 0
      BY <1>1, IdleIs
    <3> QED
      BY <3>3, <3>5, <3>6, <3>7
  <2>6. \A j \in Inum : /\ Uses(t, 0, j) = Uses(s, q, j) + Eq(e, j)
                        /\ Obliged(t, 0, j) + Eq(0, j) = Obliged(s, q, j) + Eq(0, j)
    BY <2>5
  <2>7. Moving(t) <=> Moving(s)
    BY <1>2, <2>4
  <2>8. FsCore'
    BY <1>1, <1>4, <1>5, <2>1, <2>2, <2>6, <2>7, Granted
  <2> QED
    BY <2>8
<1> QED
  BY <1>6, <1>7

\* A call with one step after namex().
LEMMA BeginsOne ==
  ASSUME FsCore, NEW p \in Proc, Idle(p), NEW path \in WPath, NEW parent \in BOOLEAN,
         NEW x \in FsStep, x[1] \in {"open", "link", "unlink", "chdir"}, ~Returns(x),
         Begin(p, path, parent, <<x>>)
  PROVE  FsCore' \/ Stuck'
<1>1. PICK e, w, t : e = Start(p, path) /\ w = <<"walk", e, path.elems, parent>> /\ t = <<w, x>>
  OBVIOUS
<1>2. e \in Inum /\ path.elems \in Seq(Word)
  BY <1>1, StartIs
<1>3. w \in FsStep /\ w[1] = "walk" /\ w[2] = e
  BY <1>1, <1>2, StepsAre
<1>4. t \in Seq(FsStep) /\ Len(t) = 2 /\ t[1] = w /\ t[2] = x
  BY <1>1, <1>3
<1>5. WalkFrom(t, 1)
  <2>1. MainFrom(t, 1 + 1) /\ ~Returns(t[1 + 1])
    BY <1>4 DEF MainFrom
  <2> QED
    BY <1>3, <1>4, <2>1 DEF WalkFrom
<1>6. SetTodo(p, t)
  <2>1. Namex(p, path, parent) \o <<x>> = t
    BY <1>1, ConcatTwo DEF Namex
  <2> QED
    BY <2>1 DEF Begin, SetTodo
<1>7. Become(Iget(State, e)) /\ UNCHANGED <<file, cwd, ret>>
  BY <1>1 DEF Begin
<1>8. t[1][2] = e /\ Len(t) \in 2 .. 3 /\ t[2][1] \in {"create", "open", "link", "unlink", "chdir"}
  BY <1>3, <1>4
<1>9. Len(t) = 3 => t[3][1] \in {"made", "open"}
  <2>1. Len(t) # 3
    BY <1>4
  <2> QED
    BY <2>1
<1> QED
  BY <1>2, <1>4, <1>5, <1>6, <1>7, <1>8, <1>9, Begins

\* A call of create().
LEMMA BeginsCreate ==
  ASSUME FsCore, NEW p \in Proc, Idle(p), NEW path \in WPath, NEW parent \in BOOLEAN,
         NEW x \in FsStep, x[1] = "create", NEW y \in FsStep, Returns(y),
         Begin(p, path, parent, <<x, y>>)
  PROVE  FsCore' \/ Stuck'
<1>1. PICK e, w, t : e = Start(p, path) /\ w = <<"walk", e, path.elems, parent>> /\ t = <<w, x, y>>
  OBVIOUS
<1>2. e \in Inum /\ path.elems \in Seq(Word)
  BY <1>1, StartIs
<1>3. w \in FsStep /\ w[1] = "walk" /\ w[2] = e
  BY <1>1, <1>2, StepsAre
<1>4. t \in Seq(FsStep) /\ Len(t) = 3 /\ t[1] = w /\ t[2] = x /\ t[3] = y
  BY <1>1, <1>3
<1>5. WalkFrom(t, 1)
  <2>1. MainFrom(t, 1 + 1) /\ ~Returns(t[1 + 1])
    BY <1>4 DEF MainFrom, Returns
  <2> QED
    BY <1>3, <1>4, <2>1 DEF WalkFrom
<1>6. SetTodo(p, t)
  <2>1. Namex(p, path, parent) \o <<x, y>> = t
    BY <1>1, ConcatThree DEF Namex
  <2> QED
    BY <2>1 DEF Begin, SetTodo
<1>7. Become(Iget(State, e)) /\ UNCHANGED <<file, cwd, ret>>
  BY <1>1 DEF Begin
<1>8. t[1][2] = e /\ Len(t) \in 2 .. 3 /\ t[2][1] \in {"create", "open", "link", "unlink", "chdir"}
  BY <1>3, <1>4
<1>9. Len(t) = 3 => t[3][1] \in {"made", "open"}
  <2>1. y[1] \in {"made", "open"}
    BY ReturnsKind
  <2>2. t[3] = y
    BY <1>4
  <2> QED
    BY <2>1, <2>2
<1> QED
  BY <1>2, <1>4, <1>5, <1>6, <1>7, <1>8, <1>9, Begins

LEMMA CallIs ==
  ASSUME NEW c \in Syscall
  PROVE  /\ c.path \in WPath
         /\ c.op = "open" => c.mode \in Mode
         /\ c.op = "make" => c.type \in Types
         /\ c.op = "link" => c.new \in WPath
<1>1. ASSUME NEW e \in Seq(STRING) PROVE e \in Seq(Word)
  <2>1. PICK S, T : S = STRING /\ T = Word
    OBVIOUS
  <2>2. S \subseteq T
    BY <2>1 DEF Word
  <2>3. e \in Seq(S) /\ Len(e) \in Nat /\ e \in [1 .. Len(e) -> S]
    BY <2>1, LenProperties
  <2>4. e \in [1 .. Len(e) -> T]
    BY <2>2, <2>3
  <2>5. e \in Seq(T)
    BY <2>3, <2>4, SeqDef
  <2> QED
    BY <2>1, <2>5
<1>2. \A x \in Path : x \in WPath
  BY <1>1 DEF Path, WPath
<1>3. c.type \in {"T_DIR", "T_DEVICE"} => c.type \in Types
  BY DEF Types
<1> QED
  BY <1>2, <1>3, SyscallAssumption

LEMMA SysOpenGoes ==
  ASSUME FsCore, NEW p \in Proc, SysOpen(p)
  PROVE  FsCore' \/ Stuck'
<1>1. Idle(p)
  BY DEF SysOpen
<1>2. PICK c \in Syscall :
        /\ c.op = "open"
        /\ Begin(p, c.path, c.mode.create,
                 (IF c.mode.create THEN <<<<"create", LastElem(c.path), "T_FILE">>>>
                  ELSE <<>>) \o <<<<"open", c.mode>>>>)
  BY DEF SysOpen
<1>3. PICK path, m : path = c.path /\ m = c.mode
  OBVIOUS
<1>4. path \in WPath /\ m \in Mode
  BY <1>2, <1>3, CallIs
<1>5. m.create \in BOOLEAN
  BY <1>4 DEF Mode
<1>6. PICK y : y = <<"open", m>>
  OBVIOUS
<1>7. y \in FsStep /\ y[1] = "open" /\ y[2] = m
  BY <1>4, <1>6, StepsAre
<1>8. CASE m.create
  <2>1. PICK w : w = LastElem(path)
    OBVIOUS
  <2>2. w \in Word
    BY <1>4, <2>1, StartIs
  <2>3. PICK ty \in Types : ty = "T_FILE"
    BY DEF Types
  <2>4. PICK x : x = <<"create", w, ty>>
    OBVIOUS
  <2>5. x \in FsStep /\ x[1] = "create"
    BY <2>2, <2>4, StepsAre
  <2>6. Returns(y)
    BY <1>7, <1>8 DEF Returns
  <2>7. <<x>> \o <<y>> = <<x, y>>
    BY ConcatTwo
  <2>8. PICK b \in BOOLEAN : b = m.create
    BY <1>5
  <2>9. Begin(p, path, b, <<x, y>>)
    BY <1>2, <1>3, <1>6, <1>8, <2>1, <2>3, <2>4, <2>7, <2>8
  <2> QED
    BY <1>1, <1>4, <1>7, <2>5, <2>6, <2>9, BeginsCreate
<1>9. CASE ~m.create
  <2>1. <<y>> \in Seq(FsStep)
    BY <1>7
  <2>2. <<>> \o <<y>> = <<y>>
    BY <2>1, ConcatEmptySeq
  <2>3. ~Returns(y)
    BY <1>7, <1>9 DEF Returns
  <2>4. PICK b \in BOOLEAN : b = m.create
    BY <1>5
  <2>5. Begin(p, path, b, <<y>>)
    BY <1>2, <1>3, <1>6, <1>9, <2>2, <2>4
  <2>6. y[1] \in {"open", "link", "unlink", "chdir"}
    BY <1>7
  <2> QED
    BY <1>1, <1>4, <1>7, <2>3, <2>5, <2>6, BeginsOne
<1> QED
  BY <1>8, <1>9

LEMMA SysMakeGoes ==
  ASSUME FsCore, NEW p \in Proc, SysMake(p)
  PROVE  FsCore' \/ Stuck'
<1>1. Idle(p)
  BY DEF SysMake
<1>2. PICK c \in Syscall :
        /\ c.op = "make"
        /\ Begin(p, c.path, TRUE, <<<<"create", LastElem(c.path), c.type>>, <<"made">>>>)
  BY DEF SysMake
<1>3. PICK path, w, ty : path = c.path /\ w = LastElem(path) /\ ty = c.type
  OBVIOUS
<1>4. path \in WPath /\ ty \in Types
  BY <1>2, <1>3, CallIs
<1>5. w \in Word
  BY <1>3, <1>4, StartIs
<1>6. PICK x, y : x = <<"create", w, ty>> /\ y = <<"made">>
  OBVIOUS
<1>7. x \in FsStep /\ x[1] = "create"
  BY <1>4, <1>5, <1>6, StepsAre
<1>8. y \in FsStep /\ Returns(y)
  BY <1>6, StepsAre DEF Returns
<1>9. PICK b \in BOOLEAN : b = TRUE
  OBVIOUS
<1>10. Begin(p, path, b, <<x, y>>)
  BY <1>2, <1>3, <1>6, <1>9
<1> QED
  BY <1>1, <1>4, <1>7, <1>8, <1>10, BeginsCreate

\* The calls that look a path up and then take one step.
LEMMA SysOneGoes ==
  ASSUME FsCore, NEW p \in Proc, SysLink(p) \/ SysUnlink(p) \/ SysChdir(p)
  PROVE  FsCore' \/ Stuck'
<1>1. Idle(p)
  BY DEF SysLink, SysUnlink, SysChdir
<1>2. PICK b1 \in BOOLEAN, b0 \in BOOLEAN : b1 = TRUE /\ b0 = FALSE
  OBVIOUS
<1>3. CASE SysLink(p)
  <2>1. PICK c \in Syscall : c.op = "link" /\ Begin(p, c.path, FALSE, <<<<"link", c.new>>>>)
    BY <1>3 DEF SysLink
  <2>2. PICK path, new, x : path = c.path /\ new = c.new /\ x = <<"link", new>>
    OBVIOUS
  <2>3. path \in WPath /\ new \in WPath
    BY <2>1, <2>2, CallIs
  <2>4. x \in FsStep /\ x[1] = "link"
    BY <2>2, <2>3, StepsAre
  <2>5. ~Returns(x) /\ x[1] \in {"open", "link", "unlink", "chdir"}
    BY <2>4 DEF Returns
  <2>6. Begin(p, path, b0, <<x>>)
    BY <1>2, <2>1, <2>2
  <2> QED
    BY <1>1, <1>2, <2>3, <2>4, <2>5, <2>6, BeginsOne
<1>4. CASE SysUnlink(p)
  <2>1. PICK c \in Syscall : c.op = "unlink" /\ Begin(p, c.path, TRUE, <<<<"unlink", LastElem(c.path)>>>>)
    BY <1>4 DEF SysUnlink
  <2>2. PICK path, w, x : path = c.path /\ w = LastElem(path) /\ x = <<"unlink", w>>
    OBVIOUS
  <2>3. path \in WPath
    BY <2>1, <2>2, CallIs
  <2>4. w \in Word
    BY <2>2, <2>3, StartIs
  <2>5. x \in FsStep /\ x[1] = "unlink"
    BY <2>2, <2>4, StepsAre
  <2>6. ~Returns(x) /\ x[1] \in {"open", "link", "unlink", "chdir"}
    BY <2>5 DEF Returns
  <2>7. Begin(p, path, b1, <<x>>)
    BY <1>2, <2>1, <2>2
  <2> QED
    BY <1>1, <1>2, <2>3, <2>5, <2>6, <2>7, BeginsOne
<1>5. CASE SysChdir(p)
  <2>1. PICK c \in Syscall : c.op = "chdir" /\ Begin(p, c.path, FALSE, <<<<"chdir">>>>)
    BY <1>5 DEF SysChdir
  <2>2. PICK path, x : path = c.path /\ x = <<"chdir">>
    OBVIOUS
  <2>3. path \in WPath
    BY <2>1, <2>2, CallIs
  <2>4. x \in FsStep /\ x[1] = "chdir"
    BY <2>2, StepsAre
  <2>5. ~Returns(x) /\ x[1] \in {"open", "link", "unlink", "chdir"}
    BY <2>4 DEF Returns
  <2>6. Begin(p, path, b0, <<x>>)
    BY <1>2, <2>1, <2>2
  <2> QED
    BY <1>1, <1>2, <2>3, <2>4, <2>5, <2>6, BeginsOne
<1> QED
  BY <1>3, <1>4, <1>5

LEMMA OpenIs ==
  ASSUME FsType, NEW p \in Proc, file[p] # None
  PROVE  file[p] \in OpenFile /\ file[p].ip \in Inum /\ file[p].off \in Nat /\ file[p].writable \in BOOLEAN
<1>1. file[p] \in OpenFile
  BY DEF FsType
<1> QED
  BY <1>1 DEF OpenFile

LEMMA CloseGoes ==
  ASSUME FsCore, NEW p \in Proc, Close(p)
  PROVE  FsCore'
<1>1. PICK s, q, x : s = todo[p] /\ q = ret[p] /\ x = file[p]
  OBVIOUS
<1>2. /\ Idle(p) /\ x # None /\ file' = [file EXCEPT ![p] = None]
      /\ todo' = [todo EXCEPT ![p] = <<<<"put", x.ip>>>>] /\ UNCHANGED <<fsvars, cwd, ret>>
  BY <1>1 DEF Close
<1>3. /\ FsType /\ q = 0 /\ ~Moving(s) /\ State \in FsState /\ Grants(p, State, 0, 0, 0)
  BY <1>1, <1>2, IdleIs
<1>4. PICK i : i = x.ip
  OBVIOUS
<1>5. i \in Inum
  BY <1>1, <1>2, <1>3, <1>4, OpenIs
<1>6. PICK a, t : a = <<"put", i>> /\ t = <<a>>
  OBVIOUS
<1>7. a \in FsStep /\ a[1] = "put" /\ a[2] = i
  BY <1>5, <1>6, StepsAre DEF Putting
<1>8. t \in Seq(FsStep) /\ Len(t) = 1 /\ t[1] = a
  BY <1>6, <1>7
<1>9. Turn(p, t, 0)
  BY <1>1, <1>2, <1>3, <1>4, <1>6, <1>8 DEF Turn, FsType
<1>10. Shape(t) /\ RetShape(t, 0)
  <2>1. EndFrom(t, 2) /\ t[1][1] = "put"
    BY <1>7, <1>8 DEF EndFrom
  <2> QED
    BY <1>8, <2>1, ShapeOf DEF RetShape
<1>11. ~Moving(t)
  <2>1. Len(t) \in 1 .. 4 /\ t[Len(t)][1] # "setcwd"
    BY <1>7, <1>8
  <2> QED
    BY <1>8, <2>1, MovingNot
<1>12. Others(p, State) /\ file'[p] = None /\ cwd'[p] = cwd[p]
  BY <1>2, <1>3 DEF Others, FsType, fsvars, State
<1>13. PICK c, y : c = cwd[p] /\ y = None
  OBVIOUS
<1>14. Trade(s, q, t, 0, c, c, x, y, 0, 0, 0)
  <2>1. ASSUME NEW j \in Inum
        PROVE  /\ Uses(t, 0, j) - Uses(s, q, j) \in {-1, 0, 1}
               /\ Uses(t, 0, j) + CwdAt(c, t, j) + FileAt(y, j)
                    = Uses(s, q, j) + CwdAt(c, s, j) + FileAt(x, j) + Eq(0, j)
               /\ Obliged(t, 0, j) + Eq(0, j) = Obliged(s, q, j) + Eq(0, j)
    <3>1. PICK m, n \in Nat : m = CwdAt(c, s, j) /\ n = Eq(i, j)
      BY TradeNat
    <3>2. n \in {0, 1}
      BY <3>1 DEF Eq
    <3>3. CwdAt(c, t, j) = m
      BY <1>3, <1>11, <3>1 DEF CwdAt
    <3>4. FileAt(x, j) = n /\ FileAt(y, j) = 0
      BY <1>2, <1>4, <1>13, <3>1 DEF FileAt, Eq
    <3>5. Uses(s, q, j) = 0 /\ Obliged(s, q, j) = 0
      BY <1>1, <1>2, IdleIs
    <3>6. TodoRefs(t, j) = n /\ TodoLocks(t, j) = 0
      <4>1. Refs(t[1], j) = n /\ Locks(t[1], j) = 0
        BY <1>7, <1>8, <3>1, WeightsOf
      <4>2. Len(t) \in 1 .. 4
        BY <1>8
      <4> QED
        BY <1>8, <4>1, <4>2, FirstWeight
    <3>7. Eq(0, j) = 0 /\ RetLock(t, 0, j) = 0
      <4>1. j # 0
        BY DEF Inum
      <4> QED
        BY <4>1 DEF Eq, RetLock
    <3>8. Uses(t, 0, j) = n /\ Obliged(t, 0, j) = 0
      BY <3>1, <3>6, <3>7 DEF Uses, Obliged
    <3>9. n - 0 \in {-1, 0, 1} /\ n + m + 0 = 0 + m + n + 0
      BY <3>1, <3>2
    <3>10. CwdAt(c, s, j) = m
      BY <3>1
    <3>11. Uses(t, 0, j) - Uses(s, q, j) \in {-1, 0, 1}
      BY <3>5, <3>8, <3>9
    <3>12. Uses(t, 0, j) + CwdAt(c, t, j) + FileAt(y, j)
             = Uses(s, q, j) + CwdAt(c, s, j) + FileAt(x, j) + Eq(0, j)
      BY <3>3, <3>4, <3>5, <3>7, <3>8, <3>9, <3>10
    <3> QED
      BY <3>5, <3>7, <3>8, <3>11, <3>12
  <2> QED
    BY <2>1 DEF Trade
<1>15. Trade(s, q, t, 0, cwd[p], cwd[p], file[p], y, 0, 0, 0)
  BY <1>1, <1>13, <1>14
<1>16. y = file'[p] /\ cwd[p] = cwd'[p]
  BY <1>12, <1>13
<1> QED
  BY <1>1, <1>3, <1>9, <1>10, <1>12, <1>15, <1>16, Traded

\* A read or write leaves the references and the locks as they were.
LEMMA FileMoves ==
  ASSUME FsCore, NEW p \in Proc, Idle(p), NEW g, Grants(p, g, 0, 0, 0), Become(g),
         NEW x \in OpenFile, file[p] # None, x.ip = file[p].ip, file'[p] = x,
         file' \in [Proc -> OpenFile \union {None}], \A r \in Proc : r # p => file'[r] = file[r],
         UNCHANGED <<cwd, todo, ret>>
  PROVE  FsCore'
<1>1. PICK s, q, c, y : s = todo[p] /\ q = ret[p] /\ c = cwd[p] /\ y = file[p]
  OBVIOUS
<1>2. FsType /\ q = 0 /\ Shape(s) /\ RetShape(s, q)
  BY <1>1, IdleIs
<1>3. itable' = g.it /\ dinode' = g.di /\ bitmap' = g.used /\ panic' = g.panic
  BY BecomeIs
<1>4. Turn(p, s, q)
  BY <1>1, <1>2 DEF Turn, FsType
<1>5. Others(p, g)
  BY <1>2, <1>3 DEF Others, FsType
<1>6. x # None
  <2>1. x \in [ip : Nat, off : Nat, writable : BOOLEAN]
    BY DEF OpenFile, Inum
  <2> QED
    BY <2>1, Sizes
<1>7. Trade(s, q, s, q, c, c, y, x, 0, 0, 0)
  <2>1. ASSUME NEW j \in Inum
        PROVE  /\ Uses(s, q, j) - Uses(s, q, j) \in {-1, 0, 1}
               /\ Uses(s, q, j) + CwdAt(c, s, j) + FileAt(x, j)
                    = Uses(s, q, j) + CwdAt(c, s, j) + FileAt(y, j) + Eq(0, j)
               /\ Obliged(s, q, j) + Eq(0, j) = Obliged(s, q, j) + Eq(0, j)
    <3>1. PICK u, m, n \in Nat : u = Uses(s, q, j) /\ m = CwdAt(c, s, j) /\ n = FileAt(x, j)
      BY TradeNat, UsesNat
    <3>2. FileAt(y, j) = n
      BY <1>1, <1>6, <3>1 DEF FileAt
    <3>3. u - u \in {-1, 0, 1}
      BY <3>1, Differ
    <3>4. u + m + n = u + m + n + 0
      BY <3>1
    <3>5. Eq(0, j) = 0
      BY EqZero
    <3>6. Uses(s, q, j) - Uses(s, q, j) \in {-1, 0, 1}
      BY <3>1, <3>3
    <3>7. Uses(s, q, j) + CwdAt(c, s, j) + FileAt(x, j)
            = Uses(s, q, j) + CwdAt(c, s, j) + FileAt(y, j) + Eq(0, j)
      BY <3>1, <3>2, <3>4, <3>5
    <3> QED
      BY <3>6, <3>7
  <2> QED
    BY <2>1 DEF Trade
<1>8. Trade(s, q, s, q, cwd[p], c, file[p], x, 0, 0, 0)
  BY <1>1, <1>7
<1>9. c = cwd'[p]
  BY <1>1
<1> QED
  BY <1>1, <1>2, <1>4, <1>5, <1>8, <1>9, Traded

\* The inode of an open file is there, and its lock is free.
LEMMA FileLock ==
  ASSUME FsCore, NEW p \in Proc, Idle(p), file[p] # None, Unlocked(file[p].ip), NEW i, i = file[p].ip,
         NEW f, f = Ilock(State, p, i)
  PROVE  /\ i \in Inum /\ f \in FsState
         /\ \A h, g : Keeps(f, h) /\ g = Iunlock(h, p, i) => Grants(p, g, 0, 0, 0)
<1>1. i \in Inum
  BY OpenIs DEF FsCore
<1>2. itable[i].ref >= 1
  <2>1. FileAt(file[p], i) = 1
    BY DEF FileAt
  <2> QED
    BY <1>1, <2>1, Held
<1>3. Grants(p, f, 0, i, 0)
  BY <1>1, <1>2, GrantsLock DEF Unlocked
<1>4. f \in FsState
  BY <1>3 DEF Grants
<1>5. ASSUME NEW h, NEW g, Keeps(f, h), g = Iunlock(h, p, i)
      PROVE  Grants(p, g, 0, 0, 0)
  <2>1. Grants(p, h, 0, i, 0)
    BY <1>3, <1>5, GrantsKeep
  <2> QED
    BY <1>1, <1>2, <1>5, <2>1, GrantsUnlock
<1> QED
  BY <1>1, <1>4, <1>5

\* file[p].off is one more.
LEMMA OffMoves ==
  ASSUME FsType, NEW p \in Proc, file[p] # None, file' = [file EXCEPT ![p].off = @ + 1]
  PROVE  /\ file'[p] \in OpenFile /\ file'[p].ip = file[p].ip
         /\ file' \in [Proc -> OpenFile \union {None}] /\ \A r \in Proc : r # p => file'[r] = file[r]
<1>1. PICK x \in OpenFile : x = file[p]
  BY OpenIs
<1>2. PICK y : y = [x EXCEPT !.off = @ + 1]
  OBVIOUS
<1>3. y \in OpenFile /\ y.ip = x.ip
  BY <1>2 DEF OpenFile
<1>4. file' = [file EXCEPT ![p] = y]
  BY <1>1, <1>2
<1> QED
  BY <1>1, <1>3, <1>4 DEF FsType

LEMMA ReadGoes ==
  ASSUME FsCore, NEW p \in Proc, Read(p)
  PROVE  FsCore'
<1>1. PICK i, f, g : i = file[p].ip /\ f = Ilock(State, p, i) /\ g = Iunlock(f, p, i)
  OBVIOUS
<1>2. /\ Idle(p) /\ file[p] # None /\ Unlocked(file[p].ip) /\ Become(g)
      /\ file' = [file EXCEPT ![p].off = @ + 1] /\ UNCHANGED <<cwd, todo, ret>>
  BY <1>1 DEF Read
<1>3. Grants(p, g, 0, 0, 0)
  BY <1>1, <1>2, FileLock, KeepsSelf
<1>4. /\ file'[p] \in OpenFile /\ file'[p].ip = file[p].ip
      /\ file' \in [Proc -> OpenFile \union {None}] /\ \A r \in Proc : r # p => file'[r] = file[r]
  BY <1>2, OffMoves DEF FsCore
<1>5. PICK x \in OpenFile : x = file'[p]
  BY <1>4
<1> QED
  BY <1>2, <1>3, <1>4, <1>5, FileMoves

LEMMA WriteGoes ==
  ASSUME FsCore, NEW p \in Proc, Write(p)
  PROVE  FsCore'
<1>1. PICK copied \in BOOLEAN :
        LET i == file[p].ip
            r == Writei(Ilock(State, p, i), i, file[p].off, Chunk, copied)
        IN  /\ Become(Iunlock(r[2], p, i))
            /\ file' = IF r[1] THEN [file EXCEPT ![p].off = @ + 1] ELSE file
  BY DEF Write
<1>2. PICK i, f, v, off : i = file[p].ip /\ f = Ilock(State, p, i) /\ v = Chunk /\ off = file[p].off
  OBVIOUS
<1>3. PICK r : r = Writei(f, i, off, v, copied)
  OBVIOUS
<1>4. PICK g : g = Iunlock(r[2], p, i)
  OBVIOUS
<1>5. /\ Idle(p) /\ file[p] # None /\ Unlocked(file[p].ip) /\ UNCHANGED <<cwd, todo, ret>>
  BY DEF Write
<1>6. /\ Become(g) /\ file' = IF r[1] THEN [file EXCEPT ![p].off = @ + 1] ELSE file
  BY <1>1, <1>2, <1>3, <1>4
<1>7. /\ i \in Inum /\ f \in FsState
      /\ \A h, k : Keeps(f, h) /\ k = Iunlock(h, p, i) => Grants(p, k, 0, 0, 0)
  BY <1>2, <1>5, FileLock
<1>8. v \in Word \X (0 .. NInodes)
  <2>1. PICK w, z : w = "chunk" /\ z = 0
    OBVIOUS
  <2>2. w \in Word
    BY <2>1, Words
  <2>3. z \in 0 .. NInodes
    BY <2>1, Sizes
  <2>4. v = <<w, z>>
    BY <1>2, <2>1 DEF Chunk
  <2> QED
    BY <2>2, <2>3, <2>4
<1>9. off \in Nat
  BY <1>2, <1>5, OpenIs DEF FsCore
<1>10. Keeps(f, r[2])
  BY <1>3, <1>7, <1>8, <1>9, WriteiIs
<1>11. Grants(p, g, 0, 0, 0)
  BY <1>4, <1>7, <1>10
<1>12. /\ file'[p] \in OpenFile /\ file'[p].ip = file[p].ip
       /\ file' \in [Proc -> OpenFile \union {None}] /\ \A q \in Proc : q # p => file'[q] = file[q]
  <2>1. CASE r[1]
    BY <1>5, <1>6, <2>1, OffMoves DEF FsCore
  <2>2. CASE ~r[1]
    <3>1. file' = file
      BY <1>6, <2>2
    <3> QED
      BY <1>5, <3>1, OpenIs DEF FsCore, FsType
  <2> QED
    BY <2>1, <2>2
<1>13. PICK x \in OpenFile : x = file'[p]
  BY <1>12
<1> QED
  BY <1>5, <1>6, <1>11, <1>12, <1>13, FileMoves

----------------------------------------------------------------------------
(***************************************************************************)
(* The theorems                                                            *)
(***************************************************************************)
\* What mkfs writes is what the lemmas call an inode.
LEMMA InodesAre ==
  ASSUME NEW x \in Inode
  PROVE  x \in Dinode
<1>1. PICK S, T : S = STRING \X (0 .. NInodes) /\ T = Word \X (0 .. NInodes)
  OBVIOUS
<1>2. S \subseteq T
  BY <1>1 DEF Word
<1>3. x.data \in Seq(S)
  BY <1>1 DEF Inode
<1>4. Len(x.data) \in Nat /\ x.data \in [1 .. Len(x.data) -> S]
  BY <1>3, LenProperties
<1>5. x.data \in [1 .. Len(x.data) -> T]
  BY <1>2, <1>4
<1>6. x.data \in Seq(T)
  BY <1>4, <1>5, SeqDef
<1>7. x.data \in Seq(Word \X (0 .. NInodes))
  BY <1>1, <1>6
<1>8. /\ x.type \in Types \union {"none"} /\ x.nlink \in Int /\ x.addrs \in Seq(1 .. NBlocks)
      /\ x.ind \in 0 .. NBlocks /\ x.a \in Seq(1 .. NBlocks)
  BY DEF Inode, Types
<1>9. x = [type |-> x.type, nlink |-> x.nlink, data |-> x.data, addrs |-> x.addrs, ind |-> x.ind, a |-> x.a]
  BY DEF Inode
<1> QED
  BY <1>7, <1>8, <1>9 DEF Dinode

LEMMA FreeInodeIs == FreeInode \in Dinode
<1>1. PICK ty, z, l, d, i : ty = "none" /\ z = 0 /\ l = 0 /\ d = <<>> /\ i = FreeInode
  OBVIOUS
<1>2. /\ ty \in Types \union {"none"} /\ l \in Int /\ z \in 0 .. NBlocks
      /\ d \in Seq(Word \X (0 .. NInodes)) /\ d \in Seq(1 .. NBlocks)
  BY <1>1, Sizes, EmptySeq
<1>3. i = [type |-> ty, nlink |-> l, data |-> d, addrs |-> d, ind |-> z, a |-> d]
  BY <1>1 DEF FreeInode
<1>4. i \in Dinode
  BY <1>2, <1>3 DEF Dinode
<1> QED
  BY <1>1, <1>4

LEMMA InitType ==
  ASSUME Init
  PROVE  FsType
<1>1. PICK disk \in Disk : dinode = disk.di /\ bitmap = disk.used
  BY DEF Init
<1>2. dinode \in [Inum -> Dinode] /\ bitmap \in SUBSET (1 .. NBlocks)
  <2>1. disk.di \in [Inum -> Inode] /\ disk.used \subseteq 1 .. NBlocks
    BY <1>1, DiskAssumption
  <2> QED
    BY <1>1, <2>1, InodesAre
<1>3. itable \in [Inum -> Ent]
  <2>1. \A i \in Inum : Cardinality({p \in Proc : cwd[p] = i}) \in Int
    <3>1. ASSUME NEW i \in Inum PROVE Cardinality({p \in Proc : cwd[p] = i}) \in Int
      <4>1. IsFiniteSet({p \in Proc : cwd[p] = i})
        BY Sizes, FS_Subset
      <4> QED
        BY <4>1, FS_CardinalityType
    <3> QED
      BY <3>1
  <2>2. PICK fr \in Dinode : fr = FreeInode
    BY FreeInodeIs
  <2>3. \A n \in Int : [ref |-> n, valid |-> FALSE, lock |-> None, ino |-> fr] \in Ent
    BY DEF Ent
  <2>4. itable = [i \in Inum |-> [ref |-> Cardinality({p \in Proc : cwd[p] = i}),
                                  valid |-> FALSE, lock |-> None, ino |-> fr]]
    BY <2>2 DEF Init
  <2> QED
    BY <2>1, <2>3, <2>4
<1>4. panic \in Message
  BY DEF Init, Message
<1>5. file \in [Proc -> OpenFile \union {None}] /\ cwd \in [Proc -> Inum]
  BY DEF Init
<1>6. todo \in [Proc -> Seq(FsStep)]
  <2>1. PICK d : d = <<>>
    OBVIOUS
  <2>2. d \in Seq(FsStep)
    BY <2>1, EmptySeq
  <2>3. todo = [p \in Proc |-> d]
    BY <2>1 DEF Init
  <2> QED
    BY <2>2, <2>3
<1>7. ret \in [Proc -> 0 .. NInodes]
  <2>1. 0 \in 0 .. NInodes
    BY Sizes
  <2> QED
    BY <2>1 DEF Init
<1> QED
  BY <1>2, <1>3, <1>4, <1>5, <1>6, <1>7 DEF FsType

LEMMA NoSteps ==
  ASSUME NEW s, s = <<>>, NEW j \in Inum
  PROVE  Len(s) = 0 /\ Uses(s, 0, j) = 0 /\ Obliged(s, 0, j) = 0 /\ ~Moving(s) /\ Shape(s) /\ RetShape(s, 0)
<1>1. Len(s) = 0
  OBVIOUS
<1>2. TodoRefs(s, j) = 0 /\ TodoLocks(s, j) = 0
  BY <1>1 DEF TodoRefs, TodoLocks, RefsAt, LocksAt
<1>3. j # 0
  BY DEF Inum
<1>4. Eq(0, j) = 0 /\ RetLock(s, 0, j) = 0
  BY <1>3 DEF Eq, RetLock
<1>5. Uses(s, 0, j) = 0 /\ Obliged(s, 0, j) = 0
  BY <1>2, <1>4 DEF Uses, Obliged
<1>6. EndFrom(s, 1)
  BY <1>1 DEF EndFrom
<1>7. Shape(s)
  BY <1>6, ShapeOf
<1> QED
  BY <1>1, <1>5, <1>7 DEF Moving, RetShape

\* The references at rest: those of the directories and the open files.
LEMMA RestCounts ==
  ASSUME FsType, \A p \in Proc : todo[p] = <<>> /\ ret[p] = 0, NEW i \in Inum
  PROVE  PendingOf(i) = {} /\ CwdOf(i) = {p \in Proc : cwd[p] = i}
<1>1. \A p \in Proc : Uses(todo[p], ret[p], i) = 0 /\ ~Moving(todo[p])
  BY NoSteps
<1>2. PendingOf(i) = {}
  BY <1>1 DEF PendingOf
<1>3. CwdOf(i) = {p \in Proc : cwd[p] = i}
  BY <1>1 DEF CwdOf
<1> QED
  BY <1>2, <1>3

LEMMA InitCore ==
  ASSUME Init
  PROVE  FsCore
<1>1. FsType
  BY InitType
<1>2. \A p \in Proc : todo[p] = <<>> /\ ret[p] = 0 /\ file[p] = None
  BY DEF Init
<1>3. 1 \in Inum
  BY Sizes DEF Inum
<1>4. Shapes
  BY <1>2, <1>3, NoSteps DEF Shapes
<1>5. ASSUME NEW i \in Inum
      PROVE  /\ IsFiniteSet(PendingOf(i))
             /\ itable[i].ref = Cardinality(CwdOf(i)) + Cardinality(FileOf(i)) + Cardinality(PendingOf(i))
  <2>1. PendingOf(i) = {} /\ CwdOf(i) = {p \in Proc : cwd[p] = i}
    BY <1>1, <1>2, RestCounts
  <2>2. FileOf(i) = {}
    BY <1>2 DEF FileOf
  <2>3. PICK n : n = Cardinality({p \in Proc : cwd[p] = i})
    OBVIOUS
  <2>4. n \in Nat
    <3>1. IsFiniteSet({p \in Proc : cwd[p] = i})
      BY Sizes, FS_Subset
    <3> QED
      BY <2>3, <3>1, FS_CardinalityType
  <2>5. itable[i].ref = n
    BY <2>3 DEF Init
  <2>6. n = n + 0 + 0
    BY <2>4
  <2> QED
    BY <2>1, <2>2, <2>3, <2>5, <2>6, FS_EmptySet
<1>6. LocksHeld
  <2>1. ASSUME NEW i \in Inum, NEW p \in Proc
        PROVE  Obliged(todo[p], ret[p], i) = IF itable[i].lock = p THEN 1 ELSE 0
    <3>1. Obliged(todo[p], ret[p], i) = 0
      BY <1>2, NoSteps
    <3>2. itable[i].lock = None
      BY DEF Init
    <3>3. None # p
      BY Sizes
    <3> QED
      BY <3>1, <3>2, <3>3
  <2> QED
    BY <2>1 DEF LocksHeld
<1> QED
  BY <1>1, <1>4, <1>5, <1>6 DEF FsCore, RefsCount

LEMMA StepGoes ==
  ASSUME FsCore, NEW p \in Proc, Step(p)
  PROVE  FsCore' \/ Stuck'
<1>1. CASE Put(p) \/ Free(p) \/ Invalidate(p) \/ Unref(p) \/ Unlock(p)
  BY <1>1, PutGoes, FreeGoes, InvalidateGoes, UnrefGoes, UnlockGoes
<1>2. CASE WalkEnd(p) \/ Walk(p)
  BY <1>2, WalkEndGoes, WalkGoes
<1>3. CASE CreateNoDir(p) \/ Create(p) \/ Created(p) \/ Ialloc(p) \/ Fill(p) \/ Made(p)
  BY <1>3, CreateNoDirGoes, CreateGoes, CreatedGoes, IallocGoes, FillGoes, MadeGoes
<1>4. CASE Open(p) \/ NoInode(p)
  BY <1>4, OpenGoes, NoInodeGoes
<1>5. CASE Link(p) \/ LinkDir(p) \/ LinkBad(p)
  BY <1>5, LinkGoes, LinkDirGoes, LinkBadGoes
<1>6. CASE Unlink(p) \/ UnlinkFile(p) \/ UnlinkDone(p)
  BY <1>6, UnlinkGoes, UnlinkFileGoes, UnlinkDoneGoes
<1>7. CASE Chdir(p) \/ SetCwd(p)
  BY <1>7, ChdirGoes, SetCwdGoes
<1> QED
  BY <1>1, <1>2, <1>3, <1>4, <1>5, <1>6, <1>7 DEF Step

LEMMA CallGoes ==
  ASSUME FsCore, NEW p \in Proc, Call(p)
  PROVE  FsCore' \/ Stuck'
<1>1. CASE SysOpen(p) \/ SysMake(p) \/ SysLink(p) \/ SysUnlink(p) \/ SysChdir(p)
  BY <1>1, SysOpenGoes, SysMakeGoes, SysOneGoes
<1>2. CASE Close(p) \/ Read(p) \/ Write(p)
  BY <1>2, CloseGoes, ReadGoes, WriteGoes
<1> QED
  BY <1>1, <1>2 DEF Call

\* A panic stops every process.
LEMMA Going ==
  ASSUME NEW p \in Proc, Step(p) \/ Call(p)
  PROVE  panic = "no"
<1>1. CASE Step(p)
  <2>1. \E k : At(p, k)
    BY <1>1 DEF Step, Put, Free, Invalidate, Unref, Unlock, WalkEnd, Walk, CreateNoDir, Create, Created, Ialloc,
                Fill, Made, Open, NoInode, Link, LinkDir, LinkBad, Unlink, UnlinkFile, UnlinkDone, Chdir, SetCwd
  <2> QED
    BY <2>1 DEF At
<1>2. CASE Call(p)
  <2>1. Idle(p)
    BY <1>2 DEF Call, SysOpen, SysMake, SysLink, SysUnlink, SysChdir, Close, Read, Write
  <2> QED
    BY <2>1 DEF Idle
<1> QED
  BY <1>1, <1>2

LEMMA InvStep ==
  ASSUME RefsInv, [Next]_vars
  PROVE  RefsInv'
<1>1. CASE UNCHANGED vars
  BY <1>1 DEF RefsInv, FsCore, FsType, Shapes, RefsCount, LocksHeld, CwdOf, FileOf, PendingOf, Stuck, vars, fsvars
<1>2. CASE Done
  BY <1>2 DEF Done, RefsInv, FsCore, FsType, Shapes, RefsCount, LocksHeld, CwdOf, FileOf, PendingOf, Stuck, vars, fsvars
<1>3. ASSUME NEW p \in Proc, Step(p) \/ Call(p)
      PROVE  RefsInv'
  <2>1. panic = "no"
    BY <1>3, Going
  <2>2. FsCore
    BY <2>1 DEF RefsInv, Stuck
  <2>3. FsCore' \/ Stuck'
    BY <1>3, <2>2, StepGoes, CallGoes
  <2> QED
    BY <2>3 DEF RefsInv
<1> QED
  BY <1>1, <1>2, <1>3 DEF Next

\* fs.c, sysfile.c: what a process has still to give back is what its steps give
\* back, whichever way its call goes wrong; a panic is the only way out.
THEOREM RefsInvariance == Spec => []RefsInv
<1>1. Init => RefsInv
  BY InitCore DEF RefsInv
<1>2. RefsInv /\ [Next]_vars => RefsInv'
  BY InvStep
<1> QED
  BY <1>1, <1>2, PTL DEF Spec

\* iget(), iput(): at rest, ip->ref is the number of open files and current
\* directories that are the inode, and no inode is locked, for any number of
\* processes, inodes and blocks, every disk and every path.
THEOREM RefsExactHolds == Spec => []RefsExact
<1>1. RefsInv => RefsExact
  <2>1. SUFFICES ASSUME RefsInv, Quiescent, NEW i \in Inum
                 PROVE  /\ itable[i].lock = None
                        /\ itable[i].ref = Cardinality({p \in Proc : cwd[p] = i})
                                           + Cardinality({p \in Proc : file[p] # None /\ file[p].ip = i})
    BY DEF RefsExact
  <2>2. FsCore /\ \A p \in Proc : todo[p] = <<>>
    BY <2>1 DEF RefsInv, Stuck, Quiescent
  <2>3. \A p \in Proc : todo[p] = <<>> /\ ret[p] = 0
    <3>1. ASSUME NEW p \in Proc PROVE ret[p] = 0
      <4>1. todo[p] \in Seq(FsStep) /\ RetShape(todo[p], ret[p])
        BY <2>2 DEF FsCore, FsType, Shapes
      <4>2. PICK s, q : s = todo[p] /\ q = ret[p]
        OBVIOUS
      <4>3. s = <<>>
        BY <2>2, <4>2
      <4> QED
        BY <4>1, <4>2, <4>3, RetNone
    <3> QED
      BY <2>2, <3>1
  <2>4. FsType
    BY <2>2 DEF FsCore
  <2>5. PendingOf(i) = {} /\ CwdOf(i) = {p \in Proc : cwd[p] = i}
    BY <2>3, <2>4, RestCounts
  <2>6. itable[i].lock = None
    <3>1. ASSUME NEW p \in Proc PROVE itable[i].lock # p
      <4>1. Obliged(todo[p], ret[p], i) = IF itable[i].lock = p THEN 1 ELSE 0
        BY <2>2 DEF FsCore, LocksHeld
      <4>2. Obliged(todo[p], ret[p], i) = 0
        BY <2>3, NoSteps
      <4> QED
        BY <4>1, <4>2
    <3>2. itable[i].lock \in Proc \union {None}
      BY <2>4 DEF FsType, Ent
    <3> QED
      BY <3>1, <3>2
  <2>7. PICK m, n : m = Cardinality({p \in Proc : cwd[p] = i}) /\ n = Cardinality(FileOf(i))
    OBVIOUS
  <2>8. m \in Nat /\ n \in Nat
    <3>1. IsFiniteSet({p \in Proc : cwd[p] = i})
      BY Sizes, FS_Subset
    <3>2. IsFiniteSet(FileOf(i))
      BY Sizes, FS_Subset DEF FileOf
    <3> QED
      BY <2>7, <3>1, <3>2, FS_CardinalityType
  <2>9. itable[i].ref = m + n + 0
    BY <2>2, <2>5, <2>7, FS_EmptySet DEF FsCore, RefsCount
  <2>10. itable[i].ref = m + n
    BY <2>8, <2>9
  <2> QED
    BY <2>6, <2>7, <2>10 DEF FileOf
<1> QED
  BY RefsInvariance, <1>1, PTL

=============================================================================
