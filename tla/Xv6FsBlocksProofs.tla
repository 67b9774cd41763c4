-------------------------- MODULE Xv6FsBlocksProofs -------------------------
(***************************************************************************)
(* Proofs about the blocks of Xv6Fs, for any number of processes, inodes,  *)
(* blocks and calls, with those of Xv6FsProofs about the references.       *)
(***************************************************************************)
EXTENDS Xv6FsProofs

----------------------------------------------------------------------------
(***************************************************************************)
(* The blocks: what is in use is what the inodes on the disk have          *)
(***************************************************************************)
\* A block in use belongs to an inode, to one only, and a free inode has none.
OwnedIn(f) ==
  /\ \A b : b \in f.used <=> \E i \in Inum : b \in Blocks(f.di[i])
  /\ \A i, j \in Inum : i # j => Blocks(f.di[i]) \intersect Blocks(f.di[j]) = {}
  /\ \A i \in Inum : f.di[i].type = "none" => Blocks(f.di[i]) = {}

\* The copy of an inode is the one on the disk, and that one is not free.
Fresh(e, d) == e.ref > 0 /\ e.valid => e.ino = d /\ d.type # "none"

\* An inode that is locked or open has a copy; but for those about to be
\* invalidated, the set X, a copy is as good as the disk.  V: the open inodes.
Copied(f, i, X, V) ==
  /\ f.it[i].lock # None => f.it[i].ref > 0 /\ f.it[i].valid
  /\ i \in V => f.it[i].ref > 0 /\ f.it[i].valid
  /\ i \notin X => Fresh(f.it[i], f.di[i])

Sound(f, X, V) ==
  /\ f \in FsState /\ OwnedIn(f) /\ \A i \in Inum : f.it[i].ref >= 0
  /\ f.panic = "no" => \A i \in Inum : Copied(f, i, X, V)

\* An inode that may be written.
Fit(f, i) == f \in FsState /\ OwnedIn(f) /\ f.it[i].ino = f.di[i] /\ f.di[i].type # "none"

\* f and g differ in inode i at most.
OnlyAt(f, g, i) == \A j \in Inum : j # i => g.it[j] = f.it[j] /\ g.di[j] = f.di[j]

\* Inode i was written: the blocks still have one owner each.
Written(f, g, i) ==
  /\ Keeps(f, g) /\ OnlyAt(f, g, i) /\ OwnedIn(g) /\ g.panic = f.panic
  /\ g.it[i].ino = g.di[i] /\ g.di[i].type # "none"

LEMMA OwnedSame ==
  ASSUME NEW f, NEW g, OwnedIn(f), g.used = f.used,
         \A i \in Inum : /\ Blocks(g.di[i]) = Blocks(f.di[i])
                         /\ g.di[i].type = "none" => Blocks(f.di[i]) = {}
  PROVE  OwnedIn(g)
  BY DEF OwnedIn

\* The same inodes on the disk.
LEMMA OwnedStays ==
  ASSUME NEW f, NEW g, OwnedIn(f), g.used = f.used, g.di = f.di
  PROVE  OwnedIn(g)
  BY DEF OwnedIn

\* One inode has new blocks, which nobody had.
LEMMA OwnedGrows ==
  ASSUME NEW f, NEW g, NEW i \in Inum, OwnedIn(f), f.used \subseteq g.used, g.di[i].type # "none",
         Blocks(g.di[i]) = Blocks(f.di[i]) \union (g.used \ f.used),
         \A j \in Inum : j # i => g.di[j] = f.di[j]
  PROVE  OwnedIn(g)
<1>1. ASSUME NEW b PROVE b \in g.used <=> \E j \in Inum : b \in Blocks(g.di[j])
  <2>1. CASE b \in f.used
    <3>1. PICK j \in Inum : b \in Blocks(f.di[j])
      BY <2>1 DEF OwnedIn
    <3>2. b \in Blocks(g.di[j])
      BY <3>1
    <3> QED
      BY <2>1, <3>2
  <2>2. CASE b \notin f.used
    <3>1. \A j \in Inum : b \notin Blocks(f.di[j])
      BY <2>2 DEF OwnedIn
    <3>2. b \in Blocks(g.di[i]) <=> b \in g.used
      BY <2>2, <3>1
    <3>3. \A j \in Inum : j # i => b \notin Blocks(g.di[j])
      BY <3>1
    <3> QED
      BY <3>2, <3>3
  <2> QED
    BY <2>1, <2>2
<1>2. ASSUME NEW j \in Inum, NEW k \in Inum, j # k
      PROVE  Blocks(g.di[j]) \intersect Blocks(g.di[k]) = {}
  <2>1. \A m \in Inum : Blocks(f.di[m]) \subseteq f.used
    BY DEF OwnedIn
  <2>2. Blocks(f.di[j]) \intersect Blocks(f.di[k]) = {}
    BY <1>2 DEF OwnedIn
  <2>3. CASE j = i
    <3>1. g.di[k] = f.di[k]
      BY <1>2, <2>3
    <3> QED
      BY <2>1, <2>2, <2>3, <3>1
  <2>4. CASE k = i
    <3>1. g.di[j] = f.di[j]
      BY <1>2, <2>4
    <3> QED
      BY <2>1, <2>2, <2>4, <3>1
  <2>5. CASE j # i /\ k # i
    BY <2>2, <2>5
  <2> QED
    BY <2>3, <2>4, <2>5
<1>3. ASSUME NEW j \in Inum, g.di[j].type = "none" PROVE Blocks(g.di[j]) = {}
  <2>1. j # i
    BY <1>3
  <2> QED
    BY <1>3, <2>1 DEF OwnedIn
<1> QED
  BY <1>1, <1>2, <1>3 DEF OwnedIn

\* One inode has lost its blocks.
LEMMA OwnedShrinks ==
  ASSUME NEW f, NEW g, NEW i \in Inum, OwnedIn(f), g.used = f.used \ Blocks(f.di[i]),
         Blocks(g.di[i]) = {}, \A j \in Inum : j # i => g.di[j] = f.di[j]
  PROVE  OwnedIn(g)
<1>1. ASSUME NEW b PROVE b \in g.used <=> \E j \in Inum : b \in Blocks(g.di[j])
  <2>1. CASE b \in Blocks(f.di[i])
    <3>1. \A j \in Inum : j # i => b \notin Blocks(f.di[j])
      BY <2>1 DEF OwnedIn
    <3>2. \A j \in Inum : b \notin Blocks(g.di[j])
      BY <3>1
    <3> QED
      BY <2>1, <3>2
  <2>2. CASE b \notin Blocks(f.di[i])
    <3>1. b \in g.used <=> b \in f.used
      BY <2>2
    <3>2. \A j \in Inum : b \in Blocks(g.di[j]) <=> b \in Blocks(f.di[j])
      BY <2>2
    <3>3. b \in f.used <=> \E j \in Inum : b \in Blocks(f.di[j])
      BY DEF OwnedIn
    <3> QED
      BY <3>1, <3>2, <3>3
  <2> QED
    BY <2>1, <2>2
<1>2. ASSUME NEW j \in Inum, NEW k \in Inum, j # k
      PROVE  Blocks(g.di[j]) \intersect Blocks(g.di[k]) = {}
  <2>1. Blocks(f.di[j]) \intersect Blocks(f.di[k]) = {}
    BY <1>2 DEF OwnedIn
  <2>2. CASE j = i \/ k = i
    BY <2>2
  <2>3. CASE j # i /\ k # i
    BY <2>1, <2>3
  <2> QED
    BY <2>2, <2>3
<1>3. ASSUME NEW j \in Inum, g.di[j].type = "none" PROVE Blocks(g.di[j]) = {}
  BY <1>3 DEF OwnedIn
<1> QED
  BY <1>1, <1>2, <1>3 DEF OwnedIn

\* All but one inode stay as they are.
LEMMA SoundAt ==
  ASSUME NEW f, NEW g \in FsState, NEW X, NEW V, Sound(f, X, V), NEW i \in Inum, OnlyAt(f, g, i),
         OwnedIn(g), g.panic = "no" => f.panic = "no", g.it[i].ref >= 0,
         g.panic = "no" => Copied(g, i, X, V)
  PROVE  Sound(g, X, V)
<1>1. \A j \in Inum : g.it[j].ref >= 0
  BY DEF Sound, OnlyAt
<1>2. ASSUME g.panic = "no", NEW j \in Inum PROVE Copied(g, j, X, V)
  <2>1. CASE j = i
    BY <1>2, <2>1
  <2>2. CASE j # i
    <3>1. Copied(f, j, X, V) /\ g.it[j] = f.it[j] /\ g.di[j] = f.di[j]
      BY <1>2, <2>2 DEF Sound, OnlyAt
    <3> QED
      BY <3>1 DEF Copied
  <2> QED
    BY <2>1, <2>2
<1> QED
  BY <1>1, <1>2 DEF Sound

\* A panic changes nothing else.
LEMMA SoundStops ==
  ASSUME NEW f, NEW g \in FsState, NEW X, NEW V, Sound(f, X, V), NEW Y, NEW W, g.panic # "no",
         g.it = f.it, g.di = f.di, g.used = f.used
  PROVE  Sound(g, Y, W)
<1>1. OwnedIn(g)
  BY OwnedStays DEF Sound
<1> QED
  BY <1>1 DEF Sound

\* A locked or an open inode may be written.
LEMMA FitIs ==
  ASSUME NEW f, NEW X, NEW V, Sound(f, X, V), f.panic = "no", NEW i \in Inum, i \notin X,
         f.it[i].lock # None \/ i \in V \/ (f.it[i].ref > 0 /\ f.it[i].valid)
  PROVE  Fit(f, i) /\ f.it[i].valid
<1>1. Copied(f, i, X, V) /\ f \in FsState /\ OwnedIn(f)
  BY DEF Sound
<1> QED
  BY <1>1 DEF Fit, Copied, Fresh

\* iget(), ilock(), iunlock()
LEMMA SoundIget ==
  ASSUME NEW f, NEW X, NEW V, Sound(f, X, V), NEW i \in Inum, NEW g, g = Iget(f, i)
  PROVE  Sound(g, X, V) /\ (g.panic = "no" => f.panic = "no")
<1>1. f \in FsState /\ f.it[i].ref >= 0 /\ OwnedIn(f)
  BY DEF Sound
<1>2. /\ g \in FsState /\ g.di = f.di /\ g.used = f.used
      /\ \A j \in Inum : j # i => g.it[j] = f.it[j]
      /\ g.it[i].lock = f.it[i].lock /\ g.it[i].ino = f.it[i].ino /\ g.it[i].ref >= 0
      /\ g.panic = "no" => /\ f.panic = "no" /\ g.it[i].ref = f.it[i].ref + 1
                           /\ f.it[i].ref > 0 => g.it[i].valid = f.it[i].valid
                           /\ f.it[i].ref = 0 => ~g.it[i].valid
  BY <1>1, IgetIs
<1>3. OwnedIn(g) /\ OnlyAt(f, g, i)
  BY <1>1, <1>2, OwnedStays DEF OnlyAt
<1>4. f.it[i].ref \in Int
  BY <1>1, StateIs
<1>5. ASSUME g.panic = "no" PROVE Copied(g, i, X, V)
  <2>1. Copied(f, i, X, V)
    BY <1>2, <1>5 DEF Sound
  <2> QED
    BY <1>1, <1>2, <1>4, <1>5, <2>1 DEF Copied, Fresh
<1> QED
  BY <1>2, <1>3, <1>5, SoundAt

LEMMA SoundIlock ==
  ASSUME NEW f, NEW X, NEW V, Sound(f, X, V), NEW p \in Proc, NEW i \in Inum, i \notin X,
         f.it[i].ref >= 1, NEW g, g = Ilock(f, p, i)
  PROVE  Sound(g, X, V) /\ (g.panic = "no" => f.panic = "no" /\ Fit(g, i) /\ g.it[i].valid)
<1>1. f \in FsState /\ OwnedIn(f)
  BY DEF Sound
<1>2. /\ g \in FsState /\ g.di = f.di /\ g.used = f.used
      /\ \A j \in Inum : j # i => g.it[j] = f.it[j]
      /\ g.it[i].ref = f.it[i].ref /\ g.it[i].valid /\ g.it[i].lock = p
      /\ g.it[i].ino = IF f.it[i].valid THEN f.it[i].ino ELSE f.di[i]
      /\ g.panic = "no" <=> f.panic = "no" /\ (f.it[i].valid \/ f.di[i].type # "none")
  BY <1>1, IlockIs
<1>3. OwnedIn(g) /\ OnlyAt(f, g, i)
  BY <1>1, <1>2, OwnedStays DEF OnlyAt
<1>4. f.it[i].ref \in Int /\ g.it[i].ref > 0 /\ g.it[i].ref >= 0
  BY <1>1, <1>2, StateIs
<1>5. ASSUME g.panic = "no" PROVE g.it[i].ino = g.di[i] /\ g.di[i].type # "none"
  <2>1. Copied(f, i, X, V)
    BY <1>2, <1>5 DEF Sound
  <2> QED
    BY <1>2, <1>4, <1>5, <2>1 DEF Copied, Fresh
<1>6. g.panic = "no" => Copied(g, i, X, V)
  BY <1>2, <1>4, <1>5 DEF Copied, Fresh
<1>7. Sound(g, X, V)
  BY <1>2, <1>3, <1>4, <1>6, SoundAt
<1> QED
  BY <1>2, <1>3, <1>5, <1>7 DEF Fit

LEMMA SoundIunlock ==
  ASSUME NEW f, NEW X, NEW V, Sound(f, X, V), NEW p \in Proc, NEW i \in Inum,
         NEW g, g = Iunlock(f, p, i)
  PROVE  Sound(g, X, V) /\ (g.panic = "no" => f.panic = "no")
<1>1. f \in FsState /\ OwnedIn(f) /\ f.it[i].ref >= 0
  BY DEF Sound
<1>2. /\ g \in FsState /\ g.di = f.di /\ g.used = f.used
      /\ \A j \in Inum : j # i => g.it[j] = f.it[j]
      /\ g.it[i].ref = f.it[i].ref /\ g.it[i].valid = f.it[i].valid /\ g.it[i].ino = f.it[i].ino
      /\ g.panic = "no" => f.panic = "no" /\ f.it[i].ref >= 1 /\ f.it[i].lock = p
      /\ g.panic = "no" => g.it[i].lock = None
  BY <1>1, IunlockIs
<1>3. OwnedIn(g) /\ OnlyAt(f, g, i)
  BY <1>1, <1>2, OwnedStays DEF OnlyAt
<1>4. ASSUME g.panic = "no" PROVE Copied(g, i, X, V)
  <2>1. Copied(f, i, X, V)
    BY <1>2, <1>4 DEF Sound
  <2> QED
    BY <1>2, <1>4, <2>1 DEF Copied, Fresh
<1> QED
  BY <1>1, <1>2, <1>3, <1>4, SoundAt

LEMMA SoundAsDir ==
  ASSUME NEW f, NEW X, NEW V, Sound(f, X, V), NEW d \in Inum, NEW g, g = AsDir(f, d)
  PROVE  Sound(g, X, V) /\ (g.panic = "no" => g = f)
<1>1. f \in FsState
  BY DEF Sound
<1>2. g \in FsState /\ g.it = f.it /\ g.di = f.di /\ g.used = f.used /\ (g.panic = "no" => g = f)
  BY <1>1, AsDirIs
<1>3. CASE g.panic = "no"
  BY <1>2, <1>3
<1>4. CASE g.panic # "no"
  BY <1>2, <1>4, SoundStops
<1> QED
  BY <1>2, <1>3, <1>4

----------------------------------------------------------------------------
(***************************************************************************)
(* The functions of fs.c that write an inode                               *)
(***************************************************************************)
LEMMA BlocksOf ==
  ASSUME NEW c, NEW d, d.addrs = c.addrs, d.ind = c.ind, d.a = c.a
  PROVE  Blocks(d) = Blocks(c)
  BY DEF Blocks

LEMMA WrittenSelf ==
  ASSUME NEW f, NEW i \in Inum, Fit(f, i)
  PROVE  Written(f, f, i)
<1>1. Keeps(f, f)
  BY KeepsSelf DEF Fit
<1> QED
  BY <1>1 DEF Fit, Written, OnlyAt

LEMMA WrittenTrans ==
  ASSUME NEW f, NEW g, NEW h, NEW i \in Inum, Written(f, g, i), Written(g, h, i)
  PROVE  Written(f, h, i)
<1>1. Keeps(f, h)
  BY KeepsTrans DEF Written
<1> QED
  BY <1>1 DEF Written, OnlyAt

\* What may be written still may.
LEMMA WrittenFit ==
  ASSUME NEW f, NEW g, NEW i \in Inum, NEW j \in Inum, Fit(f, j), Written(f, g, i)
  PROVE  Fit(g, j)
<1>1. g \in FsState
  BY DEF Written, Keeps
<1>2. CASE j = i
  BY <1>1, <1>2 DEF Written, Fit
<1>3. CASE j # i
  BY <1>1, <1>3 DEF Written, Fit, OnlyAt
<1> QED
  BY <1>2, <1>3

LEMMA SoundWritten ==
  ASSUME NEW f, NEW X, NEW V, Sound(f, X, V), NEW i \in Inum, NEW g, Written(f, g, i)
  PROVE  Sound(g, X, V)
<1>1. g \in FsState /\ OnlyAt(f, g, i) /\ OwnedIn(g) /\ g.panic = f.panic
  BY DEF Written, Keeps
<1>2. /\ g.it[i].ref = f.it[i].ref /\ g.it[i].lock = f.it[i].lock /\ g.it[i].valid = f.it[i].valid
      /\ g.it[i].ino = g.di[i] /\ g.di[i].type # "none" /\ f.it[i].ref >= 0
  BY DEF Written, Keeps, Sound
<1>3. ASSUME g.panic = "no" PROVE Copied(g, i, X, V)
  <2>1. Copied(f, i, X, V)
    BY <1>1, <1>3 DEF Sound
  <2> QED
    BY <1>2, <2>1 DEF Copied, Fresh
<1> QED
  BY <1>1, <1>2, <1>3, SoundAt

\* iupdate() of an inode with the same blocks.
LEMMA UpdateWritten ==
  ASSUME NEW f, NEW i \in Inum, Fit(f, i), NEW ino \in Dinode, Blocks(ino) = Blocks(f.it[i].ino),
         ino.type # "none", NEW g, g = Update(f, i, ino)
  PROVE  Written(f, g, i)
<1>1. f \in FsState /\ OwnedIn(f) /\ f.it[i].ino = f.di[i]
  BY DEF Fit
<1>2. /\ g \in FsState /\ g.used = f.used /\ g.panic = f.panic
      /\ \A j \in Inum : j # i => g.it[j] = f.it[j] /\ g.di[j] = f.di[j]
      /\ g.it[i].ino = ino /\ g.di[i] = ino
  BY <1>1, UpdateIs
<1>3. Keeps(f, g)
  BY <1>1, UpdateKeeps
<1>4. OnlyAt(f, g, i)
  BY <1>2 DEF OnlyAt
<1>5. OwnedIn(g)
  <2>1. ASSUME NEW j \in Inum
        PROVE  /\ Blocks(g.di[j]) = Blocks(f.di[j])
               /\ g.di[j].type = "none" => Blocks(f.di[j]) = {}
    <3>1. CASE j = i
      BY <1>1, <1>2, <3>1
    <3>2. CASE j # i
      BY <1>1, <1>2, <3>2 DEF OwnedIn
    <3> QED
      BY <3>1, <3>2
  <2> QED
    BY <1>1, <1>2, <2>1, OwnedSame
<1> QED
  BY <1>2, <1>3, <1>4, <1>5 DEF Written

LEMMA NlinkWritten ==
  ASSUME NEW f, NEW i \in Inum, Fit(f, i), NEW n \in Int,
         NEW g, g = Update(f, i, [f.it[i].ino EXCEPT !.nlink = n])
  PROVE  Written(f, g, i)
<1>1. f.it[i].ino \in Dinode /\ f.it[i].ino.type # "none"
  BY StateIs DEF Fit
<1>2. PICK ino : ino = [f.it[i].ino EXCEPT !.nlink = n]
  OBVIOUS
<1>3. ino \in Dinode
  BY <1>1, <1>2, DinodeIs
<1>4. /\ ino.type = f.it[i].ino.type /\ ino.addrs = f.it[i].ino.addrs /\ ino.ind = f.it[i].ino.ind
      /\ ino.a = f.it[i].ino.a
  BY <1>1, <1>2 DEF Dinode
<1>5. Blocks(ino) = Blocks(f.it[i].ino)
  BY <1>4, BlocksOf
<1> QED
  BY <1>1, <1>2, <1>3, <1>4, <1>5, UpdateWritten

LEMMA AddLinksWritten ==
  ASSUME NEW f, NEW i \in Inum, Fit(f, i), NEW n \in Int, NEW g, g = AddLinks(f, i, n)
  PROVE  Written(f, g, i)
<1>1. f.it[i].ino \in Dinode
  BY StateIs DEF Fit
<1>2. PICK m \in Int : m = f.it[i].ino.nlink + n
  BY <1>1, DinodeIs
<1>3. g = Update(f, i, [f.it[i].ino EXCEPT !.nlink = m])
  BY <1>2 DEF AddLinks
<1> QED
  BY <1>3, NlinkWritten

\* balloc() and bmap(): the inode in memory has the blocks that were taken.
Grown(f, g, i) ==
  /\ Keeps(f, g) /\ g.di = f.di /\ g.panic = f.panic
  /\ \A j \in Inum : j # i => g.it[j] = f.it[j]
  /\ g.it[i].ino.type = f.it[i].ino.type
  /\ f.used \subseteq g.used
  /\ Blocks(g.it[i].ino) = Blocks(f.it[i].ino) \union (g.used \ f.used)

LEMMA GrownSelf ==
  ASSUME NEW f \in FsState, NEW i \in Inum
  PROVE  Grown(f, f, i)
  BY KeepsSelf DEF Grown

LEMMA GrownTrans ==
  ASSUME NEW f, NEW g, NEW h, NEW i \in Inum, Grown(f, g, i), Grown(g, h, i)
  PROVE  Grown(f, h, i)
<1>1. Keeps(f, h)
  BY KeepsTrans DEF Grown
<1>2. f.used \subseteq h.used /\ h.used \ f.used = (g.used \ f.used) \union (h.used \ g.used)
  BY DEF Grown
<1> QED
  BY <1>1, <1>2 DEF Grown

LEMMA AllocGrown ==
  ASSUME NEW f \in FsState, NEW i \in Inum, NEW ino \in Dinode, Balloc(f) # 0,
         ino.type = f.it[i].ino.type, Blocks(ino) = Blocks(f.it[i].ino) \union {Balloc(f)},
         NEW g, g = Alloc(f, i, ino)
  PROVE  Grown(f, g, i)
<1>1. /\ Keeps(f, g) /\ g.di = f.di /\ g.used = f.used \union {Balloc(f)} /\ g.panic = f.panic
      /\ \A j \in Inum : j # i => g.it[j] = f.it[j]
      /\ g.it[i].ino = ino
  BY AllocIs
<1>2. Balloc(f) \notin f.used
  BY BallocIs
<1> QED
  BY <1>1, <1>2 DEF Grown

LEMMA AppendSet ==
  ASSUME NEW s \in Seq(1 .. NBlocks), NEW b \in 1 .. NBlocks, NEW t, t = Append(s, b)
  PROVE  t \in Seq(1 .. NBlocks) /\ ToSet(t) = ToSet(s) \union {b}
<1>1. /\ Len(t) = Len(s) + 1 /\ t \in Seq(1 .. NBlocks) /\ Len(s) \in Nat
      /\ \A n \in 1 .. Len(s) : t[n] = s[n]
      /\ t[Len(s) + 1] = b
  BY AppendProperties, LenProperties
<1>2. PICK m : m = Len(s)
  OBVIOUS
<1>3. DOMAIN t = 1 .. m + 1 /\ DOMAIN s = 1 .. m /\ m \in Nat
  BY <1>1, <1>2, LenProperties
<1>4. ToSet(t) = {t[n] : n \in 1 .. m + 1} /\ ToSet(s) = {s[n] : n \in 1 .. m}
  BY <1>3 DEF ToSet
<1>5. (\A n \in 1 .. m : t[n] = s[n]) /\ t[m + 1] = b
  BY <1>1, <1>2
<1>6. ASSUME NEW x PROVE x \in ToSet(t) <=> x \in ToSet(s) \union {b}
  <2>1. ASSUME x \in ToSet(t) PROVE x \in ToSet(s) \union {b}
    <3>1. PICK n \in 1 .. m + 1 : x = t[n]
      BY <1>4, <2>1
    <3>2. CASE n = m + 1
      BY <1>5, <3>1, <3>2
    <3>3. CASE n # m + 1
      <4>1. n \in 1 .. m
        BY <1>3, <3>3
      <4> QED
        BY <1>4, <1>5, <3>1, <4>1
    <3> QED
      BY <3>2, <3>3
  <2>2. ASSUME x \in ToSet(s) PROVE x \in ToSet(t)
    <3>1. PICK n \in 1 .. m : x = s[n]
      BY <1>4, <2>2
    <3>2. n \in 1 .. m + 1
      BY <1>3
    <3> QED
      BY <1>4, <1>5, <3>1, <3>2
  <2>3. b \in ToSet(t)
    <3>1. m + 1 \in 1 .. m + 1
      BY <1>3
    <3> QED
      BY <1>4, <1>5, <3>1
  <2> QED
    BY <2>1, <2>2, <2>3
<1> QED
  BY <1>1, <1>6

LEMMA BmapIndirectGrown ==
  ASSUME NEW f \in FsState, NEW i \in Inum, NEW bn, NEW g, g = BmapIndirect(f, i, bn)
  PROVE  Grown(f, g, i)
<1>1. f.it[i].ino \in Dinode
  BY StateIs
<1>2. CASE Balloc(f) = 0 \/ bn < Len(f.it[i].ino.a)
  <2>1. g = f
    BY <1>2 DEF BmapIndirect
  <2> QED
    BY <2>1, GrownSelf
<1>3. CASE ~(Balloc(f) = 0 \/ bn < Len(f.it[i].ino.a))
  <2>1. PICK old, b : old = f.it[i].ino /\ b = Balloc(f)
    OBVIOUS
  <2>2. b \in 1 .. NBlocks /\ old \in Dinode /\ old.a \in Seq(1 .. NBlocks)
    BY <1>1, <1>3, <2>1, BallocIs, DinodeIs
  <2>3. PICK s : s = Append(old.a, b)
    OBVIOUS
  <2>4. s \in Seq(1 .. NBlocks) /\ ToSet(s) = ToSet(old.a) \union {b}
    BY <2>2, <2>3, AppendSet
  <2>5. PICK new : new = [old EXCEPT !.a = s]
    OBVIOUS
  <2>6. g = Alloc(f, i, new) /\ b # 0
    BY <1>3, <2>1, <2>3, <2>5 DEF BmapIndirect
  <2>7. /\ new \in Dinode /\ new.type = old.type
        /\ new.addrs = old.addrs /\ new.ind = old.ind /\ new.a = s
    BY <2>2, <2>4, <2>5 DEF Dinode
  <2>8. Blocks(new) = Blocks(old) \union {b}
    BY <2>4, <2>7 DEF Blocks
  <2> QED
    BY <2>1, <2>6, <2>7, <2>8, AllocGrown
<1> QED
  BY <1>2, <1>3

LEMMA BmapGrown ==
  ASSUME NEW f \in FsState, NEW i \in Inum, NEW bn, NEW g, g = Bmap(f, i, bn)
  PROVE  Grown(f, g, i)
<1>1. PICK old, b : old = f.it[i].ino /\ b = Balloc(f)
  OBVIOUS
<1>2. old \in Dinode /\ old.addrs \in Seq(1 .. NBlocks) /\ b \in 0 .. NBlocks
  BY <1>1, StateIs, BallocIs, DinodeIs
<1>3. CASE bn < NDIRECT
  <2>1. CASE b = 0 \/ bn < Len(old.addrs)
    <3>1. g = f
      BY <1>1, <1>3, <2>1 DEF Bmap
    <3> QED
      BY <3>1, GrownSelf
  <2>2. CASE ~(b = 0 \/ bn < Len(old.addrs))
    <3>1. b \in 1 .. NBlocks
      BY <1>1, <2>2, BallocIs
    <3>2. PICK s : s = Append(old.addrs, b)
      OBVIOUS
    <3>3. s \in Seq(1 .. NBlocks) /\ ToSet(s) = ToSet(old.addrs) \union {b}
      BY <1>2, <3>1, <3>2, AppendSet
    <3>4. PICK new : new = [old EXCEPT !.addrs = s]
      OBVIOUS
    <3>5. g = Alloc(f, i, new)
      BY <1>1, <1>3, <2>2, <3>2, <3>4 DEF Bmap
    <3>6. /\ new \in Dinode /\ new.type = old.type
          /\ new.addrs = s /\ new.ind = old.ind /\ new.a = old.a
      BY <1>2, <3>3, <3>4 DEF Dinode
    <3>7. Blocks(new) = Blocks(old) \union {b}
      BY <3>3, <3>6 DEF Blocks
    <3> QED
      BY <1>1, <2>2, <3>5, <3>6, <3>7, AllocGrown
  <2> QED
    BY <2>1, <2>2
<1>4. CASE ~(bn < NDIRECT) /\ old.ind # 0
  <2>1. g = BmapIndirect(f, i, bn - NDIRECT)
    BY <1>1, <1>4 DEF Bmap
  <2> QED
    BY <2>1, BmapIndirectGrown
<1>5. CASE ~(bn < NDIRECT) /\ old.ind = 0 /\ b = 0
  <2>1. g = f
    BY <1>1, <1>5 DEF Bmap
  <2> QED
    BY <2>1, GrownSelf
<1>6. CASE ~(bn < NDIRECT) /\ old.ind = 0 /\ b # 0
  <2>1. PICK new : new = [old EXCEPT !.ind = b]
    OBVIOUS
  <2>2. /\ new \in Dinode /\ new.type = old.type
        /\ new.addrs = old.addrs /\ new.ind = b /\ new.a = old.a
    BY <1>2, <2>1 DEF Dinode
  <2>3. Blocks(new) = Blocks(old) \union {b}
    BY <1>6, <2>2 DEF Blocks
  <2>4. PICK h : h = Alloc(f, i, new)
    OBVIOUS
  <2>5. Grown(f, h, i)
    BY <1>1, <1>6, <2>2, <2>3, <2>4, AllocGrown
  <2>6. g = BmapIndirect(h, i, bn - NDIRECT)
    BY <1>1, <1>6, <2>1, <2>4 DEF Bmap
  <2>7. h \in FsState
    BY <2>5 DEF Grown, Keeps
  <2>8. Grown(h, g, i)
    BY <2>6, <2>7, BmapIndirectGrown
  <2> QED
    BY <2>5, <2>8, GrownTrans
<1> QED
  BY <1>3, <1>4, <1>5, <1>6

LEMMA WriteiWritten ==
  ASSUME NEW f, NEW i \in Inum, Fit(f, i), NEW off \in Nat, NEW v \in Word \X (0 .. NInodes),
         NEW copied, NEW r, r = Writei(f, i, off, v, copied)
  PROVE  Written(f, r[2], i)
<1>0. f \in FsState
  BY DEF Fit
<1>1. f \in FsState /\ OwnedIn(f) /\ f.it[i].ino = f.di[i] /\ f.di[i].type # "none"
  BY DEF Fit
<1>2. /\ Keeps(f, r[2]) /\ r[2].panic = f.panic
      /\ \A j \in Inum : j # i => r[2].it[j] = f.it[j] /\ r[2].di[j] = f.di[j]
      /\ r[2].it[i].ino.type = f.it[i].ino.type
      /\ r[2] = f \/ r[2].di[i] = r[2].it[i].ino
  BY <1>0, WriteiIs
<1>3. PICK g, ino : g = Bmap(f, i, off \div PerBlock) /\ ino = f.it[i].ino
  OBVIOUS
<1>4. Grown(f, g, i)
  BY <1>1, <1>3, BmapGrown
<1>5. g \in FsState /\ g.it[i].ino \in Dinode
  <2>1. g \in FsState
    BY <1>4 DEF Grown, Keeps
  <2> QED
    BY <2>1, StateIs
<1>6. PICK data : data = IF off < Len(ino.data) THEN [ino.data EXCEPT ![off + 1] = v]
                         ELSE Append(ino.data, v)
  OBVIOUS
<1>13. data \in Seq(Word \X (0 .. NInodes))
  <2>1. ino.data \in Seq(Word \X (0 .. NInodes)) /\ Len(ino.data) \in Nat
    BY <1>0, <1>3, StateIs, DinodeIs, LenProperties
  <2>2. CASE off < Len(ino.data)
    <3>1. off + 1 \in 1 .. Len(ino.data)
      BY <2>1, <2>2
    <3> QED
      BY <1>6, <2>1, <2>2, <3>1, ExceptSeq
  <2>3. CASE ~(off < Len(ino.data))
    BY <1>6, <2>1, <2>3, AppendProperties
  <2> QED
    BY <2>2, <2>3
<1>7. PICK new : new = [g.it[i].ino EXCEPT !.data = data]
  OBVIOUS
<1>8. \/ r = <<FALSE, f>>
      \/ r = <<TRUE, Update(g, i, new)>>
      \/ r = <<FALSE, Update(g, i, g.it[i].ino)>>
  <2> HIDE DEF Mapped
  <2> QED
    BY <1>3, <1>6, <1>7 DEF Writei
<1>9. CASE r = <<FALSE, f>>
  BY <1>9, WrittenSelf
<1>10. ASSUME NEW d \in Dinode, r[2] = Update(g, i, d), Blocks(d) = Blocks(g.it[i].ino)
       PROVE  OwnedIn(r[2])
  <2>1. r[2].used = g.used /\ r[2].di[i] = d
    <3>1. PICK h : h = Update(g, i, d)
      OBVIOUS
    <3>2. h.used = g.used /\ h.di[i] = d
      BY <1>5, <1>10, <3>1, UpdateIs
    <3> QED
      BY <1>10, <3>1, <3>2
  <2>2. f.used \subseteq g.used /\ Blocks(d) = Blocks(f.di[i]) \union (g.used \ f.used)
    BY <1>1, <1>4, <1>10 DEF Grown
  <2>3. r[2].di[i].type # "none"
    BY <1>1, <1>2
  <2>4. PICK h : h = r[2]
    OBVIOUS
  <2>5. /\ f.used \subseteq h.used /\ h.di[i].type # "none"
        /\ Blocks(h.di[i]) = Blocks(f.di[i]) \union (h.used \ f.used)
        /\ \A j \in Inum : j # i => h.di[j] = f.di[j]
    BY <1>2, <2>1, <2>2, <2>3, <2>4
  <2>6. OwnedIn(h)
    BY <1>1, <2>5, OwnedGrows
  <2> QED
    BY <2>4, <2>6
<1>11. CASE r = <<TRUE, Update(g, i, new)>>
  <2>1. /\ new.addrs = g.it[i].ino.addrs /\ new.ind = g.it[i].ino.ind /\ new.a = g.it[i].ino.a
        /\ new \in Dinode
    BY <1>5, <1>7, <1>13 DEF Dinode
  <2>2. Blocks(new) = Blocks(g.it[i].ino)
    BY <2>1, BlocksOf
  <2>3. OwnedIn(r[2])
    <3>1. r[2] = Update(g, i, new)
      BY <1>11
    <3> QED
      BY <1>10, <2>1, <2>2, <3>1
  <2> QED
    BY <1>1, <1>2, <2>3 DEF Written, OnlyAt
<1>12. CASE r = <<FALSE, Update(g, i, g.it[i].ino)>>
  <2>1. OwnedIn(r[2])
    <3>1. r[2] = Update(g, i, g.it[i].ino)
      BY <1>12
    <3> QED
      BY <1>5, <1>10, <3>1
  <2> QED
    BY <1>1, <1>2, <2>1 DEF Written, OnlyAt
<1> QED
  BY <1>8, <1>9, <1>11, <1>12

LEMMA DirlinkWrites ==
  ASSUME NEW f \in FsState, NEW d \in Inum, NEW name \in Word, NEW i \in Inum,
         NEW r, r = Dirlink(f, d, name, i), Dirlookup(f, d, name) = 0
  PROVE  \E off, v, copied : /\ off \in Nat /\ v = <<name, i>>
                              /\ r = Writei(f, d, off, v, copied)
<1>1. f.it[d].ino \in Dinode
  BY StateIs
<1>2. PICK data : data = f.it[d].ino.data
  OBVIOUS
<1>3. data \in Seq(Word \X (0 .. NInodes)) /\ Len(data) \in Nat
  BY <1>1, <1>2, DinodeIs, LenProperties
<1>4. PICK k : k = SelectInSeq(data, LAMBDA de : de[2] = 0)
  OBVIOUS
<1>5. k \in Nat
  <2> DEFINE found == {n \in 1 .. Len(data) : data[n][2] = 0}
  <2>1. k = IF found # {} THEN Min(found) ELSE 0
    BY <1>4 DEF SelectInSeq
  <2>2. CASE found = {}
    BY <2>1, <2>2
  <2>3. CASE found # {}
    <3>1. PICK m \in found : \A n \in found : m <= n
      BY <1>3, <2>3, FirstOne
    <3>2. Min(found) \in found
      BY <3>1 DEF Min
    <3> QED
      BY <1>3, <2>1, <2>3, <3>2
  <2> QED
    BY <2>2, <2>3
<1>6. PICK off, v, copied : /\ off = IF k = 0 THEN Len(data) ELSE k - 1
                            /\ v = <<name, i>> /\ copied = TRUE
  OBVIOUS
<1>7. off \in Nat
  BY <1>3, <1>5, <1>6
<1>8. r = Writei(f, d, off, v, copied)
  BY <1>2, <1>4, <1>6 DEF Dirlink
<1> QED
  BY <1>6, <1>7, <1>8

LEMMA DirlinkWritten ==
  ASSUME NEW f, NEW d \in Inum, Fit(f, d), NEW name \in Word, NEW i \in Inum,
         NEW r, r = Dirlink(f, d, name, i)
  PROVE  Written(f, r[2], d)
<1>0. f \in FsState
  BY DEF Fit
<1>1. CASE Dirlookup(f, d, name) # 0
  <2>1. r = <<FALSE, f>>
    BY <1>1 DEF Dirlink
  <2> QED
    BY <2>1, WrittenSelf
<1>2. CASE Dirlookup(f, d, name) = 0
  <2>1. PICK off, v, copied : off \in Nat /\ v = <<name, i>> /\ r = Writei(f, d, off, v, copied)
    BY <1>0, <1>2, DirlinkWrites
  <2>2. v \in Word \X (0 .. NInodes)
    BY <2>1 DEF Inum
  <2> QED
    BY <2>1, <2>2, WriteiWritten
<1> QED
  BY <1>1, <1>2

LEMMA DotsWritten ==
  ASSUME NEW f, NEW d \in Inum, NEW i \in Inum, Fit(f, i), NEW r, r = Dots(f, d, i)
  PROVE  Written(f, r[2], i)
<1>0. PICK self \in Word, up \in Word : self = "." /\ up = ".."
  BY Words
<1>1. PICK dot : dot = Dirlink(f, i, self, i)
  OBVIOUS
<1>2. Written(f, dot[2], i)
  BY <1>1, DirlinkWritten
<1>3. CASE dot[1]
  <2>1. r = Dirlink(dot[2], i, up, d)
    BY <1>0, <1>1, <1>3 DEF Dots
  <2>2. Fit(dot[2], i)
    BY <1>2, WrittenFit
  <2>3. Written(dot[2], r[2], i)
    BY <2>1, <2>2, DirlinkWritten
  <2> QED
    BY <1>2, <2>3, WrittenTrans
<1>4. CASE ~dot[1]
  <2>1. r = dot
    BY <1>0, <1>1, <1>4 DEF Dots
  <2> QED
    BY <1>2, <2>1
<1> QED
  BY <1>3, <1>4

\* itrunc(): no block is freed that is free already.
LEMMA ItruncWritten ==
  ASSUME NEW f, NEW i \in Inum, Fit(f, i), NEW g, g = Itrunc(f, i)
  PROVE  Written(f, g, i) /\ Blocks(g.di[i]) = {}
<1>1. f \in FsState /\ OwnedIn(f) /\ f.it[i].ino = f.di[i] /\ f.di[i].type # "none"
  BY DEF Fit
<1>2. PICK ino : ino = f.it[i].ino
  OBVIOUS
<1>3. ino \in Dinode /\ Blocks(ino) \subseteq f.used
  BY <1>1, <1>2, StateIs DEF OwnedIn
<1>4. PICK h, u : h = Bfree(f, Blocks(ino)) /\ u = f.used \ Blocks(ino)
  OBVIOUS
<1>5. h = [f EXCEPT !.used = u]
  BY <1>3, <1>4 DEF Bfree
<1>6. /\ h \in FsState /\ h.it = f.it /\ h.di = f.di /\ h.used = u /\ h.panic = f.panic
  <2>1. u \in SUBSET (1 .. NBlocks)
    BY <1>1, <1>4 DEF FsState
  <2> QED
    BY <1>1, <1>5, <2>1 DEF FsState
<1>7. PICK new : new = Emptied(ino)
  OBVIOUS
<1>8. new \in Dinode /\ new.type = ino.type /\ new.addrs = <<>> /\ new.ind = 0 /\ new.a = <<>>
  BY <1>3, <1>7, EmptiedIs
<1>9. g = Update(h, i, new)
  BY <1>2, <1>4, <1>7 DEF Itrunc, Emptied
<1>10. /\ g \in FsState /\ g.used = h.used /\ g.panic = h.panic
       /\ \A j \in Inum : j # i => g.it[j] = h.it[j] /\ g.di[j] = h.di[j]
       /\ g.it[i].ino = new /\ g.di[i] = new
  BY <1>6, <1>8, <1>9, UpdateIs
<1>11. Blocks(new) = {}
  <2>1. ToSet(<<>>) = {}
    BY DEF ToSet
  <2> QED
    BY <1>8, <2>1 DEF Blocks
<1>12. OwnedIn(g)
  BY <1>1, <1>2, <1>4, <1>6, <1>10, <1>11, OwnedShrinks
<1>13. Keeps(f, g)
  BY <1>1, ItruncIs
<1> QED
  BY <1>1, <1>2, <1>6, <1>8, <1>10, <1>11, <1>12, <1>13 DEF Written, OnlyAt

----------------------------------------------------------------------------
(***************************************************************************)
(* The inductive invariant of the blocks                                   *)
(***************************************************************************)
\* The inodes that iput() is giving back, and those it has on the disk already:
\* the argument of the next step of some process.
NextOf(kinds) == {i \in Inum : \E q \in Proc : /\ todo[q] # <<>> /\ todo[q][1][1] \in kinds
                                               /\ todo[q][1][2] = i}
Freeing == NextOf({"free", "invalid"})
Invalidating == NextOf({"invalid"})

Opened == {i \in Inum : \E q \in Proc : file[q] # None /\ file[q].ip = i}

\* The inode that is unlocked is put next.
Paired(s) == \A n \in 1 .. Len(s) - 1 : s[n][1] = "unlock" => s[n + 1][2] = s[n][2]

BlocksCore ==
  /\ Sound(State, Invalidating, Opened)
  /\ Opened \intersect Freeing = {}
  /\ \A p \in Proc : Paired(todo[p])

BlocksInv == BlocksCore \/ Stuck

\* A process whose next step is not one of iput() on the disk, before or after.
Calm(s) == s # <<>> => s[1][1] \notin {"free", "invalid"}

Steady(p) ==
  /\ Calm(todo[p]) /\ Calm(todo'[p]) /\ Paired(todo'[p])
  /\ \A q \in Proc : q # p => todo'[q] = todo[q]

LEMMA SoundFewer ==
  ASSUME NEW f, NEW X, NEW V, Sound(f, X, V), NEW Y, X \subseteq Y, NEW W, W \subseteq V
  PROVE  Sound(f, Y, W)
  BY DEF Sound, Copied

LEMMA BecomeState ==
  ASSUME NEW g \in FsState, Become(g)
  PROVE  State' = g
<1>1. PICK h : h = [it |-> g.it, di |-> g.di, used |-> g.used, panic |-> g.panic]
  OBVIOUS
<1>2. h = g
  BY <1>1 DEF FsState
<1> QED
  BY <1>1, <1>2 DEF Become, State

LEMMA NextSame ==
  ASSUME NEW p \in Proc, Steady(p)
  PROVE  Invalidating' = Invalidating /\ Freeing' = Freeing
<1>1. ASSUME NEW q \in Proc, NEW i,
             NEW kinds, kinds \subseteq {"free", "invalid"}
      PROVE  (todo'[q] # <<>> /\ todo'[q][1][1] \in kinds /\ todo'[q][1][2] = i)
             <=> (todo[q] # <<>> /\ todo[q][1][1] \in kinds /\ todo[q][1][2] = i)
  <2>1. CASE q = p
    BY <1>1, <2>1 DEF Steady, Calm
  <2>2. CASE q # p
    BY <2>2 DEF Steady
  <2> QED
    BY <2>1, <2>2
<1>2. {"invalid"} \subseteq {"free", "invalid"}
  OBVIOUS
<1>3. Invalidating' = Invalidating
  BY <1>1, <1>2 DEF Invalidating, NextOf
<1>4. Freeing' = Freeing
  BY <1>1 DEF Freeing, NextOf
<1> QED
  BY <1>3, <1>4

\* The end of a step: the state g, the open inodes W.
LEMMA BlocksGo ==
  ASSUME BlocksCore, NEW p \in Proc, Steady(p), NEW g, Become(g), NEW W, Opened' \subseteq W,
         W \intersect Freeing = {}, Sound(g, Invalidating, W)
  PROVE  BlocksCore'
<1>1. State' = g
  BY BecomeState DEF Sound
<1>2. Invalidating' = Invalidating /\ Freeing' = Freeing
  BY NextSame
<1>3. Sound(g, Invalidating, Opened')
  BY SoundFewer
<1>4. \A q \in Proc : Paired(todo'[q])
  BY DEF BlocksCore, Steady
<1> QED
  BY <1>1, <1>2, <1>3, <1>4 DEF BlocksCore

LEMMA BlocksStay ==
  ASSUME BlocksCore, NEW p \in Proc, Steady(p), NEW g, Become(g), UNCHANGED file,
         Sound(g, Invalidating, Opened)
  PROVE  BlocksCore'
<1>1. Opened' = Opened
  BY DEF Opened
<1>2. Opened' \subseteq Opened /\ Opened \intersect Freeing = {}
  BY <1>1 DEF BlocksCore
<1> QED
  BY <1>2, BlocksGo

----------------------------------------------------------------------------
(***************************************************************************)
(* The steps that follow                                                   *)
(***************************************************************************)
\* Only the first step of a call is one of iput() on the disk.
LEMMA SecondCalm ==
  ASSUME NEW s \in Seq(FsStep), Shape(s), Len(s) >= 2
  PROVE  s[2][1] \notin {"free", "invalid"}
<1>0. Len(s) \in Nat
  BY LenProperties
<1>1. CASE MainFrom(s, 1)
  BY <1>0, <1>1, ReturnsKind DEF MainFrom, EndFrom
<1>2. ASSUME MainFrom(s, 2) PROVE s[2][1] \notin {"free", "invalid"}
  BY <1>0, <1>2, ReturnsKind DEF MainFrom, EndFrom
<1>3. CASE WalkFrom(s, 1) \/ UnlockFrom(s, 1) \/ OtherFrom(s, 1)
  BY <1>0, <1>2, <1>3, ReturnsKind DEF WalkFrom, UnlockFrom, OtherFrom
<1>4. CASE StepsFrom(s, 2)
  BY <1>0, <1>2, <1>4 DEF StepsFrom, WalkFrom, UnlockFrom, OtherFrom
<1> QED
  BY <1>1, <1>3, <1>4 DEF Shape, StepsFrom

LEMMA SeqMore ==
  ASSUME NEW S, NEW T, S \subseteq T, NEW s \in Seq(S)
  PROVE  s \in Seq(T)
<1>1. PICK n : n = Len(s)
  OBVIOUS
<1>2. n \in Nat /\ s \in [1 .. n -> S]
  BY <1>1, LenProperties
<1>3. s \in [1 .. n -> T]
  BY <1>2
<1> QED
  BY <1>2, <1>3, SeqDef

LEMMA SpliceIs ==
  ASSUME NEW s \in Seq(FsStep), s # <<>>, NEW S, NEW a \in Seq(S), NEW t, t = a \o Tail(s)
  PROVE  /\ Len(s) \in Nat \ {0} /\ Len(a) \in Nat /\ Len(t) = Len(a) + Len(s) - 1
         /\ t = <<>> <=> Len(t) = 0
         /\ \A n \in 1 .. Len(a) : t[n] = a[n]
         /\ \A n \in 1 .. Len(s) - 1 : t[Len(a) + n] = s[n + 1]
<1>1. /\ Tail(s) \in Seq(FsStep) /\ Len(s) \in Nat \ {0} /\ Len(Tail(s)) = Len(s) - 1
      /\ \A n \in 1 .. Len(s) - 1 : Tail(s)[n] = s[n + 1]
  BY TailIs
<1>2. PICK T : T = S \union FsStep
  OBVIOUS
<1>3. a \in Seq(T) /\ Tail(s) \in Seq(T)
  BY <1>1, <1>2, SeqMore
<1>4. PICK k, m, u : k = Len(a) /\ m = Len(s) /\ u = Tail(s)
  OBVIOUS
<1>5. k \in Nat /\ m \in Nat \ {0} /\ Len(u) = m - 1
  BY <1>1, <1>3, <1>4, LenProperties
<1>6. /\ t \in Seq(T) /\ Len(t) = k + (m - 1)
      /\ \A n \in 1 .. k + (m - 1) : t[n] = IF n <= k THEN a[n] ELSE u[n - k]
  BY <1>3, <1>4, <1>5, ConcatProperties
<1>7. \A n \in 1 .. k : t[n] = a[n]
  BY <1>5, <1>6
<1>8. ASSUME NEW n \in 1 .. m - 1 PROVE t[k + n] = s[n + 1]
  <2>1. k + n \in 1 .. k + (m - 1) /\ ~(k + n <= k) /\ (k + n) - k = n
    BY <1>5
  <2> QED
    BY <1>1, <1>4, <1>6, <2>1
<1>9. t = <<>> <=> Len(t) = 0
  BY <1>6, EmptySeq
<1> QED
  BY <1>4, <1>5, <1>6, <1>7, <1>8, <1>9

LEMMA PairedSplice ==
  ASSUME NEW s \in Seq(FsStep), s # <<>>, Paired(s), NEW S, NEW a \in Seq(S), Paired(a),
         Len(a) > 0 => a[Len(a)][1] # "unlock", NEW t, t = a \o Tail(s)
  PROVE  Paired(t)
<1>1. PICK k, m : k = Len(a) /\ m = Len(s)
  OBVIOUS
<1>2. /\ m \in Nat \ {0} /\ k \in Nat /\ Len(t) = k + m - 1
      /\ \A n \in 1 .. k : t[n] = a[n]
      /\ \A n \in 1 .. m - 1 : t[k + n] = s[n + 1]
  BY <1>1, SpliceIs
<1>3. ASSUME NEW n \in 1 .. k + m - 2, t[n][1] = "unlock" PROVE t[n + 1][2] = t[n][2]
  <2>1. CASE n < k
    <3>1. n \in 1 .. k /\ n + 1 \in 1 .. k /\ n \in 1 .. k - 1
      BY <1>2, <2>1
    <3>2. t[n] = a[n] /\ t[n + 1] = a[n + 1]
      BY <1>2, <3>1
    <3> QED
      BY <1>1, <1>3, <3>1, <3>2 DEF Paired
  <2>2. CASE n = k
    BY <1>1, <1>2, <1>3, <2>2
  <2>3. CASE n > k
    <3>1. PICK j : j = n - k
      OBVIOUS
    <3>2. j \in 1 .. m - 1 /\ j + 1 \in 1 .. m - 1 /\ k + j = n /\ k + (j + 1) = n + 1
      BY <1>2, <2>3, <3>1
    <3>3. t[n] = s[j + 1] /\ t[n + 1] = s[(j + 1) + 1]
      BY <1>2, <3>2
    <3> QED
      BY <1>1, <1>3, <3>2, <3>3 DEF Paired
  <2> QED
    BY SMTT(30), <1>2, <2>1, <2>2, <2>3
<1>4. Len(t) - 1 = k + m - 2
  BY <1>2
<1> QED
  BY <1>3, <1>4 DEF Paired

----------------------------------------------------------------------------
(***************************************************************************)
(* What a step leaves to do                                                *)
(***************************************************************************)
\* The steps that come in place of the first one.
LEMMA GoSplice ==
  ASSUME FsCore, NEW p \in Proc, todo[p] # <<>>, Paired(todo[p]), NEW S, NEW a \in Seq(S), Paired(a),
         Len(a) > 0 => a[Len(a)][1] # "unlock", NEW r, Go(p, a, r)
  PROVE  /\ Paired(todo'[p]) /\ \A q \in Proc : q # p => todo'[q] = todo[q]
         /\ Len(a) > 0 => todo'[p] # <<>> /\ todo'[p][1] = a[1]
         /\ Len(a) = 0 => Calm(todo'[p])
<1>1. PICK s, t : s = todo[p] /\ t = a \o Tail(s)
  OBVIOUS
<1>2. FsType /\ s \in Seq(FsStep) /\ Shape(s)
  BY <1>1 DEF FsCore, FsType, Shapes
<1>3. todo'[p] = t /\ \A q \in Proc : q # p => todo'[q] = todo[q]
  BY <1>1, <1>2 DEF Go, FsType
<1>4. Paired(t)
  BY <1>1, <1>2, PairedSplice
<1>5. PICK k, m : k = Len(a) /\ m = Len(s)
  OBVIOUS
<1>6. /\ m \in Nat \ {0} /\ k \in Nat /\ Len(t) = k + m - 1
      /\ t = <<>> <=> Len(t) = 0
      /\ \A n \in 1 .. k : t[n] = a[n]
      /\ \A n \in 1 .. m - 1 : t[k + n] = s[n + 1]
  BY SMTT(30), <1>1, <1>2, <1>5, SpliceIs
<1>7. ASSUME k > 0 PROVE t # <<>> /\ t[1] = a[1]
  BY <1>6, <1>7
<1>8. ASSUME k = 0 PROVE Calm(t)
  <2>1. SUFFICES ASSUME t # <<>> PROVE t[1][1] \notin {"free", "invalid"}
    BY DEF Calm
  <2>2. m >= 2 /\ 1 \in 1 .. m - 1 /\ k + 1 = 1 /\ 1 + 1 = 2
    BY <1>6, <1>8, <2>1
  <2>3. t[1] = s[2]
    BY <1>6, <2>2
  <2> QED
    BY <1>2, <1>5, <2>2, <2>3, SecondCalm
<1> QED
  BY <1>3, <1>4, <1>5, <1>7, <1>8

LEMMA GoSteady0 ==
  ASSUME FsCore, NEW p \in Proc, todo[p] # <<>>, Calm(todo[p]), Paired(todo[p]), NEW r, Go(p, <<>>, r)
  PROVE  Steady(p)
<1>1. PICK a : a = <<>>
  OBVIOUS
<1>2. a \in Seq(FsStep) /\ Len(a) = 0 /\ Paired(a)
  BY <1>1 DEF Paired
<1>3. Go(p, a, r)
  BY <1>1
<1>4. Len(a) > 0 => a[Len(a)][1] # "unlock"
  BY <1>2
<1>5. Paired(todo'[p]) /\ Calm(todo'[p]) /\ \A q \in Proc : q # p => todo'[q] = todo[q]
  BY <1>2, <1>3, <1>4, GoSplice
<1> QED
  BY <1>5 DEF Steady

LEMMA GoSteady1 ==
  ASSUME FsCore, NEW p \in Proc, todo[p] # <<>>, Calm(todo[p]), Paired(todo[p]), NEW r,
         NEW a, a[1] \notin {"free", "invalid", "unlock"}, Go(p, <<a>>, r)
  PROVE  Steady(p) /\ todo'[p] # <<>>
<1>1. PICK s, S : s = <<a>> /\ S = {a}
  OBVIOUS
<1>2. s \in Seq(S) /\ Len(s) = 1 /\ s[1] = a
  BY <1>1
<1>3. Paired(s) /\ s[Len(s)][1] # "unlock"
  BY <1>2 DEF Paired
<1>4. Go(p, s, r)
  BY <1>1
<1>5. Paired(todo'[p]) /\ todo'[p] # <<>> /\ todo'[p][1] = s[1] /\ \A q \in Proc : q # p => todo'[q] = todo[q]
  BY <1>2, <1>3, <1>4, GoSplice
<1>6. Calm(todo'[p])
  BY <1>2, <1>5 DEF Calm
<1> QED
  BY <1>5, <1>6 DEF Steady

LEMMA GoSteady2 ==
  ASSUME FsCore, NEW p \in Proc, todo[p] # <<>>, Calm(todo[p]), Paired(todo[p]), NEW r,
         NEW a, a[1] \notin {"free", "invalid"}, NEW b, a[1] = "unlock" => b[2] = a[2], b[1] # "unlock",
         Go(p, <<a, b>>, r)
  PROVE  Steady(p) /\ todo'[p] # <<>>
<1>1. PICK s, S : s = <<a, b>> /\ S = {a, b}
  OBVIOUS
<1>2. s \in Seq(S) /\ Len(s) = 2 /\ s[1] = a /\ s[2] = b
  BY <1>1
<1>3. Paired(s) /\ s[Len(s)][1] # "unlock"
  <2>1. ASSUME NEW n \in 1 .. Len(s) - 1 PROVE n = 1 /\ n + 1 = 2
    BY <1>2
  <2> QED
    BY <1>2, <2>1 DEF Paired
<1>4. Go(p, s, r)
  BY <1>1
<1>5. Paired(todo'[p]) /\ todo'[p] # <<>> /\ todo'[p][1] = s[1] /\ \A q \in Proc : q # p => todo'[q] = todo[q]
  BY <1>2, <1>3, <1>4, GoSplice
<1>6. Calm(todo'[p])
  BY <1>2, <1>5 DEF Calm
<1> QED
  BY <1>5, <1>6 DEF Steady

LEMMA GoSteady3 ==
  ASSUME FsCore, NEW p \in Proc, todo[p] # <<>>, Calm(todo[p]), Paired(todo[p]), NEW r,
         NEW a, a[1] \notin {"free", "invalid", "unlock"}, NEW b, NEW c, b[1] = "unlock" => c[2] = b[2],
         c[1] # "unlock", Go(p, <<a, b, c>>, r)
  PROVE  Steady(p) /\ todo'[p] # <<>>
<1>1. PICK s, S : s = <<a, b, c>> /\ S = {a, b, c}
  OBVIOUS
<1>2. s \in Seq(S) /\ Len(s) = 3 /\ s[1] = a /\ s[2] = b /\ s[3] = c
  BY <1>1
<1>3. Paired(s) /\ s[Len(s)][1] # "unlock"
  <2>1. ASSUME NEW n \in 1 .. Len(s) - 1 PROVE (n = 1 /\ n + 1 = 2) \/ (n = 2 /\ n + 1 = 3)
    BY <1>2
  <2> QED
    BY <1>2, <2>1 DEF Paired
<1>4. Go(p, s, r)
  BY <1>1
<1>5. Paired(todo'[p]) /\ todo'[p] # <<>> /\ todo'[p][1] = s[1] /\ \A q \in Proc : q # p => todo'[q] = todo[q]
  BY <1>2, <1>3, <1>4, GoSplice
<1>6. Calm(todo'[p])
  BY <1>2, <1>5 DEF Calm
<1> QED
  BY <1>5, <1>6 DEF Steady

\* A panic with steps left.
LEMMA PanicSticks ==
  ASSUME NEW p \in Proc, todo'[p] # <<>>, panic' # "no"
  PROVE  Stuck'
  BY DEF Stuck

\* An inode that another process has not locked is not being freed.
LEMMA NotFreed ==
  ASSUME FsCore, NEW p \in Proc, Calm(todo[p]), NEW i \in Inum, itable[i].lock \in {p, None}
  PROVE  i \notin Freeing /\ i \notin Invalidating
<1>1. ASSUME NEW q \in Proc, todo[q] # <<>>, todo[q][1][1] \in {"free", "invalid"}, todo[q][1][2] = i
      PROVE  FALSE
  <2>1. q # p
    BY <1>1 DEF Calm
  <2>2. PICK s : s = todo[q]
    OBVIOUS
  <2>3. s \in Seq(FsStep) /\ Shape(s) /\ s # <<>>
    BY <1>1, <2>2 DEF FsCore, FsType, Shapes
  <2>4. Len(s) \in 1 .. 4
    BY <2>3, ShapeLen
  <2>5. s[1][1] \in Locking /\ i = s[1][2]
    BY <1>1, <2>2 DEF Locking
  <2>6. itable[i].lock = q
    BY <2>2, <2>4, <2>5, LockedFirst
  <2> QED
    BY <2>1, <2>6, Sizes
<1> QED
  BY <1>1 DEF Freeing, Invalidating, NextOf

----------------------------------------------------------------------------
(***************************************************************************)
(* The steps of a call, and the blocks                                     *)
(***************************************************************************)
LEMMA AtBlocks ==
  ASSUME FsCore, BlocksCore, NEW p \in Proc, NEW k, At(p, k), k \notin {"free", "invalid"}
  PROVE  /\ todo[p] # <<>> /\ Calm(todo[p]) /\ Paired(todo[p]) /\ panic = "no"
         /\ Sound(State, Invalidating, Opened) /\ State \in FsState
         /\ State.it = itable /\ State.di = dinode /\ State.used = bitmap /\ State.panic = "no"
<1>1. todo[p] # <<>> /\ panic = "no" /\ todo[p][1][1] = k
  BY DEF At
<1>2. Calm(todo[p])
  BY <1>1 DEF Calm
<1>3. State.it = itable /\ State.di = dinode /\ State.used = bitmap /\ State.panic = "no"
  BY <1>1, StateType DEF FsCore
<1>4. Sound(State, Invalidating, Opened) /\ Paired(todo[p])
  BY DEF BlocksCore
<1>5. State \in FsState
  BY <1>4 DEF Sound
<1> QED
  BY <1>1, <1>2, <1>3, <1>4, <1>5

\* ilock() of an inode that the process uses.
LEMMA LockSound ==
  ASSUME FsCore, BlocksCore, NEW p \in Proc, Calm(todo[p]), NEW i \in Inum,
         itable[i].ref >= 1, itable[i].lock = None, NEW g, g = Ilock(State, p, i)
  PROVE  Sound(g, Invalidating, Opened) /\ (g.panic = "no" => Fit(g, i))
<1>1. i \notin Invalidating
  BY NotFreed
<1>2. State.it = itable
  BY StateType DEF FsCore
<1>3. Sound(State, Invalidating, Opened)
  BY DEF BlocksCore
<1>4. State.it[i].ref >= 1
  BY <1>2
<1> QED
  BY <1>1, <1>3, <1>4, SoundIlock

\* An inode that the process has locked.
LEMMA HeldFit ==
  ASSUME FsCore, BlocksCore, NEW p \in Proc, Calm(todo[p]), panic = "no", NEW i \in Inum, itable[i].lock = p
  PROVE  Fit(State, i)
<1>1. i \notin Invalidating
  BY NotFreed
<1>2. State.it = itable /\ State.panic = panic
  BY StateType DEF FsCore
<1>3. Sound(State, Invalidating, Opened)
  BY DEF BlocksCore
<1>4. State.it[i].lock # None
  BY <1>2, Sizes
<1> QED
  BY <1>1, <1>2, <1>3, <1>4, FitIs

\* The file system stays as it is.
LEMMA BlocksQuiet ==
  ASSUME FsCore, BlocksCore, NEW p \in Proc, Steady(p), UNCHANGED fsvars, Opened' \subseteq Opened
  PROVE  BlocksCore'
<1>1. PICK g : g = State
  OBVIOUS
<1>2. g.it = itable /\ g.di = dinode /\ g.used = bitmap /\ g.panic = panic
  BY <1>1, StateType DEF FsCore
<1>3. Become(g)
  BY <1>2 DEF Become, fsvars
<1>4. Sound(g, Invalidating, Opened) /\ Opened \intersect Freeing = {}
  BY <1>1 DEF BlocksCore
<1> QED
  BY <1>3, <1>4, BlocksGo

LEMMA WalkEndBlocks ==
  ASSUME FsCore, BlocksCore, NEW p \in Proc, WalkEnd(p)
  PROVE  BlocksCore'
<1>1. At(p, "walk") /\ UNCHANGED fsvars /\ UNCHANGED file
  BY DEF WalkEnd
<1>2. todo[p] # <<>> /\ Calm(todo[p]) /\ Paired(todo[p])
  BY <1>1, AtBlocks
<1>3. PICK a : a = <<"put", Arg(p, 1)>>
  OBVIOUS
<1>4. Go(p, <<a>>, 0) \/ Go(p, <<>>, Arg(p, 1))
  BY <1>3 DEF WalkEnd
<1>5. a[1] \notin {"free", "invalid", "unlock"}
  BY <1>3
<1>6. Steady(p)
  BY <1>2, <1>4, <1>5, GoSteady0, GoSteady1
<1>7. Opened' \subseteq Opened
  BY <1>1 DEF Opened
<1> QED
  BY <1>1, <1>6, <1>7, BlocksQuiet

\* A step that ends without a change.
LEMMA QuietBlocks ==
  ASSUME FsCore, BlocksCore, NEW p \in Proc, CreateNoDir(p) \/ NoInode(p) \/ SetCwd(p)
  PROVE  BlocksCore'
<1>1. PICK k : At(p, k) /\ k \in {"create", "open", "link", "unlink", "chdir", "setcwd"}
  BY DEF CreateNoDir, NoInode, SetCwd
<1>2. UNCHANGED fsvars /\ UNCHANGED file /\ Go(p, <<>>, 0)
  BY DEF CreateNoDir, NoInode, SetCwd
<1>3. todo[p] # <<>> /\ Calm(todo[p]) /\ Paired(todo[p])
  BY <1>1, AtBlocks
<1>4. Steady(p)
  BY <1>2, <1>3, GoSteady0
<1>5. Opened' \subseteq Opened
  BY <1>2 DEF Opened
<1> QED
  BY <1>2, <1>4, <1>5, BlocksQuiet

LEMMA UnlockBlocks ==
  ASSUME FsCore, BlocksCore, NEW p \in Proc, Unlock(p)
  PROVE  BlocksCore'
<1>1. PICK s, i, r : s = todo[p] /\ i = Arg(p, 1) /\ r = ret[p]
  OBVIOUS
<1>2. At(p, "unlock") /\ UNCHANGED file
  BY DEF Unlock
<1>3. todo[p] # <<>> /\ Calm(todo[p]) /\ Paired(todo[p]) /\ Sound(State, Invalidating, Opened)
  BY <1>2, AtBlocks
<1>4. s[1] \in FsStep /\ s[1][1] = "unlock" /\ Arg(p, 1) = s[1][2]
  BY <1>1, <1>2, StepIs
<1>5. i \in Inum
  BY <1>1, <1>4, StepArgs DEF Using
<1>6. PICK g : g = Iunlock(State, p, i)
  OBVIOUS
<1>7. Become(g) /\ Go(p, <<>>, r)
  BY <1>1, <1>6 DEF Unlock
<1>8. Steady(p)
  BY <1>3, <1>7, GoSteady0
<1>9. Sound(g, Invalidating, Opened)
  BY <1>3, <1>5, <1>6, SoundIunlock
<1> QED
  BY <1>2, <1>7, <1>8, <1>9, BlocksStay

LEMMA WalkBlocks ==
  ASSUME FsCore, BlocksCore, NEW p \in Proc, Walk(p)
  PROVE  BlocksCore'
<1>1. PICK s, q, i : s = todo[p] /\ q = ret[p] /\ i = s[1][2]
  OBVIOUS
<1>2. At(p, "walk") /\ UNCHANGED file
  BY DEF Walk
<1>3. /\ s \in Seq(FsStep) /\ i \in Inum /\ itable[i].ref >= 1 /\ s[1][3] \in Seq(Word) /\ s[1][4] \in BOOLEAN
      /\ Arg(p, 1) = i /\ Arg(p, 2) = s[1][3] /\ Arg(p, 3) = s[1][4]
  BY <1>1, <1>2, WalkAt
<1>4. itable[i].lock = None /\ s[1][3] # <<>>
  BY <1>3 DEF Walk, Unlocked
<1>5. todo[p] # <<>> /\ Calm(todo[p]) /\ Paired(todo[p])
  BY <1>2, AtBlocks
<1>6. PICK f, g, k : /\ f = Ilock(State, p, i) /\ g = Iunlock(f, p, i)
                     /\ k = Dirlookup(f, i, Head(s[1][3]))
  OBVIOUS
<1>7. PICK e, h, g1 : e = Entry(f, i, k) /\ h = Iget(f, e) /\ g1 = Iunlock(h, p, i)
  OBVIOUS
<1>8. PICK a, b : a = <<"put", i>> /\ b = <<"walk", e, Tail(s[1][3]), s[1][4]>>
  OBVIOUS
<1>9. \/ Become(g) /\ Go(p, <<>>, i)
      \/ Become(g) /\ Go(p, <<a>>, 0)
      \/ k # 0 /\ Become(g1) /\ Go(p, <<a, b>>, 0)
  BY <1>3, <1>6, <1>7, <1>8 DEF Walk
<1>10. Sound(f, Invalidating, Opened)
  BY <1>3, <1>4, <1>5, <1>6, LockSound
<1>11. Sound(g, Invalidating, Opened)
  BY <1>3, <1>6, <1>10, SoundIunlock
<1>12. k # 0 => Sound(g1, Invalidating, Opened)
  <2>1. SUFFICES ASSUME k # 0 PROVE Sound(g1, Invalidating, Opened)
    OBVIOUS
  <2>2. PICK name : name = Head(s[1][3])
    OBVIOUS
  <2>3. k = Dirlookup(f, i, name) /\ f \in FsState
    BY <1>6, <1>10, <2>2 DEF Sound
  <2>4. e \in Inum
    BY <1>3, <1>7, <2>1, <2>3, DirlookupIs
  <2>5. Sound(h, Invalidating, Opened)
    BY <1>7, <1>10, <2>4, SoundIget
  <2> QED
    BY <1>3, <1>7, <2>5, SoundIunlock
<1>13. a[1] \notin {"free", "invalid", "unlock"} /\ b[1] # "unlock" /\ a[1] # "unlock"
  BY <1>8
<1>14. Steady(p)
  BY <1>5, <1>9, <1>13, GoSteady0, GoSteady1, GoSteady2
<1> QED
  BY <1>2, <1>9, <1>11, <1>12, <1>14, BlocksStay

LEMMA CreatedBlocks ==
  ASSUME FsCore, BlocksCore, NEW p \in Proc, Created(p)
  PROVE  BlocksCore'
<1>1. PICK s, q, i : s = todo[p] /\ q = ret[p] /\ i = Arg(p, 1)
  OBVIOUS
<1>2. At(p, "created") /\ UNCHANGED file
  BY DEF Created
<1>3. todo[p] # <<>> /\ Calm(todo[p]) /\ Paired(todo[p])
  BY <1>2, AtBlocks
<1>4. s[1] \in FsStep /\ s[1][1] = "created" /\ Arg(p, 1) = s[1][2]
  BY <1>1, <1>2, StepIs
<1>5. i \in Inum /\ itable[i].ref >= 1 /\ itable[i].lock = None
  <2>1. i \in Inum
    BY <1>1, <1>4, StepArgs DEF Using
  <2>2. s[1][1] \in Using /\ s[1][2] = i
    BY <1>1, <1>4 DEF Using
  <2>3. itable[i].ref >= 1
    BY <1>1, <1>3, <2>1, <2>2, HasRef
  <2> QED
    BY <1>1, <2>1, <2>3 DEF Created, Unlocked
<1>6. PICK f, g, a : f = Ilock(State, p, i) /\ g = Iunlock(f, p, i) /\ a = <<"put", i>>
  OBVIOUS
<1>7. (Become(f) /\ Go(p, <<>>, i)) \/ (Become(g) /\ Go(p, <<a>>, 0))
  BY <1>1, <1>6 DEF Created
<1>8. Sound(f, Invalidating, Opened)
  BY <1>3, <1>5, <1>6, LockSound
<1>9. Sound(g, Invalidating, Opened)
  BY <1>5, <1>6, <1>8, SoundIunlock
<1>10. a[1] \notin {"free", "invalid", "unlock"}
  BY <1>6
<1>11. Steady(p)
  BY <1>3, <1>7, <1>10, GoSteady0, GoSteady1
<1> QED
  BY <1>2, <1>7, <1>8, <1>9, <1>11, BlocksStay

----------------------------------------------------------------------------
(***************************************************************************)
(* The steps that write                                                    *)
(***************************************************************************)
\* A panic goes on through the calls that follow.
LEMMA IgetPanic ==
  ASSUME NEW f \in FsState, NEW i \in Inum, NEW g, g = Iget(f, i), g.panic = "no"
  PROVE  f.panic = "no"
<1>1. PICK h : h = Panic(f, "iget: no inodes")
  OBVIOUS
<1>2. h.panic # "no"
  BY <1>1, Messages, PanicIs
<1>3. \/ g = h
      \/ g = [f EXCEPT !.it[i].ref = @ + 1]
      \/ g = [f EXCEPT !.it[i].ref = 1, !.it[i].valid = FALSE]
  BY <1>1 DEF Iget
<1>4. CASE g = [f EXCEPT !.it[i].ref = @ + 1]
  BY <1>4 DEF FsState
<1>5. CASE g = [f EXCEPT !.it[i].ref = 1, !.it[i].valid = FALSE]
  <2>1. PICK e : e = [f EXCEPT !.it[i].ref = 1]
    OBVIOUS
  <2>2. e.panic = f.panic
    BY <2>1 DEF FsState
  <2> QED
    BY <1>5 DEF FsState
<1> QED
  BY <1>2, <1>3, <1>4, <1>5

\* What is written of an inode that has just been locked.
LEMMA LockedWrite ==
  ASSUME FsCore, BlocksCore, NEW p \in Proc, Calm(todo[p]), NEW i \in Inum,
         itable[i].ref >= 1, itable[i].lock = None, NEW f, f = Ilock(State, p, i),
         NEW h, Keeps(f, h), Fit(f, i) => Written(f, h, i)
  PROVE  h.panic = "no" => Sound(h, Invalidating, Opened)
<1>1. SUFFICES ASSUME h.panic = "no" PROVE Sound(h, Invalidating, Opened)
  OBVIOUS
<1>2. f.panic = "no"
  BY <1>1 DEF Keeps
<1>3. Sound(f, Invalidating, Opened) /\ Fit(f, i)
  BY <1>2, LockSound
<1>4. Written(f, h, i)
  BY <1>3
<1> QED
  BY <1>3, <1>4, SoundWritten

\* The end of a step that may have panicked.
LEMMA BlocksEnd ==
  ASSUME FsCore, BlocksCore, NEW p \in Proc, Steady(p) /\ todo'[p] # <<>>, NEW g, Become(g), UNCHANGED file,
         g.panic = "no" => Sound(g, Invalidating, Opened)
  PROVE  BlocksCore' \/ Stuck'
<1>1. panic' = g.panic
  BY BecomeIs
<1>2. CASE g.panic = "no"
  <2>1. BlocksCore'
    BY <1>2, BlocksStay
  <2> QED
    BY <2>1
<1>3. CASE g.panic # "no"
  BY <1>1, <1>3, PanicSticks
<1> QED
  BY <1>2, <1>3

LEMMA UnlockSound ==
  ASSUME NEW h \in FsState, h.panic = "no" => Sound(h, Invalidating, Opened), NEW p \in Proc, NEW i \in Inum,
         NEW g, g = Iunlock(h, p, i)
  PROVE  g.panic = "no" => Sound(g, Invalidating, Opened)
<1>1. g.panic = "no" => h.panic = "no"
  BY IunlockIs
<1> QED
  BY <1>1, SoundIunlock

LEMMA MadeBlocks ==
  ASSUME FsCore, BlocksCore, NEW p \in Proc, Made(p)
  PROVE  BlocksCore'
<1>1. PICK s, q : s = todo[p] /\ q = ret[p]
  OBVIOUS
<1>2. At(p, "made") /\ UNCHANGED file
  BY DEF Made
<1>3. /\ todo[p] # <<>> /\ Calm(todo[p]) /\ Paired(todo[p]) /\ Sound(State, Invalidating, Opened)
  BY <1>2, AtBlocks
<1>4. q # 0 => q \in Inum
  BY <1>1, <1>2, StepIs
<1>5. PICK g, a : g = Iunlock(State, p, q) /\ a = <<"put", q>>
  OBVIOUS
<1>6. (Become(State) /\ Go(p, <<>>, 0)) \/ (q # 0 /\ Become(g) /\ Go(p, <<a>>, 0))
  BY <1>1, <1>5 DEF Made
<1>7. q # 0 => Sound(g, Invalidating, Opened)
  BY <1>3, <1>4, <1>5, SoundIunlock
<1>8. a[1] \notin {"free", "invalid", "unlock"}
  BY <1>5
<1>9. Steady(p)
  BY <1>3, <1>6, <1>8, GoSteady0, GoSteady1
<1> QED
  BY <1>2, <1>3, <1>6, <1>7, <1>9, BlocksStay

LEMMA LinkBlocks ==
  ASSUME FsCore, BlocksCore, NEW p \in Proc, Link(p)
  PROVE  BlocksCore' \/ Stuck'
<1>1. PICK s, q : s = todo[p] /\ q = ret[p]
  OBVIOUS
<1>2. At(p, "link") /\ UNCHANGED file
  BY DEF Link
<1>3. todo[p] # <<>> /\ Calm(todo[p]) /\ Paired(todo[p])
  BY <1>2, AtBlocks
<1>4. /\ s[1] \in FsStep /\ s[1][1] = "link" /\ Arg(p, 1) = s[1][2]
      /\ q # 0 => q \in Inum /\ itable[q].ref >= 1
  BY <1>1, <1>2, StepIs
<1>5. q \in Inum /\ itable[q].ref >= 1 /\ itable[q].lock = None
  BY <1>1, <1>4 DEF Link, Unlocked
<1>6. PICK f, g, a : f = Ilock(State, p, q) /\ g = Iunlock(f, p, q) /\ a = <<"put", q>>
  OBVIOUS
<1>7. PICK new, h, u, e, g1 : /\ new = Arg(p, 1) /\ h = AddLinks(f, q, 1) /\ u = Iunlock(h, p, q)
                              /\ e = Start(p, new) /\ g1 = Iget(u, e)
  OBVIOUS
<1>8. PICK b, c : b = <<"walk", e, new.elems, TRUE>> /\ c = <<"linkdir", q, LastElem(new)>>
  OBVIOUS
<1>9. (Become(g) /\ Go(p, <<a>>, 0)) \/ (Become(g1) /\ Go(p, <<b, c>>, 0))
  <2>1. Append(Namex(p, new, TRUE), c) = <<b, c>>
    <3>1. Namex(p, new, TRUE) = <<b>>
      BY <1>7, <1>8 DEF Namex
    <3>2. Append(<<b>>, c) = <<b, c>>
      BY AppendTwo
    <3> QED
      BY <3>1, <3>2
  <2>2. \/ Become(g) /\ Go(p, <<a>>, 0)
        \/ Become(g1) /\ Go(p, Append(Namex(p, new, TRUE), c), 0)
    BY <1>1, <1>6, <1>7, <1>8 DEF Link
  <2> QED
    BY <2>1, <2>2
<1>10. Steady(p) /\ todo'[p] # <<>>
  <2>1. a[1] \notin {"free", "invalid", "unlock"}
    BY <1>6
  <2>2. b[1] \notin {"free", "invalid"} /\ b[1] # "unlock" /\ c[1] # "unlock"
    BY <1>8
  <2> QED
    BY <1>3, <1>9, <2>1, <2>2, GoSteady1, GoSteady2
<1>11. Sound(f, Invalidating, Opened) /\ f \in FsState
  <2>1. Sound(f, Invalidating, Opened)
    BY <1>3, <1>5, <1>6, LockSound
  <2> QED
    BY <2>1 DEF Sound
<1>12. Sound(g, Invalidating, Opened)
  BY <1>5, <1>6, <1>11, SoundIunlock
<1>13. g1.panic = "no" => Sound(g1, Invalidating, Opened)
  <2>1. PICK n \in Int : n = 1
    OBVIOUS
  <2>2. Keeps(f, h) /\ h \in FsState
    <3>1. Keeps(f, h)
      BY <1>5, <1>7, <1>11, <2>1, AddLinksIs
    <3> QED
      BY <3>1 DEF Keeps
  <2>3. Fit(f, q) => Written(f, h, q)
    BY <1>5, <1>7, <2>1, AddLinksWritten
  <2>4. h.panic = "no" => Sound(h, Invalidating, Opened)
    BY <1>3, <1>5, <1>6, <2>2, <2>3, LockedWrite
  <2>5. u.panic = "no" => Sound(u, Invalidating, Opened)
    BY <1>5, <1>7, <2>2, <2>4, UnlockSound
  <2>6. u \in FsState
    BY <1>5, <1>7, <2>2, IunlockIs
  <2>7. e \in Inum
    <3>1. new \in WPath
      BY <1>4, <1>7, StepArgs
    <3> QED
      BY <1>7, <3>1, StartIs
  <2> QED
    BY <1>7, <2>5, <2>6, <2>7, IgetPanic, SoundIget
<1> QED
  BY <1>2, <1>9, <1>10, <1>12, <1>13, BlocksEnd

LEMMA LinkDirBlocks ==
  ASSUME FsCore, BlocksCore, NEW p \in Proc, LinkDir(p)
  PROVE  BlocksCore' \/ Stuck'
<1>1. PICK s, q : s = todo[p] /\ q = ret[p]
  OBVIOUS
<1>2. At(p, "linkdir") /\ UNCHANGED file
  BY DEF LinkDir
<1>3. todo[p] # <<>> /\ Calm(todo[p]) /\ Paired(todo[p]) /\ Sound(State, Invalidating, Opened)
  BY <1>2, AtBlocks
<1>4. /\ s[1] \in FsStep /\ s[1][1] = "linkdir" /\ Arg(p, 1) = s[1][2] /\ Arg(p, 2) = s[1][3]
      /\ q # 0 => q \in Inum /\ itable[q].ref >= 1
  BY <1>1, <1>2, StepIs
<1>5. PICK i, w : i = Arg(p, 1) /\ w = Arg(p, 2)
  OBVIOUS
<1>6. i \in Inum /\ w \in Word
  BY <1>4, <1>5, StepArgs DEF Using
<1>7. PICK f0, f, r, g : /\ f0 = Ilock(State, p, q) /\ f = AsDir(f0, q)
                         /\ r = Dirlink(f, q, w, i) /\ g = Iunlock(r[2], p, q)
  OBVIOUS
<1>8. PICK a, b, c : a = <<"put", q>> /\ b = <<"put", i>> /\ c = <<"linkbad", i>>
  OBVIOUS
<1>9. \/ Become(State) /\ Go(p, <<c>>, 0)
      \/ q # 0 /\ itable[q].lock = None /\ Become(g) /\ (Go(p, <<a, b>>, 0) \/ Go(p, <<a, c>>, 0))
  BY <1>1, <1>5, <1>7, <1>8 DEF LinkDir, Unlocked
<1>10. Steady(p) /\ todo'[p] # <<>>
  <2>1. c[1] \notin {"free", "invalid", "unlock"}
    BY <1>8
  <2>2. a[1] \notin {"free", "invalid"} /\ a[1] # "unlock" /\ b[1] # "unlock" /\ c[1] # "unlock"
    BY <1>8
  <2> QED
    BY <1>3, <1>9, <2>1, <2>2, GoSteady1, GoSteady2
<1>11. ASSUME q # 0, itable[q].lock = None PROVE g.panic = "no" => Sound(g, Invalidating, Opened)
  <2>1. q \in Inum /\ itable[q].ref >= 1
    BY <1>4, <1>11
  <2>2. f0 \in FsState
    <3>1. Sound(f0, Invalidating, Opened)
      BY <1>3, <1>7, <1>11, <2>1, LockSound
    <3> QED
      BY <3>1 DEF Sound
  <2>3. f \in FsState /\ (f.panic = "no" => f = f0)
    BY <1>7, <2>1, <2>2, AsDirIs
  <2>4. Keeps(f, r[2])
    BY <1>6, <1>7, <2>1, <2>3, DirlinkIs
  <2>5. r[2] \in FsState /\ (r[2].panic = "no" => f.panic = "no")
    BY <2>4 DEF Keeps
  <2>6. r[2].panic = "no" => Sound(r[2], Invalidating, Opened)
    <3>1. SUFFICES ASSUME r[2].panic = "no" PROVE Sound(r[2], Invalidating, Opened)
      OBVIOUS
    <3>2. f = f0
      BY <2>3, <2>5, <3>1
    <3>3. Fit(f0, q) => Written(f0, r[2], q)
      BY <1>6, <1>7, <2>1, <3>2, DirlinkWritten
    <3>4. PICK h : h = r[2]
      OBVIOUS
    <3>5. Keeps(f0, h) /\ (Fit(f0, q) => Written(f0, h, q)) /\ h.panic = "no"
      BY <2>4, <3>1, <3>2, <3>3, <3>4
    <3>6. Sound(h, Invalidating, Opened)
      BY <1>3, <1>7, <1>11, <2>1, <3>5, LockedWrite
    <3> QED
      BY <3>4, <3>6
  <2> QED
    BY <1>7, <2>1, <2>5, <2>6, UnlockSound
<1> QED
  BY <1>2, <1>3, <1>9, <1>10, <1>11, BlocksEnd

LEMMA LinkBadBlocks ==
  ASSUME FsCore, BlocksCore, NEW p \in Proc, LinkBad(p)
  PROVE  BlocksCore' \/ Stuck'
<1>1. PICK s, i : s = todo[p] /\ i = Arg(p, 1)
  OBVIOUS
<1>2. At(p, "linkbad") /\ UNCHANGED file
  BY DEF LinkBad
<1>3. todo[p] # <<>> /\ Calm(todo[p]) /\ Paired(todo[p])
  BY <1>2, AtBlocks
<1>4. s[1] \in FsStep /\ s[1][1] = "linkbad" /\ i = s[1][2]
  BY <1>1, <1>2, StepIs
<1>5. i \in Inum /\ itable[i].ref >= 1 /\ itable[i].lock = None
  <2>1. i \in Inum
    BY <1>1, <1>4, StepArgs DEF Using
  <2>2. s[1][1] \in Using /\ s[1][2] = i
    BY <1>1, <1>4 DEF Using
  <2>3. itable[i].ref >= 1
    BY <1>1, <1>3, <2>1, <2>2, HasRef
  <2> QED
    BY <1>1, <2>1, <2>3 DEF LinkBad, Unlocked
<1>6. PICK f, h, g, a : /\ f = Ilock(State, p, i) /\ h = AddLinks(f, i, Unlinked)
                        /\ g = Iunlock(h, p, i) /\ a = <<"put", i>>
  OBVIOUS
<1>7. Become(g) /\ Go(p, <<a>>, 0)
  BY <1>1, <1>6 DEF LinkBad
<1>8. Steady(p) /\ todo'[p] # <<>>
  <2>1. a[1] \notin {"free", "invalid", "unlock"}
    BY <1>6
  <2> QED
    BY <1>3, <1>7, <2>1, GoSteady1
<1>9. g.panic = "no" => Sound(g, Invalidating, Opened)
  <2>1. PICK n \in Int : n = Unlinked
    BY DEF Unlinked
  <2>2. Sound(f, Invalidating, Opened)
    BY <1>3, <1>5, <1>6, LockSound
  <2>3. f \in FsState
    BY <2>2 DEF Sound
  <2>4. Keeps(f, h)
    BY <1>5, <1>6, <2>1, <2>3, AddLinksIs
  <2>5. h \in FsState
    BY <2>4 DEF Keeps
  <2>6. Fit(f, i) => Written(f, h, i)
    BY <1>5, <1>6, <2>1, AddLinksWritten
  <2>7. h.panic = "no" => Sound(h, Invalidating, Opened)
    BY <1>3, <1>5, <1>6, <2>4, <2>6, LockedWrite
  <2> QED
    BY <1>5, <1>6, <2>5, <2>7, UnlockSound
<1> QED
  BY <1>2, <1>7, <1>8, <1>9, BlocksEnd

----------------------------------------------------------------------------
(***************************************************************************)
(* The steps of create() and of sys_unlink(), sys_chdir()                  *)
(***************************************************************************)
LEMMA CreateBlocks ==
  ASSUME FsCore, BlocksCore, NEW p \in Proc, Create(p)
  PROVE  BlocksCore' \/ Stuck'
<1>1. PICK s, q : s = todo[p] /\ q = ret[p]
  OBVIOUS
<1>2. At(p, "create") /\ UNCHANGED file
  BY DEF Create
<1>3. todo[p] # <<>> /\ Calm(todo[p]) /\ Paired(todo[p])
  BY <1>2, AtBlocks
<1>4. q # 0 => q \in Inum /\ itable[q].ref >= 1
  BY <1>1, <1>2, StepIs
<1>5. q \in Inum /\ itable[q].ref >= 1 /\ itable[q].lock = None
  BY <1>1, <1>4 DEF Create, Unlocked
<1>6. PICK f0, f, k, i : /\ f0 = Ilock(State, p, q) /\ f = AsDir(f0, q)
                         /\ k = Dirlookup(f, q, Arg(p, 1)) /\ i = Entry(f, q, k)
  OBVIOUS
<1>7. PICK h, g : h = Iget(f, i) /\ g = Iunlock(h, p, q)
  OBVIOUS
<1>8. PICK a, b, c : /\ a = <<"put", q>> /\ b = <<"created", i, Arg(p, 2)>>
                     /\ c = <<"ialloc", q, Arg(p, 1), Arg(p, 2)>>
  OBVIOUS
<1>9. (k # 0 /\ Become(g) /\ Go(p, <<a, b>>, 0)) \/ (Become(f) /\ Go(p, <<c>>, 0))
  BY <1>1, <1>6, <1>7, <1>8 DEF Create
<1>10. Steady(p) /\ todo'[p] # <<>>
  <2>1. c[1] \notin {"free", "invalid", "unlock"}
    BY <1>8
  <2>2. a[1] \notin {"free", "invalid"} /\ a[1] # "unlock" /\ b[1] # "unlock"
    BY <1>8
  <2> QED
    BY <1>3, <1>9, <2>1, <2>2, GoSteady1, GoSteady2
<1>11. Sound(f, Invalidating, Opened) /\ f \in FsState
  <2>1. Sound(f0, Invalidating, Opened)
    BY <1>3, <1>5, <1>6, LockSound
  <2>2. Sound(f, Invalidating, Opened)
    BY <1>5, <1>6, <2>1, SoundAsDir
  <2> QED
    BY <2>2 DEF Sound
<1>12. k # 0 => Sound(g, Invalidating, Opened)
  <2>1. SUFFICES ASSUME k # 0 PROVE Sound(g, Invalidating, Opened)
    OBVIOUS
  <2>2. PICK name : name = Arg(p, 1)
    OBVIOUS
  <2>3. k = Dirlookup(f, q, name)
    BY <1>6, <2>2
  <2>4. i \in Inum
    BY <1>5, <1>6, <1>11, <2>1, <2>3, DirlookupIs
  <2>5. Sound(h, Invalidating, Opened)
    BY <1>7, <1>11, <2>4, SoundIget
  <2> QED
    BY <1>5, <1>7, <2>5, SoundIunlock
<1> QED
  BY <1>2, <1>9, <1>10, <1>11, <1>12, BlocksEnd

\* A free inode is taken: it has no blocks, and no copy.
LEMMA Taken ==
  ASSUME NEW f, NEW X, NEW V, Sound(f, X, V), f.panic = "no", NEW e \in Inum, f.di[e].type = "none",
         NEW ino \in Dinode, Blocks(ino) = {}, NEW h, h = [f EXCEPT !.di[e] = ino]
  PROVE  Sound(h, X, V)
<1>1. f \in FsState /\ OwnedIn(f) /\ f.it[e].ref >= 0
  BY DEF Sound
<1>2. /\ h \in FsState /\ h.it = f.it /\ h.used = f.used /\ h.panic = f.panic
      /\ h.di[e] = ino /\ \A j \in Inum : j # e => h.di[j] = f.di[j]
  BY <1>1 DEF FsState
<1>3. Blocks(f.di[e]) = {}
  BY <1>1 DEF OwnedIn
<1>4. OwnedIn(h)
  <2>1. ASSUME NEW j \in Inum
        PROVE  Blocks(h.di[j]) = Blocks(f.di[j]) /\ (h.di[j].type = "none" => Blocks(f.di[j]) = {})
    <3>1. CASE j = e
      BY <1>2, <1>3, <3>1
    <3>2. CASE j # e
      BY <1>1, <1>2, <3>2 DEF OwnedIn
    <3> QED
      BY <3>1, <3>2
  <2>2. PICK x : x = h
    OBVIOUS
  <2>3. \A j \in Inum : Blocks(x.di[j]) = Blocks(f.di[j]) /\ (x.di[j].type = "none" => Blocks(f.di[j]) = {})
    BY <2>1, <2>2
  <2>4. x.used = f.used /\ OwnedIn(f)
    BY <1>1, <1>2, <2>2
  <2>5. OwnedIn(x)
    BY <2>3, <2>4 DEF OwnedIn
  <2> QED
    BY <2>2, <2>5
<1>5. OnlyAt(f, h, e)
  BY <1>2 DEF OnlyAt
<1>6. Copied(h, e, X, V)
  <2>1. Copied(f, e, X, V)
    BY DEF Sound
  <2> QED
    BY <1>2, <2>1 DEF Copied, Fresh
<1> QED
  BY <1>1, <1>2, <1>4, <1>5, <1>6, SoundAt

LEMMA IallocBlocks ==
  ASSUME FsCore, BlocksCore, NEW p \in Proc, Ialloc(p)
  PROVE  BlocksCore'
<1>1. PICK s, d : s = todo[p] /\ d = Arg(p, 1)
  OBVIOUS
<1>2. At(p, "ialloc") /\ UNCHANGED file
  BY DEF Ialloc
<1>3. /\ todo[p] # <<>> /\ Calm(todo[p]) /\ Paired(todo[p]) /\ Sound(State, Invalidating, Opened)
      /\ State.di = dinode /\ State.panic = "no"
  BY <1>2, AtBlocks
<1>4. s[1] \in FsStep /\ s[1][1] = "ialloc" /\ Arg(p, 2) = s[1][3] /\ Arg(p, 3) = s[1][4]
  BY <1>1, <1>2, StepIs
<1>5. PICK free, w, ty : free = {j \in Inum : dinode[j].type = "none"} /\ w = Arg(p, 2) /\ ty = Arg(p, 3)
  OBVIOUS
<1>6. ty \in Types
  BY <1>4, <1>5, StepArgs
<1>7. CASE free = {}
  <2>1. PICK a, b : a = <<"unlock", d>> /\ b = <<"put", d>>
    OBVIOUS
  <2>2. Become(State) /\ Go(p, <<a, b>>, 0)
    BY <1>1, <1>5, <1>7, <2>1 DEF Ialloc
  <2>3. a[1] \notin {"free", "invalid"} /\ b[2] = a[2] /\ b[1] # "unlock"
    BY <2>1
  <2>4. Steady(p)
    BY <1>3, <2>2, <2>3, GoSteady2
  <2> QED
    BY <1>2, <1>3, <2>2, <2>4, BlocksStay
<1>8. CASE free # {}
  <2>1. PICK e : e = CHOOSE j \in free : \A k \in free : j <= k
    OBVIOUS
  <2>2. e \in Inum /\ dinode[e].type = "none"
    <3>1. free \subseteq 1 .. NInodes /\ NInodes \in Nat
      BY <1>5, Sizes DEF Inum
    <3>2. \E j \in free : \A k \in free : j <= k
      BY <1>8, <3>1, FirstOne
    <3>3. e \in free
      BY <2>1, <3>2
    <3> QED
      BY <1>5, <3>3
  <2>3. PICK ino, h, g, a : /\ ino = [FreeInode EXCEPT !.type = ty]
                            /\ h = [State EXCEPT !.di[e] = ino] /\ g = Iget(h, e)
                            /\ a = <<"fill", d, w, ty, e>>
    OBVIOUS
  <2>4. Become(g) /\ Go(p, <<a>>, 0)
    BY <1>1, <1>5, <1>8, <2>1, <2>3 DEF Ialloc
  <2>5. ino \in Dinode /\ Blocks(ino) = {}
    <3>1. PICK z \in Dinode : z = FreeInode
      BY FreeInodeIs
    <3>2. ty \in Types \union {"none"} /\ ino = [z EXCEPT !.type = ty]
      BY <1>6, <2>3, <3>1
    <3>3. ino \in Dinode /\ ino.addrs = z.addrs /\ ino.ind = z.ind /\ ino.a = z.a
      BY <3>2 DEF Dinode
    <3>4. z.addrs = <<>> /\ z.ind = 0 /\ z.a = <<>>
      BY <3>1 DEF FreeInode
    <3>5. ToSet(ino.addrs) = {} /\ ToSet(ino.a) = {} /\ {ino.ind} \ {0} = {}
      BY <3>3, <3>4 DEF ToSet
    <3> QED
      BY <3>3, <3>5 DEF Blocks
  <2>6. Sound(h, Invalidating, Opened)
    BY <1>3, <2>2, <2>3, <2>5, Taken
  <2>7. Sound(g, Invalidating, Opened)
    BY <2>2, <2>3, <2>6, SoundIget
  <2>8. a[1] \notin {"free", "invalid", "unlock"}
    BY <2>3
  <2>9. Steady(p)
    BY <1>3, <2>4, <2>8, GoSteady1
  <2> QED
    BY <1>2, <2>4, <2>7, <2>9, BlocksStay
<1> QED
  BY <1>7, <1>8

LEMMA UnlinkBlocks ==
  ASSUME FsCore, BlocksCore, NEW p \in Proc, Unlink(p)
  PROVE  BlocksCore' \/ Stuck'
<1>1. PICK s, q : s = todo[p] /\ q = ret[p]
  OBVIOUS
<1>2. At(p, "unlink") /\ UNCHANGED file
  BY DEF Unlink
<1>3. todo[p] # <<>> /\ Calm(todo[p]) /\ Paired(todo[p])
  BY <1>2, AtBlocks
<1>4. q # 0 => q \in Inum /\ itable[q].ref >= 1
  BY <1>1, <1>2, StepIs
<1>5. q \in Inum /\ itable[q].ref >= 1 /\ itable[q].lock = None
  BY <1>1, <1>4 DEF Unlink, Unlocked
<1>6. PICK f0, f, k, i : /\ f0 = Ilock(State, p, q) /\ f = AsDir(f0, q)
                         /\ k = Dirlookup(f, q, Arg(p, 1)) /\ i = Entry(f, q, k)
  OBVIOUS
<1>7. PICK h, g : h = Iget(f, i) /\ g = Iunlock(f, p, q)
  OBVIOUS
<1>8. PICK a, b : a = <<"put", q>> /\ b = <<"unlinkfile", q, i, k>>
  OBVIOUS
<1>9. (Become(g) /\ Go(p, <<a>>, 0)) \/ (k # 0 /\ Become(h) /\ Go(p, <<b>>, 0))
  BY <1>1, <1>6, <1>7, <1>8 DEF Unlink
<1>10. Steady(p) /\ todo'[p] # <<>>
  <2>1. a[1] \notin {"free", "invalid", "unlock"} /\ b[1] \notin {"free", "invalid", "unlock"}
    BY <1>8
  <2> QED
    BY <1>3, <1>9, <2>1, GoSteady1
<1>11. Sound(f, Invalidating, Opened) /\ f \in FsState
  <2>1. Sound(f0, Invalidating, Opened)
    BY <1>3, <1>5, <1>6, LockSound
  <2>2. Sound(f, Invalidating, Opened)
    BY <1>5, <1>6, <2>1, SoundAsDir
  <2> QED
    BY <2>2 DEF Sound
<1>12. k # 0 => Sound(h, Invalidating, Opened)
  <2>1. SUFFICES ASSUME k # 0 PROVE Sound(h, Invalidating, Opened)
    OBVIOUS
  <2>2. PICK name : name = Arg(p, 1)
    OBVIOUS
  <2>3. k = Dirlookup(f, q, name)
    BY <1>6, <2>2
  <2>4. i \in Inum
    BY <1>5, <1>6, <1>11, <2>1, <2>3, DirlookupIs
  <2> QED
    BY <1>7, <1>11, <2>4, SoundIget
<1>13. Sound(g, Invalidating, Opened)
  BY <1>5, <1>7, <1>11, SoundIunlock
<1> QED
  BY <1>2, <1>9, <1>10, <1>12, <1>13, BlocksEnd

LEMMA UnlinkDoneBlocks ==
  ASSUME FsCore, BlocksCore, NEW p \in Proc, UnlinkDone(p)
  PROVE  BlocksCore'
<1>1. PICK s, i : s = todo[p] /\ i = Arg(p, 1)
  OBVIOUS
<1>2. At(p, "unlinked") /\ UNCHANGED file
  BY DEF UnlinkDone
<1>3. /\ todo[p] # <<>> /\ Calm(todo[p]) /\ Paired(todo[p]) /\ panic = "no"
      /\ Sound(State, Invalidating, Opened)
  BY <1>2, AtBlocks
<1>4. s[1] \in FsStep /\ s[1][1] = "unlinked" /\ i = s[1][2]
  BY <1>1, <1>2, StepIs
<1>5. i \in Inum /\ itable[i].lock = p
  <2>1. i \in Inum
    BY <1>1, <1>4, StepArgs DEF Using
  <2>2. s[1][1] \in Locking
    BY <1>4 DEF Locking
  <2>3. s \in Seq(FsStep) /\ Shape(s) /\ s # <<>>
    BY <1>1, <1>3 DEF FsCore, FsType, Shapes
  <2>4. Len(s) \in 1 .. 4
    BY <2>3, ShapeLen
  <2> QED
    BY <1>1, <1>4, <2>1, <2>2, <2>4, LockedFirst
<1>6. PICK h, g, a, n : h = AddLinks(State, i, n) /\ g = Iunlock(h, p, i) /\ a = <<"put", i>> /\ n = -1
  OBVIOUS
<1>7. Become(g) /\ Go(p, <<a>>, 0)
  BY <1>1, <1>6 DEF UnlinkDone
<1>8. a[1] \notin {"free", "invalid", "unlock"}
  BY <1>6
<1>9. Steady(p)
  BY <1>3, <1>7, <1>8, GoSteady1
<1>10. Fit(State, i)
  BY <1>3, <1>5, HeldFit
<1>11. Written(State, h, i)
  <2>1. n \in Int
    BY <1>6
  <2> QED
    BY <1>5, <1>6, <1>10, <2>1, AddLinksWritten
<1>12. Sound(h, Invalidating, Opened)
  BY <1>3, <1>5, <1>11, SoundWritten
<1>13. Sound(g, Invalidating, Opened)
  BY <1>5, <1>6, <1>12, SoundIunlock
<1> QED
  BY <1>2, <1>7, <1>9, <1>13, BlocksStay

LEMMA ChdirBlocks ==
  ASSUME FsCore, BlocksCore, NEW p \in Proc, Chdir(p)
  PROVE  BlocksCore'
<1>1. PICK s, q : s = todo[p] /\ q = ret[p]
  OBVIOUS
<1>2. At(p, "chdir") /\ UNCHANGED file
  BY DEF Chdir
<1>3. todo[p] # <<>> /\ Calm(todo[p]) /\ Paired(todo[p])
  BY <1>2, AtBlocks
<1>4. q # 0 => q \in Inum /\ itable[q].ref >= 1
  BY <1>1, <1>2, StepIs
<1>5. q \in Inum /\ itable[q].ref >= 1 /\ itable[q].lock = None
  BY <1>1, <1>4 DEF Chdir, Unlocked
<1>6. PICK f, g : f = Ilock(State, p, q) /\ g = Iunlock(f, p, q)
  OBVIOUS
<1>7. PICK a, b, c : a = <<"put", q>> /\ b = <<"put", cwd[p]>> /\ c = <<"setcwd", q>>
  OBVIOUS
<1>8. Become(g) /\ (Go(p, <<a>>, 0) \/ Go(p, <<b, c>>, 0))
  BY <1>1, <1>6, <1>7 DEF Chdir
<1>9. Steady(p)
  <2>1. a[1] \notin {"free", "invalid", "unlock"}
    BY <1>7
  <2>2. b[1] \notin {"free", "invalid"} /\ b[1] # "unlock" /\ c[1] # "unlock"
    BY <1>7
  <2> QED
    BY <1>3, <1>8, <2>1, <2>2, GoSteady1, GoSteady2
<1>10. Sound(f, Invalidating, Opened)
  BY <1>3, <1>5, <1>6, LockSound
<1>11. Sound(g, Invalidating, Opened)
  BY <1>5, <1>6, <1>10, SoundIunlock
<1> QED
  BY <1>2, <1>8, <1>9, <1>11, BlocksStay

----------------------------------------------------------------------------
(***************************************************************************)
(* The new inode is written, and its entry                                 *)
(***************************************************************************)
Filling(f, i, e, w, dir, one, zero, f1, r1, r2, f2, bad) ==
  /\ f1 = Update(f, e, [f.it[e].ino EXCEPT !.nlink = one])
  /\ r1 = IF dir THEN Dots(f1, i, e) ELSE <<TRUE, f1>>
  /\ r2 = IF r1[1] THEN Dirlink(r1[2], i, w, e) ELSE r1
  /\ f2 = IF dir THEN AddLinks(r2[2], i, one) ELSE r2[2]
  /\ bad = Update(r2[2], e, [r2[2].it[e].ino EXCEPT !.nlink = zero])

LEMMA FillKeeps ==
  ASSUME NEW f \in FsState, NEW i \in Inum, NEW e \in Inum, NEW w \in Word, NEW dir \in BOOLEAN,
         NEW one \in Int, NEW zero \in Int, one = 1, zero = 0,
         NEW f1, NEW r1, NEW r2, NEW f2, NEW bad, Filling(f, i, e, w, dir, one, zero, f1, r1, r2, f2, bad)
  PROVE  Keeps(f, f2) /\ Keeps(f, bad)
<1>0. /\ f1 = Update(f, e, [f.it[e].ino EXCEPT !.nlink = one])
      /\ r1 = IF dir THEN Dots(f1, i, e) ELSE <<TRUE, f1>>
      /\ r2 = IF r1[1] THEN Dirlink(r1[2], i, w, e) ELSE r1
      /\ f2 = IF dir THEN AddLinks(r2[2], i, one) ELSE r2[2]
      /\ bad = Update(r2[2], e, [r2[2].it[e].ino EXCEPT !.nlink = zero])
  BY DEF Filling
<1>1. Keeps(f, f1)
  <2>1. PICK ino : ino = [f.it[e].ino EXCEPT !.nlink = one]
    OBVIOUS
  <2>2. ino \in Dinode
    <3>1. f.it[e].ino \in Dinode
      BY StateIs
    <3> QED
      BY <2>1, <3>1, DinodeIs
  <2>3. f1 = Update(f, e, ino)
    BY <1>0, <2>1
  <2> QED
    BY <2>2, <2>3, UpdateKeeps
<1>2. f1 \in FsState
  BY <1>1 DEF Keeps
<1>3. Keeps(f1, r1[2])
  <2>1. CASE dir
    <3>1. r1 = Dots(f1, i, e)
      BY <1>0, <2>1
    <3> QED
      BY <1>2, <3>1, DotsIs
  <2>2. CASE ~dir
    <3>1. r1[2] = f1
      BY <1>0, <2>2
    <3> QED
      BY <1>2, <3>1, KeepsSelf
  <2> QED
    BY <2>1, <2>2
<1>4. PICK h1, h2 : h1 = r1[2] /\ h2 = r2[2]
  OBVIOUS
<1>5. Keeps(f, h1) /\ h1 \in FsState
  <2>1. Keeps(f1, h1) /\ h1 \in FsState
    BY <1>3, <1>4 DEF Keeps
  <2> QED
    BY <1>1, <2>1, KeepsTrans
<1>6. Keeps(h1, h2)
  <2>1. CASE r1[1]
    <3>1. r2 = Dirlink(h1, i, w, e)
      BY <1>0, <1>4, <2>1
    <3>2. Keeps(h1, r2[2])
      BY <1>5, <3>1, DirlinkIs
    <3> QED
      BY <1>4, <3>2
  <2>2. CASE ~r1[1]
    <3>1. h2 = h1
      BY <1>0, <1>4, <2>2
    <3> QED
      BY <1>5, <3>1, KeepsSelf
  <2> QED
    BY <2>1, <2>2
<1>7. Keeps(f, h2) /\ h2 \in FsState
  <2>1. h2 \in FsState
    BY <1>6 DEF Keeps
  <2> QED
    BY <1>5, <1>6, <2>1, KeepsTrans
<1>8. Keeps(h2, f2)
  <2>1. CASE dir
    <3>1. f2 = AddLinks(h2, i, one)
      BY <1>0, <1>4, <2>1
    <3> QED
      BY <1>7, <3>1, AddLinksIs
  <2>2. CASE ~dir
    <3>1. f2 = h2
      BY <1>0, <1>4, <2>2
    <3> QED
      BY <1>7, <3>1, KeepsSelf
  <2> QED
    BY <2>1, <2>2
<1>9. Keeps(h2, bad)
  <2>1. PICK ino : ino = [h2.it[e].ino EXCEPT !.nlink = zero]
    OBVIOUS
  <2>2. ino \in Dinode
    <3>1. h2.it[e].ino \in Dinode
      BY <1>7, StateIs
    <3> QED
      BY <2>1, <3>1, DinodeIs
  <2>3. bad = Update(h2, e, ino)
    BY <1>0, <1>4, <2>1
  <2> QED
    BY <1>7, <2>2, <2>3, UpdateKeeps
<1> QED
  BY <1>7, <1>8, <1>9, KeepsTrans

LEMMA FillWrites ==
  ASSUME NEW f, NEW X, NEW V, Sound(f, X, V), NEW i \in Inum, NEW e \in Inum, Fit(f, i), Fit(f, e),
         NEW w \in Word, NEW dir \in BOOLEAN, NEW one \in Int, NEW zero \in Int, one = 1, zero = 0,
         NEW f1, NEW r1, NEW r2, NEW f2, NEW bad, Filling(f, i, e, w, dir, one, zero, f1, r1, r2, f2, bad)
  PROVE  Sound(f2, X, V) /\ Sound(bad, X, V)
<1>0. /\ f1 = Update(f, e, [f.it[e].ino EXCEPT !.nlink = one])
      /\ r1 = IF dir THEN Dots(f1, i, e) ELSE <<TRUE, f1>>
      /\ r2 = IF r1[1] THEN Dirlink(r1[2], i, w, e) ELSE r1
      /\ f2 = IF dir THEN AddLinks(r2[2], i, one) ELSE r2[2]
      /\ bad = Update(r2[2], e, [r2[2].it[e].ino EXCEPT !.nlink = zero])
  BY DEF Filling
<1>1. Written(f, f1, e)
  BY <1>0, NlinkWritten
<1>2. Sound(f1, X, V) /\ Fit(f1, i) /\ Fit(f1, e)
  <2>1. Sound(f1, X, V)
    BY <1>1, SoundWritten
  <2>2. Fit(f1, i) /\ Fit(f1, e)
    BY <1>1, WrittenFit
  <2> QED
    BY <2>1, <2>2
<1>3. PICK h1, h2 : h1 = r1[2] /\ h2 = r2[2]
  OBVIOUS
<1>4. Written(f1, h1, e)
  <2>1. CASE dir
    <3>1. r1 = Dots(f1, i, e)
      BY <1>0, <2>1
    <3> QED
      BY <1>2, <1>3, <3>1, DotsWritten
  <2>2. CASE ~dir
    <3>1. h1 = f1
      BY <1>0, <1>3, <2>2
    <3> QED
      BY <1>2, <3>1, WrittenSelf
  <2> QED
    BY <2>1, <2>2
<1>5. Sound(h1, X, V) /\ Fit(h1, i) /\ Fit(h1, e)
  <2>1. Sound(h1, X, V)
    BY <1>2, <1>4, SoundWritten
  <2>2. Fit(h1, i) /\ Fit(h1, e)
    BY <1>2, <1>4, WrittenFit
  <2> QED
    BY <2>1, <2>2
<1>6. Written(h1, h2, i)
  <2>1. CASE r1[1]
    <3>1. r2 = Dirlink(h1, i, w, e)
      BY <1>0, <1>3, <2>1
    <3>2. Written(h1, r2[2], i)
      BY <1>5, <3>1, DirlinkWritten
    <3> QED
      BY <1>3, <3>2
  <2>2. CASE ~r1[1]
    <3>1. h2 = h1
      BY <1>0, <1>3, <2>2
    <3> QED
      BY <1>5, <3>1, WrittenSelf
  <2> QED
    BY <2>1, <2>2
<1>7. Sound(h2, X, V) /\ Fit(h2, i) /\ Fit(h2, e)
  <2>1. Sound(h2, X, V)
    BY <1>5, <1>6, SoundWritten
  <2>2. Fit(h2, i) /\ Fit(h2, e)
    BY <1>5, <1>6, WrittenFit
  <2> QED
    BY <2>1, <2>2
<1>8. Sound(f2, X, V)
  <2>1. CASE dir
    <3>1. f2 = AddLinks(h2, i, one)
      BY <1>0, <1>3, <2>1
    <3>2. Written(h2, f2, i)
      BY <1>7, <3>1, AddLinksWritten
    <3> QED
      BY <1>7, <3>2, SoundWritten
  <2>2. CASE ~dir
    <3>1. f2 = h2
      BY <1>0, <1>3, <2>2
    <3> QED
      BY <1>7, <3>1
  <2> QED
    BY <2>1, <2>2
<1>9. Sound(bad, X, V)
  <2>1. bad = Update(h2, e, [h2.it[e].ino EXCEPT !.nlink = zero])
    BY <1>0, <1>3
  <2>2. Written(h2, bad, e)
    BY <1>7, <2>1, NlinkWritten
  <2> QED
    BY <1>7, <2>2, SoundWritten
<1> QED
  BY <1>8, <1>9

\* A second inode is locked.
LEMMA LockedBoth ==
  ASSUME FsCore, BlocksCore, NEW p \in Proc, Calm(todo[p]), panic = "no", NEW i \in Inum, itable[i].lock = p,
         NEW e \in Inum, itable[e].ref >= 1, itable[e].lock = None,
         NEW f, f = Ilock(State, p, e), f.panic = "no"
  PROVE  Sound(f, Invalidating, Opened) /\ Fit(f, i) /\ Fit(f, e)
<1>1. Sound(f, Invalidating, Opened) /\ Fit(f, e)
  BY LockSound
<1>2. i \notin Invalidating
  BY NotFreed
<1>3. f.it[i].lock # None
  <2>1. i # e
    BY Sizes
  <2>2. State \in FsState /\ State.it = itable
    BY DEF BlocksCore, Sound, State
  <2>3. State.it[e].ref >= 1
    BY <2>2
  <2>4. \A j \in Inum : j # e => f.it[j] = State.it[j]
    BY <2>2, <2>3, IlockIs
  <2>5. f.it[i] = itable[i]
    BY <2>1, <2>2, <2>4
  <2> QED
    BY <2>5, Sizes
<1> QED
  BY <1>1, <1>2, <1>3, FitIs

LEMMA FillBlocks ==
  ASSUME FsCore, BlocksCore, NEW p \in Proc, Fill(p)
  PROVE  BlocksCore' \/ Stuck'
<1>1. PICK s, q : s = todo[p] /\ q = ret[p]
  OBVIOUS
<1>2. At(p, "fill") /\ UNCHANGED file
  BY DEF Fill
<1>3. /\ todo[p] # <<>> /\ Calm(todo[p]) /\ Paired(todo[p]) /\ Sound(State, Invalidating, Opened)
      /\ State.it = itable
  BY <1>2, AtBlocks
<1>4. /\ s[1] \in FsStep /\ s[1][1] = "fill"
      /\ Arg(p, 1) = s[1][2] /\ Arg(p, 2) = s[1][3] /\ Arg(p, 3) = s[1][4] /\ Arg(p, 4) = s[1][5]
  BY <1>1, <1>2, StepIs
<1>5. PICK i, w, e : /\ i = Arg(p, 1) /\ i = s[1][2] /\ w = Arg(p, 2) /\ e = Arg(p, 4) /\ e = s[1][5]
  BY <1>4
<1>6. i \in Inum /\ w \in Word /\ e \in Inum
  <2>1. i \in Inum
    BY <1>4, <1>5, StepArgs DEF Using
  <2>2. w \in Word /\ e \in Inum
    BY <1>4, <1>5, StepArgs
  <2> QED
    BY <2>1, <2>2
<1>7. itable[e].ref >= 1 /\ itable[i].lock = p /\ itable[e].lock = None
  <2>1. itable[e].ref >= 1
    BY <1>1, <1>3, <1>4, <1>5, <1>6, HasRef
  <2>2. itable[i].lock = p
    <3>1. s[1][1] \in Locking /\ s[1][1] \in InCreate \union Alone
      BY <1>4 DEF Locking, InCreate
    <3>2. Len(s) \in 1 .. 4
      BY <1>1, <1>3, <3>1, EndsAt
    <3> QED
      BY <1>1, <1>5, <1>6, <3>1, <3>2, LockedFirst
  <2>3. itable[e].lock = None
    BY <1>5 DEF Fill, Unlocked
  <2> QED
    BY <2>1, <2>2, <2>3
<1>8. PICK dir : dir = (Arg(p, 3) = "T_DIR")
  OBVIOUS
<1>9. PICK one, zero \in Int : one = 1 /\ zero = 0
  OBVIOUS
<1>10. PICK f, f1, r1, r2, f2, bad :
        /\ f = Ilock(State, p, e)
        /\ f1 = Update(f, e, [f.it[e].ino EXCEPT !.nlink = one])
        /\ r1 = IF dir THEN Dots(f1, i, e) ELSE <<TRUE, f1>>
        /\ r2 = IF r1[1] THEN Dirlink(r1[2], i, w, e) ELSE r1
        /\ f2 = IF dir THEN AddLinks(r2[2], i, one) ELSE r2[2]
        /\ bad = Update(r2[2], e, [r2[2].it[e].ino EXCEPT !.nlink = zero])
  OBVIOUS
<1>11. Filling(f, i, e, w, dir, one, zero, f1, r1, r2, f2, bad)
  BY <1>10 DEF Filling
<1>12. PICK g, h, a, b, c : /\ g = Iunlock(f2, p, i) /\ h = Iunlock(bad, p, e)
                            /\ a = <<"put", i>> /\ b = <<"put", e>> /\ c = <<"unlock", i>>
  OBVIOUS
<1>13. (Become(g) /\ Go(p, <<a>>, e)) \/ (Become(h) /\ Go(p, <<b, c, a>>, 0))
  BY <1>5, <1>8, <1>9, <1>10, <1>12 DEF Fill
<1>14. Steady(p) /\ todo'[p] # <<>>
  <2>1. /\ a[1] \notin {"free", "invalid", "unlock"} /\ b[1] \notin {"free", "invalid", "unlock"}
        /\ a[2] = c[2] /\ a[1] # "unlock"
    BY <1>12
  <2>2. CASE Go(p, <<a>>, e)
    BY <1>3, <2>1, <2>2, GoSteady1
  <2>3. CASE Go(p, <<b, c, a>>, 0)
    BY <1>3, <2>1, <2>3, GoSteady3
  <2> QED
    BY <1>13, <2>2, <2>3
<1>15. f \in FsState /\ dir \in BOOLEAN
  <2>1. Sound(f, Invalidating, Opened)
    BY <1>3, <1>6, <1>7, <1>10, LockSound
  <2> QED
    BY <1>8, <2>1 DEF Sound
<1>16. Keeps(f, f2) /\ Keeps(f, bad)
  BY <1>6, <1>9, <1>11, <1>15, FillKeeps
<1>17. f.panic = "no" => Sound(f2, Invalidating, Opened) /\ Sound(bad, Invalidating, Opened)
  <2>1. SUFFICES ASSUME f.panic = "no"
                 PROVE  Sound(f2, Invalidating, Opened) /\ Sound(bad, Invalidating, Opened)
    OBVIOUS
  <2>2. panic = "no"
    BY <1>2, AtBlocks
  <2>3. Sound(f, Invalidating, Opened) /\ Fit(f, i) /\ Fit(f, e)
    BY <1>3, <1>6, <1>7, <1>10, <2>1, <2>2, LockedBoth
  <2> QED
    BY <1>6, <1>9, <1>11, <1>15, <2>3, FillWrites
<1>18. /\ f2 \in FsState /\ (f2.panic = "no" => Sound(f2, Invalidating, Opened))
       /\ bad \in FsState /\ (bad.panic = "no" => Sound(bad, Invalidating, Opened))
  BY <1>16, <1>17 DEF Keeps
<1>19. g.panic = "no" => Sound(g, Invalidating, Opened)
  BY <1>6, <1>12, <1>18, UnlockSound
<1>20. h.panic = "no" => Sound(h, Invalidating, Opened)
  BY <1>6, <1>12, <1>18, UnlockSound
<1> QED
  BY <1>2, <1>13, <1>14, <1>19, <1>20, BlocksEnd

\* The entry of the name is freed, and the link of "..".
EntryFreed(f, i, k, dir, r, h) ==
  /\ r = Writei(f, i, k - 1, FreeEntry, TRUE)
  /\ h = IF dir THEN AddLinks(r[2], i, -1) ELSE r[2]

LEMMA UnlinkWrites ==
  ASSUME NEW f \in FsState, NEW X, NEW V, NEW i \in Inum, f.panic = "no" => Sound(f, X, V) /\ Fit(f, i),
         NEW k \in Nat \ {0}, NEW r, NEW dir, NEW h, EntryFreed(f, i, k, dir, r, h)
  PROVE  h \in FsState /\ (h.panic = "no" => Sound(h, X, V))
<1>1. PICK off, v, all, n, h1 : off = k - 1 /\ v = FreeEntry /\ all = TRUE /\ n = -1 /\ h1 = r[2]
  OBVIOUS
<1>2. off \in Nat /\ n \in Int
  BY <1>1
<1>3. v \in Word \X (0 .. NInodes)
  <2>1. PICK x \in Word : x = ""
    BY Words, Zenon
  <2>2. v = <<x, 0>>
    BY <1>1, <2>1, Zenon DEF FreeEntry
  <2> QED
    BY <2>2, Sizes
<1>4. r = Writei(f, i, off, v, all)
  BY <1>1 DEF EntryFreed
<1>5. Keeps(f, h1)
  <2>1. Keeps(f, r[2])
    BY <1>2, <1>3, <1>4, WriteiIs
  <2> QED
    BY <1>1, <2>1
<1>6. h1 \in FsState
  BY <1>5 DEF Keeps
<1>7. dir => h = AddLinks(h1, i, n)
  BY <1>1 DEF EntryFreed
<1>8. ~dir => h = h1
  BY <1>1 DEF EntryFreed
<1>9. Keeps(h1, h)
  <2>1. CASE dir
    BY <1>2, <1>6, <1>7, <2>1, AddLinksIs
  <2>2. CASE ~dir
    BY <1>6, <1>8, <2>2, KeepsSelf
  <2> QED
    BY <2>1, <2>2
<1>10. h \in FsState /\ (h.panic = "no" => f.panic = "no")
  BY <1>5, <1>9 DEF Keeps
<1>11. ASSUME f.panic = "no" PROVE Sound(h, X, V)
  <2>1. Sound(f, X, V) /\ Fit(f, i)
    BY <1>11
  <2>2. Written(f, h1, i)
    <3>1. Written(f, r[2], i)
      BY <1>2, <1>3, <1>4, <2>1, WriteiWritten
    <3> QED
      BY <1>1, <3>1
  <2>3. Sound(h1, X, V) /\ Fit(h1, i)
    <3>1. Sound(h1, X, V)
      BY <2>1, <2>2, SoundWritten
    <3>2. Fit(h1, i)
      BY <2>1, <2>2, WrittenFit
    <3> QED
      BY <3>1, <3>2
  <2>4. CASE dir
    <3>1. Written(h1, h, i)
      BY <1>2, <1>7, <2>3, <2>4, AddLinksWritten
    <3> QED
      BY <2>3, <3>1, SoundWritten
  <2>5. CASE ~dir
    BY <1>8, <2>3, <2>5
  <2> QED
    BY <2>4, <2>5
<1> QED
  BY <1>10, <1>11

LEMMA UnlinkFileBlocks ==
  ASSUME FsCore, BlocksCore, NEW p \in Proc, UnlinkFile(p)
  PROVE  BlocksCore' \/ Stuck'
<1>1. PICK s, q : s = todo[p] /\ q = ret[p]
  OBVIOUS
<1>2. At(p, "unlinkfile") /\ UNCHANGED file
  BY DEF UnlinkFile
<1>3. /\ todo[p] # <<>> /\ Calm(todo[p]) /\ Paired(todo[p]) /\ Sound(State, Invalidating, Opened)
      /\ panic = "no"
  BY <1>2, AtBlocks
<1>4. /\ s[1] \in FsStep /\ s[1][1] = "unlinkfile"
      /\ Arg(p, 1) = s[1][2] /\ Arg(p, 2) = s[1][3] /\ Arg(p, 3) = s[1][4]
  BY <1>1, <1>2, StepIs
<1>5. PICK i, e, k : /\ i = Arg(p, 1) /\ i = s[1][2] /\ e = Arg(p, 2) /\ e = s[1][3]
                     /\ k = Arg(p, 3) /\ k = s[1][4]
  BY <1>4
<1>6. i \in Inum /\ k \in Nat \ {0} /\ e \in Inum
  <2>1. i \in Inum
    BY <1>4, <1>5, StepArgs DEF Using
  <2>2. k \in Nat \ {0} /\ e \in Inum
    BY <1>4, <1>5, StepArgs
  <2> QED
    BY <2>1, <2>2
<1>7. itable[e].ref >= 1 /\ itable[i].lock = p /\ itable[e].lock = None
  <2>1. itable[e].ref >= 1
    BY <1>1, <1>3, <1>4, <1>5, <1>6, HasRef
  <2>2. itable[i].lock = p
    <3>1. s[1][1] \in Locking /\ s[1][1] \in InCreate \union Alone
      BY <1>4 DEF Locking, Alone
    <3>2. Len(s) \in 1 .. 4
      BY <1>1, <1>3, <3>1, EndsAt
    <3> QED
      BY <1>1, <1>5, <1>6, <3>1, <3>2, LockedFirst
  <2>3. itable[e].lock = None
    BY <1>5 DEF UnlinkFile, Unlocked
  <2> QED
    BY <2>1, <2>2, <2>3
<1>8. PICK f, r, dir : /\ f = Ilock(State, p, e)
                       /\ r = Writei(f, i, k - 1, FreeEntry, TRUE)
                       /\ dir = (f.it[e].ino.type = "T_DIR")
  OBVIOUS
<1>9. PICK h : h = IF dir THEN AddLinks(r[2], i, -1) ELSE r[2]
  OBVIOUS
<1>10. PICK g1, g2, a, b, c, d : /\ g1 = Iunlock(f, p, e) /\ g2 = Iunlock(h, p, i)
                                 /\ a = <<"put", e>> /\ b = <<"unlock", i>> /\ c = <<"put", i>>
                                 /\ d = <<"unlinked", e>>
  OBVIOUS
<1>11. \/ Become(Panic(f, "unlink: nlink < 1")) /\ UNCHANGED <<todo, ret>>
       \/ Become(Panic(f, "unlink: writei")) /\ UNCHANGED <<todo, ret>>
       \/ Become(g1) /\ Go(p, <<a, b, c>>, 0)
       \/ Become(g2) /\ Go(p, <<c, d>>, 0)
  BY <1>5, <1>8, <1>9, <1>10 DEF UnlinkFile
<1>12. f \in FsState /\ (f.panic = "no" => Sound(f, Invalidating, Opened) /\ Fit(f, i))
  <2>1. Sound(f, Invalidating, Opened)
    BY <1>3, <1>6, <1>7, <1>8, LockSound
  <2>2. f.panic = "no" => Fit(f, i)
    BY <1>3, <1>6, <1>7, <1>8, LockedBoth
  <2> QED
    BY <2>1, <2>2 DEF Sound
<1>13. CASE \/ Become(Panic(f, "unlink: nlink < 1")) /\ UNCHANGED <<todo, ret>>
            \/ Become(Panic(f, "unlink: writei")) /\ UNCHANGED <<todo, ret>>
  <2>1. PICK m \in Message : m # "no" /\ Become(Panic(f, m)) /\ UNCHANGED <<todo, ret>>
    BY <1>13, Messages
  <2>2. PICK g : g = Panic(f, m) /\ Become(g)
    BY <2>1
  <2>3. g.panic # "no"
    BY <1>12, <2>1, <2>2, PanicIs
  <2>4. panic' # "no"
    BY <2>2, <2>3, BecomeIs
  <2>5. todo'[p] # <<>>
    BY <1>3, <2>1
  <2> QED
    BY <2>4, <2>5, PanicSticks
<1>14. CASE (Become(g1) /\ Go(p, <<a, b, c>>, 0)) \/ (Become(g2) /\ Go(p, <<c, d>>, 0))
  <2>1. Steady(p) /\ todo'[p] # <<>>
    <3>1. /\ a[1] \notin {"free", "invalid", "unlock"} /\ b[2] = c[2] /\ c[1] # "unlock" /\ d[1] # "unlock"
          /\ c[1] \notin {"free", "invalid"}
      BY <1>10
    <3>2. CASE Go(p, <<a, b, c>>, 0)
      BY <1>3, <3>1, <3>2, GoSteady3
    <3>3. CASE Go(p, <<c, d>>, 0)
      BY <1>3, <3>1, <3>3, GoSteady2
    <3> QED
      BY <1>14, <3>2, <3>3
  <2>2. g1.panic = "no" => Sound(g1, Invalidating, Opened)
    BY <1>6, <1>10, <1>12, UnlockSound
  <2>3. h \in FsState /\ (h.panic = "no" => Sound(h, Invalidating, Opened))
    <3>1. EntryFreed(f, i, k, dir, r, h)
      BY <1>8, <1>9 DEF EntryFreed
    <3> QED
      BY <1>6, <1>12, <3>1, UnlinkWrites
  <2>4. g2.panic = "no" => Sound(g2, Invalidating, Opened)
    BY <1>6, <1>10, <2>3, UnlockSound
  <2> QED
    BY <1>2, <1>14, <2>1, <2>2, <2>4, BlocksEnd
<1> QED
  BY <1>11, <1>13, <1>14

----------------------------------------------------------------------------
(***************************************************************************)
(* The steps of iput(), of which two are between locking the inode and     *)
(* unlocking it: then it is free on the disk and valid in memory           *)
(***************************************************************************)
\* One step comes in place of the first one.
LEMMA GoPut ==
  ASSUME FsCore, NEW p \in Proc, todo[p] # <<>>, Paired(todo[p]), NEW a, a[1] # "unlock", NEW r, Go(p, <<a>>, r)
  PROVE  /\ Paired(todo'[p]) /\ \A q \in Proc : q # p => todo'[q] = todo[q]
         /\ todo'[p] # <<>> /\ todo'[p][1] = a
<1>1. PICK s : s = <<a>>
  OBVIOUS
<1>2. s \in Seq({a}) /\ Len(s) = 1 /\ s[1] = a /\ Len(s) > 0 /\ s[Len(s)][1] # "unlock"
  BY <1>1
<1>3. Paired(s)
  BY <1>2 DEF Paired
<1>4. Go(p, s, r)
  BY <1>1
<1> QED
  BY <1>2, <1>3, <1>4, GoSplice

\* The end of a step of iput(): the state g.
LEMMA BlocksMove ==
  ASSUME BlocksCore, NEW p \in Proc, Paired(todo'[p]), \A q \in Proc : q # p => todo'[q] = todo[q],
         NEW g, Become(g), UNCHANGED file, Opened \intersect Freeing' = {},
         NEW X, X \subseteq Invalidating', Sound(g, X, Opened)
  PROVE  BlocksCore'
<1>1. State' = g
  BY BecomeState DEF Sound
<1>2. Opened' = Opened
  BY DEF Opened
<1>3. Sound(g, Invalidating', Opened')
  BY <1>2, SoundFewer
<1>4. \A q \in Proc : Paired(todo'[q])
  BY DEF BlocksCore
<1> QED
  BY <1>1, <1>2, <1>3, <1>4 DEF BlocksCore

\* The inode that iput() has locked is not open, and only this step frees it.
LEMMA FreedOnce ==
  ASSUME FsCore, BlocksCore, NEW p \in Proc, NEW k \in {"free", "invalid"}, At(p, k), NEW i, i = Arg(p, 1)
  PROVE  /\ i \in Inum /\ i = todo[p][1][2] /\ itable[i].lock = p /\ i \in Freeing /\ i \notin Opened
         /\ k = "free" => i \notin Invalidating
         /\ todo[p] # <<>> /\ Paired(todo[p]) /\ panic = "no" /\ State.panic = "no"
         /\ State \in FsState /\ State.it = itable /\ State.di = dinode /\ State.used = bitmap
         /\ Sound(State, Invalidating, Opened)
<1>1. PICK s, r : s = todo[p] /\ r = ret[p]
  OBVIOUS
<1>2. panic = "no" /\ s # <<>> /\ Len(s) \in 1 .. 4 /\ s[1] \in FsStep /\ s[1][1] = k /\ FsType
  BY <1>1, AtIs
<1>3. i = s[1][2] /\ i \in Inum
  <2>1. i = s[1][2]
    BY <1>1 DEF Arg
  <2> QED
    BY <1>2, <2>1, StepArgs DEF Using, Putting
<1>4. itable[i].lock = p
  <2>1. s[1][1] \in Locking
    BY <1>2 DEF Locking
  <2> QED
    BY <1>1, <1>2, <1>3, <2>1, LockedFirst
<1>5. i \in Freeing
  BY <1>1, <1>2, <1>3 DEF Freeing, NextOf
<1>6. ASSUME k = "free", i \in Invalidating PROVE FALSE
  <2>1. PICK q \in Proc : todo[q] # <<>> /\ todo[q][1][1] = "invalid" /\ todo[q][1][2] = i
    BY <1>6 DEF Invalidating, NextOf
  <2>2. q # p
    BY <1>1, <1>2, <1>6, <2>1
  <2>3. PICK t : t = todo[q]
    OBVIOUS
  <2>4. t \in Seq(FsStep) /\ Shape(t) /\ t # <<>>
    BY <2>1, <2>3 DEF FsCore, FsType, Shapes
  <2>5. Len(t) \in 1 .. 4
    BY <2>4, ShapeLen
  <2>6. t[1][1] \in Locking /\ i = t[1][2]
    BY <2>1, <2>3 DEF Locking
  <2>7. itable[i].lock = q
    BY <1>3, <2>3, <2>5, <2>6, LockedFirst
  <2> QED
    BY <1>4, <2>2, <2>7
<1>7. i \notin Opened /\ Paired(todo[p]) /\ Sound(State, Invalidating, Opened)
  BY <1>5 DEF BlocksCore
<1>8. /\ State \in FsState /\ State.it = itable /\ State.di = dinode /\ State.used = bitmap
      /\ State.panic = panic
  BY <1>2, StateType
<1> QED
  BY <1>1, <1>2, <1>3, <1>4, <1>5, <1>6, <1>7, <1>8

\* An inode without blocks is freed on the disk, the copy with it.
LEMMA SoundFreed ==
  ASSUME NEW f, NEW X, NEW V, Sound(f, X, V), NEW i \in Inum, Blocks(f.di[i]) = {}, NEW ino \in Dinode,
         Blocks(ino) = {}, NEW g, g = Update(f, i, ino), NEW Y, X \subseteq Y, i \in Y
  PROVE  Sound(g, Y, V)
<1>1. f \in FsState /\ OwnedIn(f) /\ f.it[i].ref >= 0 /\ Sound(f, Y, V)
  BY SoundFewer DEF Sound
<1>2. /\ g \in FsState /\ g.used = f.used /\ g.panic = f.panic
      /\ \A j \in Inum : j # i => g.it[j] = f.it[j] /\ g.di[j] = f.di[j]
      /\ g.it[i].ref = f.it[i].ref /\ g.it[i].valid = f.it[i].valid /\ g.it[i].lock = f.it[i].lock
      /\ g.di[i] = ino
  BY <1>1, UpdateIs
<1>3. OwnedIn(g)
  <2>1. ASSUME NEW j \in Inum
        PROVE  /\ Blocks(g.di[j]) = Blocks(f.di[j])
               /\ g.di[j].type = "none" => Blocks(f.di[j]) = {}
    <3>1. CASE j = i
      BY <1>2, <3>1
    <3>2. CASE j # i
      BY <1>1, <1>2, <3>2 DEF OwnedIn
    <3> QED
      BY <3>1, <3>2
  <2> QED
    BY <1>1, <1>2, <2>1, OwnedSame
<1>4. OnlyAt(f, g, i)
  BY <1>2 DEF OnlyAt
<1>5. g.panic = "no" => Copied(g, i, Y, V)
  <2>1. f.panic = "no" => Copied(f, i, Y, V)
    BY <1>1 DEF Sound
  <2> QED
    BY <1>2, <2>1 DEF Copied
<1> QED
  BY <1>1, <1>2, <1>3, <1>4, <1>5, SoundAt

LEMMA FreeBlocks ==
  ASSUME FsCore, BlocksCore, NEW p \in Proc, Free(p)
  PROVE  BlocksCore'
<1>1. PICK i, r, k : i = Arg(p, 1) /\ r = ret[p] /\ k = "free"
  OBVIOUS
<1>2. At(p, k) /\ UNCHANGED file
  BY <1>1 DEF Free
<1>3. k \in {"free", "invalid"}
  BY <1>1
<1>4. /\ i \in Inum /\ i = todo[p][1][2] /\ itable[i].lock = p /\ i \in Freeing /\ i \notin Opened
      /\ i \notin Invalidating /\ todo[p] # <<>> /\ Paired(todo[p]) /\ State.panic = "no"
      /\ State.it = itable /\ Sound(State, Invalidating, Opened)
  BY <1>1, <1>2, <1>3, FreedOnce
<1>5. Fit(State, i)
  <2>1. State.it[i].lock # None
    BY <1>4, Sizes
  <2> QED
    BY <1>4, <2>1, FitIs
<1>6. PICK f : f = Itrunc(State, i)
  OBVIOUS
<1>7. Written(State, f, i) /\ Blocks(f.di[i]) = {}
  BY <1>4, <1>5, <1>6, ItruncWritten
<1>8. Sound(f, Invalidating, Opened) /\ f \in FsState
  <2>1. Sound(f, Invalidating, Opened)
    BY <1>4, <1>7, SoundWritten
  <2> QED
    BY <2>1 DEF Sound
<1>9. PICK ino, g : ino = [f.it[i].ino EXCEPT !.type = "none"] /\ g = Update(f, i, ino)
  OBVIOUS
<1>10. ino \in Dinode /\ Blocks(ino) = {}
  <2>1. f.it[i].ino \in Dinode /\ f.it[i].ino = f.di[i]
    BY <1>4, <1>7, <1>8, StateIs DEF Written
  <2>2. ino \in Dinode
    BY <1>9, <2>1 DEF Dinode
  <2>3. ino.addrs = f.di[i].addrs /\ ino.ind = f.di[i].ind /\ ino.a = f.di[i].a
    BY <1>9, <2>1 DEF Dinode
  <2> QED
    BY <1>7, <2>2, <2>3, BlocksOf
<1>11. PICK X : X = Invalidating \union {i}
  OBVIOUS
<1>12. Sound(g, X, Opened)
  BY <1>4, <1>7, <1>8, <1>9, <1>10, <1>11, SoundFreed
<1>13. PICK a : a = <<"invalid", i>>
  OBVIOUS
<1>14. Become(g) /\ Go(p, <<a>>, r)
  BY <1>1, <1>6, <1>9, <1>13 DEF Free
<1>15. /\ Paired(todo'[p]) /\ \A q \in Proc : q # p => todo'[q] = todo[q]
       /\ todo'[p] # <<>> /\ todo'[p][1] = a
  <2>1. a[1] # "unlock"
    BY <1>13
  <2> QED
    BY <1>4, <1>14, <2>1, GoPut
<1>16. X \subseteq Invalidating'
  <2>1. i \in Invalidating'
    BY <1>4, <1>13, <1>15 DEF Invalidating, NextOf
  <2>2. ASSUME NEW j \in Invalidating PROVE j \in Invalidating'
    <3>1. PICK q \in Proc : j \in Inum /\ todo[q] # <<>> /\ todo[q][1][1] = "invalid" /\ todo[q][1][2] = j
      BY <2>2 DEF Invalidating, NextOf
    <3>2. q # p
      BY <1>1, <1>2, <3>1 DEF At
    <3>3. todo'[q] = todo[q]
      BY <1>15, <3>2
    <3> QED
      BY <3>1, <3>3 DEF Invalidating, NextOf
  <2> QED
    BY <1>11, <2>1, <2>2
<1>17. Opened \intersect Freeing' = {}
  <2>1. ASSUME NEW j \in Freeing' PROVE j \in Freeing
    <3>1. PICK q \in Proc : /\ j \in Inum /\ todo'[q] # <<>> /\ todo'[q][1][1] \in {"free", "invalid"}
                            /\ todo'[q][1][2] = j
      BY <2>1 DEF Freeing, NextOf
    <3>2. CASE q = p
      BY <1>4, <1>13, <1>15, <3>1, <3>2
    <3>3. CASE q # p
      BY <1>15, <3>1, <3>3 DEF Freeing, NextOf
    <3> QED
      BY <3>2, <3>3
  <2> QED
    BY <2>1 DEF BlocksCore
<1> QED
  BY <1>2, <1>12, <1>14, <1>15, <1>16, <1>17, BlocksMove

LEMMA InvalidateBlocks ==
  ASSUME FsCore, BlocksCore, NEW p \in Proc, Invalidate(p)
  PROVE  BlocksCore'
<1>1. PICK i, r, k : i = Arg(p, 1) /\ r = ret[p] /\ k = "invalid"
  OBVIOUS
<1>2. At(p, k) /\ UNCHANGED file
  BY <1>1 DEF Invalidate
<1>3. k \in {"free", "invalid"}
  BY <1>1
<1>4. /\ i \in Inum /\ i = todo[p][1][2] /\ itable[i].lock = p /\ i \in Freeing /\ i \notin Opened
      /\ todo[p] # <<>> /\ Paired(todo[p]) /\ State.panic = "no"
      /\ State \in FsState /\ State.it = itable /\ Sound(State, Invalidating, Opened)
  BY <1>1, <1>2, <1>3, FreedOnce
<1>5. PICK e, g : e = Invalid(itable[i]) /\ g = PutEnt(State, i, e)
  OBVIOUS
<1>6. e \in Ent /\ e.ref = itable[i].ref /\ e.lock = None /\ ~e.valid
  <2>1. PICK d : d = [itable[i] EXCEPT !.valid = FALSE]
    OBVIOUS
  <2>2. d \in Ent /\ d.ref = itable[i].ref /\ ~d.valid
    <3>1. itable[i] \in Ent
      BY <1>4, StateIs
    <3> QED
      BY <2>1, <3>1 DEF Ent
  <2>3. e = [d EXCEPT !.lock = None]
    BY <1>5, <2>1 DEF Invalid
  <2> QED
    BY <2>2, <2>3 DEF Ent
<1>7. /\ g \in FsState /\ g.it[i] = e /\ \A j \in Inum : j # i => g.it[j] = State.it[j]
      /\ g.di = State.di /\ g.used = State.used /\ g.panic = State.panic
  BY SMTT(30), <1>4, <1>5, <1>6, EntryIs
<1>8. PICK X : X = Invalidating \ {i}
  OBVIOUS
<1>9. Sound(g, X, Opened)
  <2>1. OwnedIn(State) /\ State.it[i].ref >= 0 /\ \A j \in Inum : Copied(State, j, Invalidating, Opened)
    BY <1>4 DEF Sound
  <2>2. OwnedIn(g)
    BY <1>7, <2>1, OwnedStays
  <2>3. \A j \in Inum : g.it[j].ref >= 0
    <3>1. \A j \in Inum : State.it[j].ref >= 0
      BY <1>4 DEF Sound
    <3> QED
      BY <1>4, <1>6, <1>7, <3>1
  <2>4. \A j \in Inum : Copied(g, j, X, Opened)
    <3>1. ASSUME NEW j \in Inum PROVE Copied(g, j, X, Opened)
      <4>1. CASE j = i
        BY <1>4, <1>6, <1>7, <4>1 DEF Copied, Fresh
      <4>2. CASE j # i
        <5>1. Copied(State, j, Invalidating, Opened) /\ g.it[j] = State.it[j] /\ g.di[j] = State.di[j]
          BY <1>7, <2>1, <4>2
        <5>2. j \notin X => j \notin Invalidating
          BY <1>8, <4>2
        <5> QED
          BY <5>1, <5>2 DEF Copied
      <4> QED
        BY <4>1, <4>2
    <3> QED
      BY <3>1
  <2> QED
    BY <1>7, <2>2, <2>3, <2>4 DEF Sound
<1>10. PICK a : a = <<"drop", i>>
  OBVIOUS
<1>11. Become(g) /\ Go(p, <<a>>, r)
  <2>1. g = [State EXCEPT !.it[i] = Invalid(@)]
    BY <1>4, <1>5 DEF PutEnt, FsState
  <2> QED
    BY <1>1, <1>10, <2>1 DEF Invalidate
<1>12. /\ Paired(todo'[p]) /\ \A q \in Proc : q # p => todo'[q] = todo[q]
       /\ todo'[p] # <<>> /\ todo'[p][1] = a
  <2>1. a[1] # "unlock"
    BY <1>10
  <2> QED
    BY <1>4, <1>11, <2>1, GoPut
<1>13. X \subseteq Invalidating'
  <2>1. ASSUME NEW j \in X PROVE j \in Invalidating'
    <3>1. j \in Invalidating /\ j # i
      BY <1>8, <2>1
    <3>2. PICK q \in Proc : j \in Inum /\ todo[q] # <<>> /\ todo[q][1][1] = "invalid" /\ todo[q][1][2] = j
      BY <3>1 DEF Invalidating, NextOf
    <3>3. q # p
      BY <1>4, <3>1, <3>2
    <3>4. todo'[q] = todo[q]
      BY <1>12, <3>3
    <3> QED
      BY <3>2, <3>4 DEF Invalidating, NextOf
  <2> QED
    BY <2>1
<1>14. Opened \intersect Freeing' = {}
  <2>1. ASSUME NEW j \in Freeing' PROVE j \in Freeing
    <3>1. PICK q \in Proc : /\ j \in Inum /\ todo'[q] # <<>> /\ todo'[q][1][1] \in {"free", "invalid"}
                            /\ todo'[q][1][2] = j
      BY <2>1 DEF Freeing, NextOf
    <3>2. q # p
      BY <1>10, <1>12, <3>1
    <3> QED
      BY <1>12, <3>1, <3>2 DEF Freeing, NextOf
  <2> QED
    BY <2>1 DEF BlocksCore
<1> QED
  BY <1>2, <1>9, <1>11, <1>12, <1>13, <1>14, BlocksMove

----------------------------------------------------------------------------
(***************************************************************************)
(* iput(): the reference that goes is not that of an inode that is locked, *)
(* or open                                                                 *)
(***************************************************************************)
LEMMA EndNoUnlock ==
  ASSUME NEW s, NEW k \in Nat \ {0}, NEW m \in Nat, m = Len(s), EndFrom(s, k), NEW n \in k .. m
  PROVE  s[n][1] # "unlock"
  BY DEF EndFrom, Returns

LEMMA MainNoUnlock ==
  ASSUME NEW s, NEW k \in Nat \ {0}, NEW m \in Nat, m = Len(s), MainFrom(s, k), NEW n \in k .. m
  PROVE  s[n][1] # "unlock"
<1>1. CASE EndFrom(s, k)
  BY <1>1, EndNoUnlock
<1>2. CASE m = k /\ s[k][1] \in {"open", "link", "linkdir", "unlink", "chdir"}
  BY <1>2
<1>3. CASE m = k + 1 /\ s[k][1] = "create" /\ Returns(s[k + 1])
  BY <1>3 DEF Returns
<1> QED
  BY <1>1, <1>2, <1>3 DEF MainFrom

LEMMA StepsUnlock ==
  ASSUME NEW s, NEW k \in Nat \ {0}, NEW m \in Nat, m = Len(s), StepsFrom(s, k), NEW n \in k .. m,
         s[n][1] = "unlock"
  PROVE  n < m /\ s[n + 1][1] = "put"
<1>1. CASE MainFrom(s, k)
  BY <1>1, MainNoUnlock
<1>2. CASE WalkFrom(s, k)
  <2>1. n # k /\ n \in k + 1 .. m /\ k + 1 \in Nat \ {0} /\ MainFrom(s, k + 1)
    BY <1>2 DEF WalkFrom
  <2> QED
    BY <2>1, MainNoUnlock
<1>3. CASE UnlockFrom(s, k)
  <2>1. m > k /\ s[k + 1][1] = "put" /\ EndFrom(s, k + 2)
    BY <1>3 DEF UnlockFrom
  <2>2. n = k
    <3>1. CASE n = k + 1
      BY <2>1, <3>1
    <3>2. CASE n \in k + 2 .. m
      <4>1. k + 2 \in Nat \ {0}
        OBVIOUS
      <4> QED
        BY <2>1, <3>2, <4>1, EndNoUnlock
    <3> QED
      BY <3>1, <3>2
  <2> QED
    BY <2>1, <2>2
<1>4. CASE OtherFrom(s, k)
  BY <1>4 DEF OtherFrom, Returns
<1> QED
  BY <1>1, <1>2, <1>3, <1>4 DEF StepsFrom

LEMMA ShapeUnlock ==
  ASSUME NEW s \in Seq(FsStep), Shape(s), NEW n \in 1 .. Len(s), s[n][1] = "unlock"
  PROVE  n < Len(s) /\ s[n + 1][1] = "put"
<1>1. PICK m \in Nat : m = Len(s)
  OBVIOUS
<1>2. n \in 1 .. m
  BY <1>1
<1>3. CASE StepsFrom(s, 1)
  BY <1>1, <1>2, <1>3, StepsUnlock
<1>4. CASE m > 0 /\ s[1][1] \in Putting /\ (StepsFrom(s, 2) \/ (m = 2 /\ s[2][1] = "put"))
  <2>1. n # 1
    BY <1>4 DEF Putting
  <2>2. CASE StepsFrom(s, 2)
    <3>1. n \in 2 .. m
      BY <1>2, <2>1
    <3> QED
      BY <1>1, <2>2, <3>1, StepsUnlock
  <2>3. CASE m = 2 /\ s[2][1] = "put"
    BY <1>2, <2>1, <2>3
  <2> QED
    BY <1>4, <2>2, <2>3
<1> QED
  BY <1>1, <1>3, <1>4 DEF Shape

\* The inode that is locked is used, by the step that unlocks it or by the next.
LEMMA LocksUse ==
  ASSUME NEW s \in Seq(FsStep), Shape(s), Paired(s), NEW r, NEW i \in Inum, Obliged(s, r, i) >= 1
  PROVE  Uses(s, r, i) >= 1
<1>1. TodoRefs(s, i) \in Nat /\ TodoLocks(s, i) \in Nat /\ Eq(r, i) \in Nat
  BY UsesNat, EqNat
<1>2. CASE r = i
  <2>1. Eq(r, i) = 1
    BY <1>2 DEF Eq
  <2> QED
    BY <1>1, <2>1 DEF Uses
<1>3. CASE r # i
  <2>1. RetLock(s, r, i) = 0
    BY <1>3 DEF RetLock
  <2>2. TodoLocks(s, i) >= 1
    BY <1>1, <2>1 DEF Obliged
  <2>3. PICK m \in Nat : m = Len(s)
    OBVIOUS
  <2>4. PICK n \in 1 .. 4 : n <= m /\ s[n][1] \in Locking /\ s[n][2] = i
    <3>1. SUFFICES ASSUME \A n \in 1 .. 4 : ~(n <= m /\ s[n][1] \in Locking /\ s[n][2] = i) PROVE FALSE
      OBVIOUS
    <3>2. \A n \in 1 .. 4 : LocksAt(s, n, i) = 0
      BY <2>3, <3>1 DEF LocksAt, Locks, Eq
    <3> QED
      BY <2>2, <3>2 DEF TodoLocks
  <2>5. PICK k \in 1 .. 4 : k <= m /\ s[k][1] \in Using /\ s[k][2] = i
    <3>1. CASE s[n][1] # "unlock"
      BY <2>4, <3>1 DEF Locking, Using, Putting
    <3>2. CASE s[n][1] = "unlock"
      <4>1. n \in 1 .. Len(s)
        BY <2>3, <2>4
      <4>2. n < m /\ s[n + 1][1] = "put"
        BY <2>3, <3>2, <4>1, ShapeUnlock
      <4>3. s[n + 1][2] = i
        BY <2>3, <2>4, <3>2, <4>1, <4>2 DEF Paired
      <4>4. m \in 0 .. 4
        BY <2>3, ShapeLen
      <4> QED
        BY <2>4, <4>2, <4>3, <4>4 DEF Using, Putting
    <3> QED
      BY <3>1, <3>2
  <2>6. RefsAt(s, k, i) >= 1
    <3>1. Eq(s[k][2], i) = 1 /\ Eq(s[k][5], i) \in Nat /\ Eq(s[k][3], i) \in Nat
      BY <2>5, EqNat DEF Eq
    <3> QED
      BY <2>3, <2>5, <3>1 DEF RefsAt, Refs
  <2>7. \A n1 \in 1 .. 4 : RefsAt(s, n1, i) \in Nat
    <3>1. ASSUME NEW n1 \in 1 .. 4 PROVE RefsAt(s, n1, i) \in Nat
      BY Weights DEF RefsAt
    <3> QED
      BY <3>1
  <2>8. PICK n1, n2, n3, n4 \in Nat : n1 = RefsAt(s, 1, i) /\ n2 = RefsAt(s, 2, i)
                                      /\ n3 = RefsAt(s, 3, i) /\ n4 = RefsAt(s, 4, i)
    BY <2>7
  <2>9. n1 + n2 + n3 + n4 >= 1
    <3>1. k = 1 \/ k = 2 \/ k = 3 \/ k = 4
      OBVIOUS
    <3>2. n1 >= 1 \/ n2 >= 1 \/ n3 >= 1 \/ n4 >= 1
      BY <2>6, <2>8, <3>1
    <3> QED
      BY <3>2
  <2>10. TodoRefs(s, i) >= 1
    BY <2>8, <2>9 DEF TodoRefs
  <2> QED
    BY <1>1, <2>10 DEF Uses
<1> QED
  BY <1>2, <1>3

UsesHeld ==
  \A i \in Inum : /\ itable[i].lock # None => itable[i].ref >= 1
                  /\ i \in Opened => itable[i].ref >= 1

AllPaired == \A p \in Proc : Paired(todo[p])

LEMMA UsesHeldIs == FsCore /\ AllPaired => UsesHeld
<1>1. SUFFICES ASSUME FsCore, AllPaired, NEW i \in Inum
               PROVE  /\ itable[i].lock # None => itable[i].ref >= 1
                      /\ i \in Opened => itable[i].ref >= 1
  BY DEF UsesHeld
<1>2. ASSUME itable[i].lock # None PROVE itable[i].ref >= 1
  <2>1. PICK p \in Proc : itable[i].lock = p
    <3>1. itable[i] \in Ent
      BY <1>1 DEF FsCore, FsType
    <3> QED
      BY <1>2, <3>1 DEF Ent
  <2>2. Obliged(todo[p], ret[p], i) = 1
    BY <1>1, <2>1 DEF FsCore, LocksHeld
  <2>3. PICK s, r : s = todo[p] /\ r = ret[p]
    OBVIOUS
  <2>4. s \in Seq(FsStep) /\ Shape(s) /\ Paired(s)
    BY <1>1, <2>3 DEF FsCore, FsType, Shapes, AllPaired
  <2>5. Obliged(s, r, i) >= 1
    BY <2>2, <2>3
  <2>6. Uses(s, r, i) >= 1
    BY <2>4, <2>5, LocksUse
  <2> QED
    BY <1>1, <2>3, <2>6, Held
<1>3. ASSUME i \in Opened PROVE itable[i].ref >= 1
  <2>1. PICK q \in Proc : file[q] # None /\ file[q].ip = i
    BY <1>3 DEF Opened
  <2>2. FileAt(file[q], i) = 1
    BY <2>1 DEF FileAt
  <2> QED
    BY <1>1, <2>2, Held
<1> QED
  BY <1>2, <1>3

LEMMA UsesHeldNext == FsCore' /\ AllPaired' => UsesHeld'
  BY UsesHeldIs, PTL

LEMMA DropBlocks ==
  ASSUME FsCore, BlocksCore, FsCore', NEW p \in Proc, todo[p] # <<>>, Calm(todo[p]), Paired(todo[p]), panic = "no",
         NEW r, Go(p, <<>>, r), NEW i \in Inum, itable[i].ref >= 1, NEW g, g = Drop(State, i), Become(g),
         UNCHANGED file
  PROVE  BlocksCore'
<1>1. /\ Sound(State, Invalidating, Opened) /\ State \in FsState /\ State.it = itable
      /\ State.panic = panic
  BY StateType DEF FsCore, BlocksCore
<1>2. /\ g \in FsState /\ g.di = State.di /\ g.used = State.used /\ g.panic = State.panic
      /\ \A j \in Inum : j # i => g.it[j] = State.it[j]
      /\ g.it[i].ref = State.it[i].ref - 1 /\ g.it[i].valid = State.it[i].valid
      /\ g.it[i].lock = State.it[i].lock /\ g.it[i].ino = State.it[i].ino
  BY <1>1, DropIs
<1>3. Steady(p)
  BY GoSteady0
<1>4. UsesHeld'
  <2>1. AllPaired'
    BY <1>3 DEF AllPaired, Steady, BlocksCore
  <2> QED
    BY <2>1, UsesHeldNext
<1>5. itable' = g.it /\ Opened' = Opened
  BY BecomeIs DEF Opened
<1>6. (g.it[i].lock # None => g.it[i].ref >= 1) /\ (i \in Opened => g.it[i].ref >= 1)
  BY <1>4, <1>5 DEF UsesHeld
<1>7. OwnedIn(State) /\ State.it[i].ref \in Int /\ Copied(State, i, Invalidating, Opened)
  BY <1>1, StateIs DEF Sound
<1>8. OwnedIn(g) /\ OnlyAt(State, g, i)
  <2>1. OwnedIn(g)
    BY <1>2, <1>7, OwnedStays
  <2> QED
    BY <1>2, <2>1 DEF OnlyAt
<1>9. PICK n \in Int : n = State.it[i].ref /\ n >= 1
  BY <1>1, <1>7
<1>10. g.it[i].ref = n - 1
  BY <1>2, <1>9
<1>11. Copied(g, i, Invalidating, Opened)
  <2>1. (g.it[i].lock # None => State.it[i].valid) /\ (i \in Opened => State.it[i].valid)
    BY <1>2, <1>7 DEF Copied
  <2>2. i \notin Invalidating => Fresh(State.it[i], State.di[i])
    BY <1>7 DEF Copied
  <2>3. i \notin Invalidating => Fresh(g.it[i], g.di[i])
    BY <1>2, <1>9, <2>2 DEF Fresh
  <2>4. (g.it[i].lock # None => g.it[i].ref > 0) /\ (i \in Opened => g.it[i].ref > 0)
    BY <1>6, <1>9, <1>10
  <2> QED
    BY <1>2, <2>1, <2>3, <2>4 DEF Copied
<1>12. g.it[i].ref >= 0
  BY <1>9, <1>10
<1>13. Sound(g, Invalidating, Opened)
  BY <1>1, <1>2, <1>8, <1>11, <1>12, SoundAt
<1> QED
  BY <1>3, <1>13, BlocksStay

\* A step and an open file are two uses.
LEMMA UsedTwice ==
  ASSUME FsCore, NEW p \in Proc, NEW i \in Inum, Uses(todo[p], ret[p], i) >= 1, i \in Opened
  PROVE  itable[i].ref >= 2
<1>1. /\ IsFiniteSet(PendingOf(i))
      /\ itable[i].ref = Cardinality(CwdOf(i)) + Cardinality(FileOf(i)) + Cardinality(PendingOf(i))
  BY DEF FsCore, RefsCount
<1>2. IsFiniteSet(CwdOf(i)) /\ IsFiniteSet(FileOf(i))
  BY FS_Subset, Sizes DEF CwdOf, FileOf
<1>3. PICK k1, k2, k3 \in Nat : k1 = Cardinality(CwdOf(i)) /\ k2 = Cardinality(FileOf(i))
                                /\ k3 = Cardinality(PendingOf(i))
  BY <1>1, <1>2, FS_CardinalityType
<1>4. itable[i].ref = k1 + k2 + k3
  BY <1>1, <1>3
<1>5. k3 # 0
  <2>1. <<p, 1>> \in PendingOf(i)
    BY DEF PendingOf
  <2> QED
    BY <1>1, <1>3, <2>1, FS_EmptySet
<1>6. k2 # 0
  <2>1. PICK q \in Proc : q \in FileOf(i)
    BY DEF Opened, FileOf
  <2> QED
    BY <1>2, <1>3, <2>1, FS_EmptySet
<1> QED
  BY <1>3, <1>4, <1>5, <1>6

\* iput() locks the inode of the last use.
LEMMA LastBlocks ==
  ASSUME FsCore, BlocksCore, NEW p \in Proc, todo[p] # <<>>, Calm(todo[p]), Paired(todo[p]), panic = "no",
         NEW r, NEW i \in Inum, LastUse(i), itable[i].lock = None, i \notin Opened,
         NEW a, a = <<"free", i>>, Go(p, <<a>>, r), NEW g, g = SetLock(State, i, p), Become(g), UNCHANGED file
  PROVE  BlocksCore'
<1>1. /\ Sound(State, Invalidating, Opened) /\ State \in FsState /\ State.it = itable
      /\ State.panic = panic
  BY StateType DEF FsCore, BlocksCore
<1>2. /\ g \in FsState /\ g.di = State.di /\ g.used = State.used /\ g.panic = State.panic
      /\ \A j \in Inum : j # i => g.it[j] = State.it[j]
      /\ g.it[i].ref = State.it[i].ref /\ g.it[i].valid = State.it[i].valid
      /\ g.it[i].lock = p /\ g.it[i].ino = State.it[i].ino
  BY <1>1, SetLockIs
<1>3. /\ Paired(todo'[p]) /\ \A q \in Proc : q # p => todo'[q] = todo[q]
      /\ todo'[p] # <<>> /\ todo'[p][1] = a
  <2>1. a[1] # "unlock"
    OBVIOUS
  <2> QED
    BY <2>1, GoPut
<1>4. OwnedIn(State) /\ Copied(State, i, Invalidating, Opened)
  BY <1>1 DEF Sound
<1>5. OwnedIn(g) /\ OnlyAt(State, g, i)
  <2>1. OwnedIn(g)
    BY <1>2, <1>4, OwnedStays
  <2> QED
    BY <1>2, <2>1 DEF OnlyAt
<1>6. State.it[i].ref = 1 /\ State.it[i].valid
  BY <1>1 DEF LastUse
<1>7. Copied(g, i, Invalidating, Opened)
  BY <1>2, <1>4, <1>6 DEF Copied, Fresh
<1>8. Sound(g, Invalidating, Opened)
  <2>1. g.it[i].ref >= 0
    BY <1>2, <1>6
  <2> QED
    BY <1>1, <1>2, <1>5, <1>7, <2>1, SoundAt
<1>9. Invalidating \subseteq Invalidating'
  <2>1. ASSUME NEW j \in Invalidating PROVE j \in Invalidating'
    <3>1. PICK q \in Proc : j \in Inum /\ todo[q] # <<>> /\ todo[q][1][1] = "invalid" /\ todo[q][1][2] = j
      BY <2>1 DEF Invalidating, NextOf
    <3>2. q # p
      BY <3>1 DEF Calm
    <3>3. todo'[q] = todo[q]
      BY <1>3, <3>2
    <3> QED
      BY <3>1, <3>3 DEF Invalidating, NextOf
  <2> QED
    BY <2>1
<1>10. Opened \intersect Freeing' = {}
  <2>1. ASSUME NEW j \in Freeing' PROVE j \in Freeing \/ j = i
    <3>1. PICK q \in Proc : /\ j \in Inum /\ todo'[q] # <<>> /\ todo'[q][1][1] \in {"free", "invalid"}
                            /\ todo'[q][1][2] = j
      BY <2>1 DEF Freeing, NextOf
    <3>2. CASE q = p
      BY <1>3, <3>1, <3>2
    <3>3. CASE q # p
      BY <1>3, <3>1, <3>3 DEF Freeing, NextOf
    <3> QED
      BY <3>2, <3>3
  <2> QED
    BY <2>1 DEF BlocksCore
<1> QED
  BY <1>3, <1>8, <1>9, <1>10, BlocksMove

LEMMA PutBlocks ==
  ASSUME FsCore, BlocksCore, FsCore' \/ Stuck', NEW p \in Proc, Put(p)
  PROVE  BlocksCore' \/ Stuck'
<1>1. PICK s, r, i : s = todo[p] /\ r = ret[p] /\ i = Arg(p, 1)
  OBVIOUS
<1>2. At(p, "put") /\ UNCHANGED file
  BY DEF Put
<1>3. /\ todo[p] # <<>> /\ Calm(todo[p]) /\ Paired(todo[p]) /\ panic = "no"
      /\ State \in FsState /\ State.it = itable
  BY <1>2, AtBlocks
<1>4. s[1] \in FsStep /\ s[1][1] = "put" /\ i = s[1][2] /\ Len(s) \in 1 .. 4
  <2>1. s[1] \in FsStep /\ s[1][1] = "put" /\ Arg(p, 1) = s[1][2]
    BY <1>1, <1>2, StepIs
  <2>2. Len(s) \in 1 .. 4
    BY <1>1, <1>2, AtIs
  <2> QED
    BY <1>1, <2>1, <2>2
<1>5. i \in Inum
  BY <1>4, StepArgs DEF Using, Putting
<1>6. Uses(s, r, i) >= 1
  <2>1. Uses(s, r, i) >= Refs(s[1], i) + Eq(r, i)
    BY <1>4, FirstWeight
  <2>2. Refs(s[1], i) = Eq(i, i)
    BY <1>4, Weights DEF Using, Putting
  <2>3. Eq(i, i) = 1 /\ Eq(r, i) \in Nat /\ Uses(s, r, i) \in Nat
    BY EqNat, UsesNat DEF Eq
  <2> QED
    BY <2>1, <2>2, <2>3
<1>7. itable[i].ref >= 1
  BY <1>1, <1>5, <1>6, Held
<1>8. PICK a : a = <<"free", i>>
  OBVIOUS
<1>9. CASE LastUse(i) /\ Unlocked(i)
  <2>1. PICK g : g = SetLock(State, i, p)
    OBVIOUS
  <2>2. Become(g) /\ Go(p, <<a>>, r)
    BY <1>1, <1>8, <1>9, <2>1 DEF Put, SetLock
  <2>3. i \notin Opened
    <3>1. itable[i].ref = 1
      BY <1>9 DEF LastUse
    <3> QED
      BY <1>1, <1>5, <1>6, <3>1, UsedTwice
  <2>4. itable[i].lock = None
    BY <1>9 DEF Unlocked
  <2>5. BlocksCore'
    BY <1>2, <1>3, <1>5, <1>8, <1>9, <2>1, <2>2, <2>3, <2>4, LastBlocks
  <2> QED
    BY <2>5
<1>10. CASE LastUse(i) /\ ~Unlocked(i)
  <2>1. PICK g : g = Panic(State, "sched locks")
    OBVIOUS
  <2>2. Become(g) /\ Go(p, <<a>>, r)
    BY <1>1, <1>8, <1>10, <2>1 DEF Put
  <2>3. panic' # "no"
    <3>1. g.panic # "no"
      BY <1>3, <2>1, Messages, PanicIs
    <3> QED
      BY <2>2, <3>1, BecomeIs
  <2>4. todo'[p] # <<>>
    <3>1. a[1] # "unlock"
      BY <1>8
    <3> QED
      BY <1>3, <2>2, <3>1, GoPut
  <2> QED
    BY <2>3, <2>4, PanicSticks
<1>11. CASE ~LastUse(i)
  <2>1. PICK g : g = Drop(State, i)
    OBVIOUS
  <2>2. Become(g) /\ Go(p, <<>>, r)
    BY <1>1, <1>11, <2>1 DEF Put
  <2>3. SUFFICES ASSUME FsCore' PROVE BlocksCore'
    OBVIOUS
  <2> QED
    BY <1>2, <1>3, <1>5, <1>7, <2>1, <2>2, <2>3, DropBlocks
<1> QED
  BY <1>9, <1>10, <1>11

LEMMA UnrefBlocks ==
  ASSUME FsCore, BlocksCore, FsCore' \/ Stuck', NEW p \in Proc, Unref(p)
  PROVE  BlocksCore' \/ Stuck'
<1>1. PICK s, r, i : s = todo[p] /\ r = ret[p] /\ i = Arg(p, 1)
  OBVIOUS
<1>2. At(p, "drop") /\ UNCHANGED file
  BY DEF Unref
<1>3. /\ todo[p] # <<>> /\ Calm(todo[p]) /\ Paired(todo[p]) /\ panic = "no"
  BY <1>2, AtBlocks
<1>4. s[1] \in FsStep /\ s[1][1] = "drop" /\ i = s[1][2]
  BY <1>1, <1>2, StepIs
<1>5. i \in Inum /\ s[1][1] \in Using
  BY <1>4, StepArgs DEF Using, Putting
<1>6. itable[i].ref >= 1
  BY <1>1, <1>3, <1>4, <1>5, HasRef
<1>7. PICK g : g = Drop(State, i)
  OBVIOUS
<1>8. Become(g) /\ Go(p, <<>>, r)
  BY <1>1, <1>7 DEF Unref
<1>9. SUFFICES ASSUME FsCore' PROVE BlocksCore'
  OBVIOUS
<1> QED
  BY <1>2, <1>3, <1>5, <1>6, <1>7, <1>8, <1>9, DropBlocks

----------------------------------------------------------------------------
(***************************************************************************)
(* sys_open()                                                              *)
(***************************************************************************)
LEMMA SoundMore ==
  ASSUME NEW f, NEW X, NEW V, Sound(f, X, V), NEW i \in Inum,
         f.panic = "no" => f.it[i].ref >= 1 /\ f.it[i].valid, NEW W, W = V \union {i}
  PROVE  Sound(f, X, W)
<1>1. ASSUME f.panic = "no", NEW j \in Inum PROVE Copied(f, j, X, W)
  <2>1. Copied(f, j, X, V) /\ f \in FsState
    BY <1>1 DEF Sound
  <2>2. f.it[i].ref > 0 /\ f.it[i].valid
    <3>1. f.it[i].ref \in Int
      BY <2>1, StateIs
    <3> QED
      BY <1>1, <3>1
  <2>3. j \in W => j \in V \/ j = i
    OBVIOUS
  <2> QED
    BY <2>1, <2>2, <2>3 DEF Copied
<1> QED
  BY <1>1 DEF Sound

LEMMA OpenLocked ==
  ASSUME FsCore, BlocksCore, NEW p \in Proc, Calm(todo[p]), panic = "no", NEW i \in Inum, itable[i].ref >= 1,
         NEW create, create => itable[i].lock = p, ~create => itable[i].lock = None,
         NEW f, f = IF create THEN State ELSE Ilock(State, p, i)
  PROVE  /\ Sound(f, Invalidating, Opened)
         /\ f.panic = "no" => Fit(f, i) /\ f.it[i].ref >= 1 /\ f.it[i].valid
         /\ f.panic # "no" => f.it[i].ino.type = "none"
<1>1. /\ Sound(State, Invalidating, Opened) /\ State \in FsState /\ State.it = itable
      /\ State.panic = "no"
  BY StateType DEF FsCore, BlocksCore
<1>2. CASE create
  <2>1. f = State
    BY <1>2
  <2>2. Fit(State, i)
    BY <1>2, HeldFit
  <2>3. itable[i].lock # None
    BY <1>2, Sizes
  <2>4. State.it[i].valid
    BY <1>1, <2>3 DEF Sound, Copied
  <2> QED
    BY <1>1, <2>1, <2>2, <2>4
<1>3. CASE ~create
  <2>1. f = Ilock(State, p, i)
    BY <1>3
  <2>2. Sound(f, Invalidating, Opened) /\ (f.panic = "no" => Fit(f, i))
    BY <1>3, <2>1, LockSound
  <2>3. State.it[i].ref >= 1
    BY <1>1
  <2>4. /\ f.it[i].ref = State.it[i].ref /\ f.it[i].valid
        /\ f.it[i].ino = IF State.it[i].valid THEN State.it[i].ino ELSE State.di[i]
        /\ f.panic = "no" <=> State.panic = "no" /\ (State.it[i].valid \/ State.di[i].type # "none")
    BY <1>1, <2>1, <2>3, IlockIs
  <2>5. f.panic # "no" => f.it[i].ino.type = "none"
    BY <1>1, <2>4
  <2> QED
    BY <2>2, <2>3, <2>4, <2>5
<1> QED
  BY <1>2, <1>3

LEMMA OpenBlocks ==
  ASSUME FsCore, BlocksCore, NEW p \in Proc, Open(p)
  PROVE  BlocksCore'
<1>1. PICK s, i : s = todo[p] /\ i = ret[p]
  OBVIOUS
<1>2. At(p, "open") /\ i # 0
  BY <1>1 DEF Open
<1>3. todo[p] # <<>> /\ Calm(todo[p]) /\ Paired(todo[p]) /\ panic = "no"
  BY <1>2, AtBlocks
<1>4. s[1] \in FsStep /\ s[1][1] = "open" /\ i \in Inum /\ itable[i].ref >= 1 /\ Arg(p, 1) = s[1][2]
  BY <1>1, <1>2, StepIs
<1>5. PICK m : m = Arg(p, 1) /\ m = s[1][2]
  BY <1>4
<1>6. PICK create : create = m.create
  OBVIOUS
<1>7. (create => itable[i].lock = p) /\ (~create => itable[i].lock = None)
  <2>1. ASSUME create PROVE itable[i].lock = p
    <3>1. RetLocked(s)
      BY <1>4, <1>5, <1>6, <2>1 DEF RetLocked
    <3> QED
      BY <1>1, <1>4, <3>1, LockedRet
  <2>2. ~create => itable[i].lock = None
    BY <1>1, <1>5, <1>6 DEF Open, Unlocked
  <2> QED
    BY <2>1, <2>2
<1>8. PICK f : f = IF create THEN State ELSE Ilock(State, p, i)
  OBVIOUS
<1>9. /\ Sound(f, Invalidating, Opened)
      /\ f.panic = "no" => Fit(f, i) /\ f.it[i].ref >= 1 /\ f.it[i].valid
      /\ f.panic # "no" => f.it[i].ino.type = "none"
  BY <1>3, <1>4, <1>7, <1>8, OpenLocked
<1>10. PICK h, g1, g2, x, a : /\ h = (IF m.trunc /\ f.it[i].ino.type = "T_FILE" THEN Itrunc(f, i) ELSE f)
                              /\ g1 = Iunlock(h, p, i) /\ g2 = Iunlock(f, p, i)
                              /\ x = [ip |-> i, off |-> 0, writable |-> m.write] /\ a = <<"put", i>>
  OBVIOUS
<1>11. \/ SetFile(p, x) /\ Become(g1) /\ Go(p, <<>>, 0)
       \/ Become(g2) /\ Go(p, <<a>>, 0) /\ UNCHANGED file
  BY <1>1, <1>5, <1>6, <1>8, <1>10 DEF Open, SetFile
<1>12. ASSUME SetFile(p, x), Become(g1), Go(p, <<>>, 0) PROVE BlocksCore'
  <2>1. Steady(p)
    BY <1>3, <1>12, GoSteady0
  <2>2. Sound(h, Invalidating, Opened) /\ (h.panic = "no" => h.it[i].ref >= 1 /\ h.it[i].valid) /\ h \in FsState
    <3>1. CASE m.trunc /\ f.it[i].ino.type = "T_FILE"
      <4>1. h = Itrunc(f, i)
        BY <1>10, <3>1
      <4>2. f.panic = "no"
        BY <1>9, <3>1
      <4>3. Written(f, h, i)
        BY <1>4, <1>9, <4>1, <4>2, ItruncWritten
      <4>4. Sound(h, Invalidating, Opened)
        BY <1>4, <1>9, <4>3, SoundWritten
      <4>5. h.it[i].ref = f.it[i].ref /\ h.it[i].valid = f.it[i].valid
        BY <1>4, <4>3 DEF Written, Keeps
      <4> QED
        BY <1>9, <4>2, <4>4, <4>5 DEF Sound
    <3>2. CASE ~(m.trunc /\ f.it[i].ino.type = "T_FILE")
      <4>1. h = f
        BY <1>10, <3>2
      <4> QED
        BY <1>9, <4>1 DEF Sound
    <3> QED
      BY <3>1, <3>2
  <2>3. Sound(g1, Invalidating, Opened) /\ (g1.panic = "no" => h.panic = "no")
    BY <1>4, <1>10, <2>2, SoundIunlock
  <2>4. g1.it[i].ref = h.it[i].ref /\ g1.it[i].valid = h.it[i].valid
    BY <1>4, <1>10, <2>2, IunlockIs
  <2>5. PICK W : W = Opened \union {i}
    OBVIOUS
  <2>6. g1.panic = "no" => g1.it[i].ref >= 1 /\ g1.it[i].valid
    BY <2>2, <2>3, <2>4
  <2>7. Sound(g1, Invalidating, W)
    BY <1>4, <2>3, <2>5, <2>6, SoundMore
  <2>8. i \notin Freeing
    <3>1. itable[i].lock \in {p, None}
      BY <1>7
    <3> QED
      BY <1>3, <1>4, <3>1, NotFreed
  <2>9. W \intersect Freeing = {}
    BY <2>5, <2>8 DEF BlocksCore
  <2>10. Opened' \subseteq W
    <3>1. ASSUME NEW j \in Opened' PROVE j \in W
      <4>1. PICK q \in Proc : j \in Inum /\ file'[q] # None /\ file'[q].ip = j
        BY <3>1 DEF Opened
      <4>2. file' = [file EXCEPT ![p] = x] /\ file \in [Proc -> OpenFile \union {None}] /\ x.ip = i
        BY <1>10, <1>12 DEF SetFile, FsCore, FsType
      <4>3. CASE q = p
        BY <2>5, <4>1, <4>2, <4>3
      <4>4. CASE q # p
        <5>1. file'[q] = file[q]
          BY <4>2, <4>4
        <5>2. j \in Opened
          BY <4>1, <5>1 DEF Opened
        <5> QED
          BY <2>5, <5>2
      <4> QED
        BY <4>3, <4>4
    <3> QED
      BY <3>1
  <2> QED
    BY <1>12, <2>1, <2>7, <2>9, <2>10, BlocksGo
<1>13. ASSUME Become(g2), Go(p, <<a>>, 0), UNCHANGED file PROVE BlocksCore'
  <2>1. a[1] \notin {"free", "invalid", "unlock"}
    BY <1>10
  <2>2. Steady(p)
    BY <1>3, <1>13, <2>1, GoSteady1
  <2>3. Sound(g2, Invalidating, Opened)
    BY <1>4, <1>9, <1>10, SoundIunlock
  <2> QED
    BY <1>13, <2>2, <2>3, BlocksStay
<1> QED
  BY <1>11, <1>12, <1>13

----------------------------------------------------------------------------
(***************************************************************************)
(* The calls                                                               *)
(***************************************************************************)
LEMMA BeginBlocks ==
  ASSUME FsCore, BlocksCore, NEW p \in Proc, Idle(p), NEW path \in WPath, NEW parent, NEW steps,
         Begin(p, path, parent, steps), NEW t, t = Namex(p, path, parent) \o steps,
         t # <<>>, t[1][1] = "walk", Paired(t)
  PROVE  BlocksCore'
<1>1. PICK e, g : e = Start(p, path) /\ g = Iget(State, e)
  OBVIOUS
<1>2. e \in Inum
  BY <1>1, StartIs
<1>3. Become(g) /\ todo' = [todo EXCEPT ![p] = t] /\ UNCHANGED file
  BY <1>1 DEF Begin
<1>4. todo \in [Proc -> Seq(FsStep)] /\ todo[p] = <<>>
  BY DEF Idle, FsCore, FsType
<1>5. todo'[p] = t /\ \A q \in Proc : q # p => todo'[q] = todo[q]
  BY <1>3, <1>4
<1>6. Steady(p)
  BY <1>4, <1>5 DEF Steady, Calm
<1>7. Sound(g, Invalidating, Opened)
  <2>1. Sound(State, Invalidating, Opened)
    BY DEF BlocksCore
  <2> QED
    BY <1>1, <1>2, <2>1, SoundIget
<1> QED
  BY <1>3, <1>6, <1>7, BlocksStay

LEMMA BeginOneBlocks ==
  ASSUME FsCore, BlocksCore, NEW p \in Proc, Idle(p), NEW path \in WPath, NEW parent, NEW x,
         Begin(p, path, parent, <<x>>)
  PROVE  BlocksCore'
<1>1. PICK w, t : w = <<"walk", Start(p, path), path.elems, parent>> /\ t = <<w, x>>
  OBVIOUS
<1>2. Len(t) = 2 /\ t[1] = w /\ t # <<>> /\ w[1] = "walk"
  BY <1>1
<1>3. Paired(t)
  BY <1>2 DEF Paired
<1>4. PICK steps : steps = <<x>>
  OBVIOUS
<1>5. t = Namex(p, path, parent) \o steps
  BY <1>1, <1>4, ConcatTwo DEF Namex
<1>6. Begin(p, path, parent, steps)
  BY <1>4
<1> QED
  BY <1>2, <1>3, <1>5, <1>6, BeginBlocks

LEMMA BeginTwoBlocks ==
  ASSUME FsCore, BlocksCore, NEW p \in Proc, Idle(p), NEW path \in WPath, NEW parent, NEW x, NEW y,
         x[1] # "unlock", Begin(p, path, parent, <<x, y>>)
  PROVE  BlocksCore'
<1>1. PICK w, t : w = <<"walk", Start(p, path), path.elems, parent>> /\ t = <<w, x, y>>
  OBVIOUS
<1>2. Len(t) = 3 /\ t[1] = w /\ t[2] = x /\ t # <<>> /\ w[1] = "walk"
  BY <1>1
<1>3. Paired(t)
  <2>1. \A n \in 1 .. 2 : t[n][1] # "unlock"
    BY <1>2
  <2> QED
    BY <1>2, <2>1 DEF Paired
<1>4. PICK steps : steps = <<x, y>>
  OBVIOUS
<1>5. t = Namex(p, path, parent) \o steps
  BY <1>1, <1>4, ConcatThree DEF Namex
<1>6. Begin(p, path, parent, steps)
  BY <1>4
<1> QED
  BY <1>2, <1>3, <1>5, <1>6, BeginBlocks

LEMMA SysBlocks ==
  ASSUME FsCore, BlocksCore, NEW p \in Proc,
         SysOpen(p) \/ SysMake(p) \/ SysLink(p) \/ SysUnlink(p) \/ SysChdir(p)
  PROVE  BlocksCore'
<1>1. Idle(p)
  BY DEF SysOpen, SysMake, SysLink, SysUnlink, SysChdir
<1>2. CASE SysOpen(p)
  <2>1. PICK c \in Syscall :
          /\ c.op = "open"
          /\ Begin(p, c.path, c.mode.create,
                   (IF c.mode.create THEN <<<<"create", LastElem(c.path), "T_FILE">>>>
                    ELSE <<>>) \o <<<<"open", c.mode>>>>)
    BY <1>2 DEF SysOpen
  <2>2. PICK path, b, x, y : /\ path = c.path /\ b = c.mode.create /\ y = <<"open", c.mode>>
                             /\ x = <<"create", LastElem(c.path), "T_FILE">>
    OBVIOUS
  <2>3. path \in WPath
    BY <2>1, <2>2, CallIs
  <2>4. CASE b
    <3>1. <<x>> \o <<y>> = <<x, y>>
      BY ConcatTwo
    <3>2. Begin(p, path, b, <<x, y>>)
      BY <2>1, <2>2, <2>4, <3>1
    <3>3. x[1] # "unlock"
      BY <2>2
    <3> QED
      BY <1>1, <2>3, <3>2, <3>3, BeginTwoBlocks
  <2>5. CASE ~b
    <3>1. <<y>> \in Seq({y})
      OBVIOUS
    <3>2. <<>> \o <<y>> = <<y>>
      BY <3>1, ConcatEmptySeq
    <3>3. Begin(p, path, b, <<y>>)
      BY <2>1, <2>2, <2>5, <3>2
    <3> QED
      BY <1>1, <2>3, <3>3, BeginOneBlocks
  <2> QED
    BY <2>4, <2>5
<1>3. CASE SysMake(p)
  <2>1. PICK c \in Syscall : /\ c.op = "make"
                             /\ Begin(p, c.path, TRUE, <<<<"create", LastElem(c.path), c.type>>, <<"made">>>>)
    BY <1>3 DEF SysMake
  <2>2. PICK path, b, x, y : /\ path = c.path /\ b = TRUE /\ x = <<"create", LastElem(c.path), c.type>>
                             /\ y = <<"made">>
    OBVIOUS
  <2>3. path \in WPath /\ x[1] # "unlock" /\ Begin(p, path, b, <<x, y>>)
    BY <2>1, <2>2, CallIs
  <2> QED
    BY <1>1, <2>3, BeginTwoBlocks
<1>4. CASE SysLink(p)
  <2>1. PICK c \in Syscall : c.op = "link" /\ Begin(p, c.path, FALSE, <<<<"link", c.new>>>>)
    BY <1>4 DEF SysLink
  <2>2. PICK path, b, x : path = c.path /\ b = FALSE /\ x = <<"link", c.new>>
    OBVIOUS
  <2>3. path \in WPath /\ Begin(p, path, b, <<x>>)
    BY <2>1, <2>2, CallIs
  <2> QED
    BY <1>1, <2>3, BeginOneBlocks
<1>5. CASE SysUnlink(p)
  <2>1. PICK c \in Syscall : c.op = "unlink" /\ Begin(p, c.path, TRUE, <<<<"unlink", LastElem(c.path)>>>>)
    BY <1>5 DEF SysUnlink
  <2>2. PICK path, b, x : path = c.path /\ b = TRUE /\ x = <<"unlink", LastElem(c.path)>>
    OBVIOUS
  <2>3. path \in WPath /\ Begin(p, path, b, <<x>>)
    BY <2>1, <2>2, CallIs
  <2> QED
    BY <1>1, <2>3, BeginOneBlocks
<1>6. CASE SysChdir(p)
  <2>1. PICK c \in Syscall : c.op = "chdir" /\ Begin(p, c.path, FALSE, <<<<"chdir">>>>)
    BY <1>6 DEF SysChdir
  <2>2. PICK path, b, x : path = c.path /\ b = FALSE /\ x = <<"chdir">>
    OBVIOUS
  <2>3. path \in WPath /\ Begin(p, path, b, <<x>>)
    BY <2>1, <2>2, CallIs
  <2> QED
    BY <1>1, <2>3, BeginOneBlocks
<1> QED
  BY <1>2, <1>3, <1>4, <1>5, <1>6

LEMMA CloseBlocks ==
  ASSUME FsCore, BlocksCore, NEW p \in Proc, Close(p)
  PROVE  BlocksCore'
<1>1. PICK a, t : a = <<"put", file[p].ip>> /\ t = <<a>>
  OBVIOUS
<1>2. /\ Idle(p) /\ file' = [file EXCEPT ![p] = None] /\ todo' = [todo EXCEPT ![p] = t]
      /\ UNCHANGED fsvars
  BY <1>1 DEF Close
<1>3. /\ todo \in [Proc -> Seq(FsStep)] /\ todo[p] = <<>>
      /\ file \in [Proc -> OpenFile \union {None}]
  BY <1>2 DEF Idle, FsCore, FsType
<1>4. Len(t) = 1 /\ t[1] = a /\ a[1] = "put"
  BY <1>1
<1>5. Steady(p)
  <2>1. todo'[p] = t /\ \A q \in Proc : q # p => todo'[q] = todo[q]
    BY <1>2, <1>3
  <2>2. Paired(t) /\ Calm(t)
    BY <1>4 DEF Paired, Calm
  <2> QED
    BY <1>3, <2>1, <2>2 DEF Steady, Calm
<1>6. Opened' \subseteq Opened
  <2>1. ASSUME NEW j \in Opened' PROVE j \in Opened
    <3>1. PICK q \in Proc : j \in Inum /\ file'[q] # None /\ file'[q].ip = j
      BY <2>1 DEF Opened
    <3>2. q # p
      BY <1>2, <1>3, <3>1
    <3>3. file'[q] = file[q]
      BY <1>2, <1>3, <3>2
    <3> QED
      BY <3>1, <3>3 DEF Opened
  <2> QED
    BY <2>1
<1> QED
  BY <1>2, <1>5, <1>6, BlocksQuiet

\* fileread(), filewrite(): the inode of the file is open, and so valid.
LEMMA FileLocked ==
  ASSUME FsCore, BlocksCore, NEW p \in Proc, Idle(p), file[p] # None, Unlocked(file[p].ip),
         NEW i, i = file[p].ip, NEW f, f = Ilock(State, p, i)
  PROVE  i \in Inum /\ Sound(f, Invalidating, Opened) /\ Fit(f, i) /\ f \in FsState
<1>1. /\ i \in Inum /\ panic = "no" /\ todo[p] = <<>> /\ itable[i].lock = None
  BY OpenIs DEF FsCore, Idle, Unlocked
<1>2. /\ Sound(State, Invalidating, Opened) /\ State \in FsState /\ State.it = itable
      /\ State.panic = "no"
  BY <1>1, StateType DEF FsCore, BlocksCore
<1>3. itable[i].ref >= 1
  <2>1. FileAt(file[p], i) = 1
    BY DEF FileAt
  <2> QED
    BY <1>1, <2>1, Held
<1>4. State.it[i].valid /\ State.it[i].ref >= 1
  <2>1. i \in Opened
    BY <1>1 DEF Opened
  <2>2. Copied(State, i, Invalidating, Opened)
    BY <1>1, <1>2 DEF Sound
  <2> QED
    BY <1>2, <1>3, <2>1, <2>2 DEF Copied
<1>5. f.panic = "no"
  BY <1>1, <1>2, <1>4, IlockIs
<1>6. Sound(f, Invalidating, Opened) /\ Fit(f, i)
  <2>1. Calm(todo[p])
    BY <1>1 DEF Calm
  <2> QED
    BY <1>1, <1>3, <1>5, <2>1, LockSound
<1> QED
  BY <1>1, <1>6 DEF Sound

\* The file moves on, the steps stay.
LEMMA MovedBlocks ==
  ASSUME FsCore, BlocksCore, NEW p \in Proc, Idle(p), UNCHANGED todo, NEW g, Become(g),
         Sound(g, Invalidating, Opened), file[p] # None, file'[p].ip = file[p].ip,
         \A q \in Proc : q # p => file'[q] = file[q]
  PROVE  BlocksCore'
<1>1. todo[p] = <<>> /\ Paired(todo[p])
  BY DEF Idle, BlocksCore
<1>2. Steady(p)
  BY <1>1 DEF Steady, Calm
<1>3. Opened' \subseteq Opened
  BY DEF Opened
<1>4. Opened \intersect Freeing = {}
  BY DEF BlocksCore
<1> QED
  BY <1>2, <1>3, <1>4, BlocksGo

LEMMA ReadBlocks ==
  ASSUME FsCore, BlocksCore, NEW p \in Proc, Read(p)
  PROVE  BlocksCore'
<1>1. PICK i, f, g : i = file[p].ip /\ f = Ilock(State, p, i) /\ g = Iunlock(f, p, i)
  OBVIOUS
<1>2. Idle(p) /\ file[p] # None /\ Unlocked(file[p].ip) /\ UNCHANGED todo /\ Become(g)
  BY <1>1 DEF Read
<1>3. i \in Inum /\ Sound(f, Invalidating, Opened)
  BY <1>1, <1>2, FileLocked
<1>4. Sound(g, Invalidating, Opened)
  BY <1>1, <1>3, SoundIunlock
<1>5. file'[p].ip = file[p].ip /\ \A q \in Proc : q # p => file'[q] = file[q]
  <2>1. file' = [file EXCEPT ![p].off = @ + 1]
    BY DEF Read
  <2> QED
    BY <1>2, <2>1, OffMoves DEF FsCore
<1> QED
  BY <1>2, <1>4, <1>5, MovedBlocks

LEMMA WriteBlocks ==
  ASSUME FsCore, BlocksCore, NEW p \in Proc, Write(p)
  PROVE  BlocksCore'
<1>1. PICK copied \in BOOLEAN :
        LET i == file[p].ip
            r == Writei(Ilock(State, p, i), i, file[p].off, Chunk, copied)
        IN  /\ Become(Iunlock(r[2], p, i))
            /\ file' = IF r[1] THEN [file EXCEPT ![p].off = @ + 1] ELSE file
  BY DEF Write
<1>2. PICK i, f, v, off : i = file[p].ip /\ f = Ilock(State, p, i) /\ v = Chunk /\ off = file[p].off
  OBVIOUS
<1>3. PICK r : r = Writei(f, i, off, v, copied)
  OBVIOUS
<1>4. PICK h, g : h = r[2] /\ g = Iunlock(h, p, i)
  OBVIOUS
<1>5. Idle(p) /\ file[p] # None /\ Unlocked(file[p].ip) /\ UNCHANGED todo
  BY DEF Write
<1>6. /\ Become(g) /\ file' = IF r[1] THEN [file EXCEPT ![p].off = @ + 1] ELSE file
  BY <1>1, <1>2, <1>3, <1>4
<1>7. i \in Inum /\ Sound(f, Invalidating, Opened) /\ Fit(f, i)
  BY <1>2, <1>5, FileLocked
<1>8. v \in Word \X (0 .. NInodes)
  <2>1. PICK w, z : w = "chunk" /\ z = 0
    OBVIOUS
  <2>2. w \in Word
    BY <2>1, Words
  <2>3. z \in 0 .. NInodes
    BY <2>1, Sizes
  <2>4. v = <<w, z>>
    BY <1>2, <2>1 DEF Chunk
  <2> QED
    BY <2>2, <2>3, <2>4
<1>9. off \in Nat
  BY <1>2, <1>5, OpenIs DEF FsCore
<1>10. Written(f, h, i)
  <2>1. Written(f, r[2], i)
    BY <1>3, <1>7, <1>8, <1>9, WriteiWritten
  <2> QED
    BY <1>4, <2>1
<1>11. Sound(g, Invalidating, Opened)
  <2>1. Sound(h, Invalidating, Opened)
    BY <1>7, <1>10, SoundWritten
  <2> QED
    BY <1>4, <1>7, <2>1, SoundIunlock
<1>12. file'[p].ip = file[p].ip /\ \A q \in Proc : q # p => file'[q] = file[q]
  <2>1. CASE r[1]
    <3>1. file' = [file EXCEPT ![p].off = @ + 1]
      BY <1>6, <2>1
    <3> QED
      BY <1>5, <3>1, OffMoves DEF FsCore
  <2>2. CASE ~r[1]
    BY <1>6, <2>2
  <2> QED
    BY <2>1, <2>2
<1> QED
  BY <1>5, <1>6, <1>11, <1>12, MovedBlocks

----------------------------------------------------------------------------
(***************************************************************************)
(* The theorems                                                            *)
(***************************************************************************)
LEMMA InitBlocks ==
  ASSUME Init
  PROVE  BlocksCore
<1>1. FsType
  BY InitType
<1>2. PICK f : f = State
  OBVIOUS
<1>3. f \in FsState /\ f.it = itable /\ f.di = dinode /\ f.used = bitmap
  BY <1>1, <1>2, StateType
<1>4. OwnedIn(f)
  <2>1. PICK disk \in Disk : f.di = disk.di /\ f.used = disk.used
    BY <1>3 DEF Init
  <2>2. /\ disk.used = UNION {Blocks(disk.di[i]) : i \in Inum}
        /\ \A i, j \in Inum : i # j => Blocks(disk.di[i]) \intersect Blocks(disk.di[j]) = {}
        /\ \A i \in Inum : disk.di[i].type = "none" => Blocks(disk.di[i]) = {}
    BY <2>1, DiskAssumption
  <2> QED
    BY SMTT(30), <2>1, <2>2 DEF OwnedIn
<1>5. \A i \in Inum : ~f.it[i].valid /\ f.it[i].lock = None /\ f.it[i].ref >= 0
  <2>1. SUFFICES ASSUME NEW i \in Inum
                 PROVE  ~f.it[i].valid /\ f.it[i].lock = None /\ f.it[i].ref >= 0
    OBVIOUS
  <2>2. IsFiniteSet({p \in Proc : cwd[p] = i})
    BY Sizes, FS_Subset
  <2>3. PICK n : n = Cardinality({p \in Proc : cwd[p] = i})
    OBVIOUS
  <2>4. n \in Nat
    BY <2>2, <2>3, FS_CardinalityType
  <2>5. itable[i] = [ref |-> n, valid |-> FALSE, lock |-> None, ino |-> FreeInode]
    BY <2>3 DEF Init
  <2> QED
    BY <1>3, <2>4, <2>5
<1>6. todo = [p \in Proc |-> <<>>] /\ file = [p \in Proc |-> None]
  BY DEF Init
<1>7. Opened = {}
  BY <1>6 DEF Opened
<1>8. \A i \in Inum : Copied(f, i, Invalidating, Opened)
  BY <1>5, <1>7 DEF Copied, Fresh
<1>9. Sound(f, Invalidating, Opened)
  BY <1>3, <1>4, <1>5, <1>8 DEF Sound
<1>10. \A p \in Proc : Paired(todo[p])
  <2>1. PICK s : s = <<>>
    OBVIOUS
  <2>2. Paired(s)
    BY <2>1 DEF Paired
  <2> QED
    BY <1>6, <2>1, <2>2
<1> QED
  BY <1>2, <1>7, <1>9, <1>10 DEF BlocksCore

LEMMA StepBlocks ==
  ASSUME FsCore, BlocksCore, FsCore' \/ Stuck', NEW p \in Proc, Step(p)
  PROVE  BlocksCore' \/ Stuck'
<1>1. CASE Put(p) \/ Free(p) \/ Invalidate(p) \/ Unref(p) \/ Unlock(p)
  BY <1>1, PutBlocks, FreeBlocks, InvalidateBlocks, UnrefBlocks, UnlockBlocks
<1>2. CASE WalkEnd(p) \/ Walk(p) \/ CreateNoDir(p) \/ NoInode(p) \/ SetCwd(p)
  BY <1>2, WalkEndBlocks, WalkBlocks, QuietBlocks
<1>3. CASE Create(p) \/ Created(p) \/ Ialloc(p) \/ Fill(p) \/ Made(p)
  BY <1>3, CreateBlocks, CreatedBlocks, IallocBlocks, FillBlocks, MadeBlocks
<1>4. CASE Open(p) \/ Link(p) \/ LinkDir(p) \/ LinkBad(p)
  BY <1>4, OpenBlocks, LinkBlocks, LinkDirBlocks, LinkBadBlocks
<1>5. CASE Unlink(p) \/ UnlinkFile(p) \/ UnlinkDone(p) \/ Chdir(p)
  BY <1>5, UnlinkBlocks, UnlinkFileBlocks, UnlinkDoneBlocks, ChdirBlocks
<1> QED
  BY <1>1, <1>2, <1>3, <1>4, <1>5 DEF Step

LEMMA CallBlocks ==
  ASSUME FsCore, BlocksCore, NEW p \in Proc, Call(p)
  PROVE  BlocksCore'
<1>1. CASE SysOpen(p) \/ SysMake(p) \/ SysLink(p) \/ SysUnlink(p) \/ SysChdir(p)
  BY <1>1, SysBlocks
<1>2. CASE Close(p) \/ Read(p) \/ Write(p)
  BY <1>2, CloseBlocks, ReadBlocks, WriteBlocks
<1> QED
  BY <1>1, <1>2 DEF Call

LEMMA SameBlocks ==
  ASSUME BlocksInv, UNCHANGED vars
  PROVE  BlocksInv'
<1>1. State' = State
  BY DEF State, vars, fsvars
<1>2. Opened' = Opened /\ Freeing' = Freeing /\ Invalidating' = Invalidating
  BY DEF Opened, Freeing, Invalidating, NextOf, vars
<1>3. BlocksCore => BlocksCore'
  BY <1>1, <1>2 DEF BlocksCore, vars
<1>4. Stuck => Stuck'
  BY DEF Stuck, vars, fsvars
<1> QED
  BY <1>3, <1>4 DEF BlocksInv

LEMMA BlocksStep ==
  ASSUME RefsInv, RefsInv', BlocksInv, [Next]_vars
  PROVE  BlocksInv'
<1>1. CASE UNCHANGED vars
  BY <1>1, SameBlocks
<1>2. CASE Done
  BY <1>2, SameBlocks DEF Done
<1>3. ASSUME NEW p \in Proc, Step(p) \/ Call(p)
      PROVE  BlocksInv'
  <2>1. panic = "no"
    BY <1>3, Going
  <2>2. FsCore /\ BlocksCore /\ (FsCore' \/ Stuck')
    BY <2>1 DEF RefsInv, BlocksInv, Stuck
  <2>3. BlocksCore' \/ Stuck'
    BY <1>3, <2>2, StepBlocks, CallBlocks
  <2> QED
    BY <2>3 DEF BlocksInv
<1> QED
  BY <1>1, <1>2, <1>3 DEF Next

\* fs.c: a block in use belongs to one inode, the copy in memory of an inode is
\* the one on the disk, and what iput() gives back is not open, while no call has
\* panicked.
THEOREM BlocksInvariance == Spec => []BlocksInv
<1>1. Init => BlocksInv
  BY InitBlocks DEF BlocksInv
<1>2. RefsInv /\ RefsInv' /\ BlocksInv /\ [Next]_vars => BlocksInv'
  BY BlocksStep
<1> QED
  BY RefsInvariance, <1>1, <1>2, PTL DEF Spec

\* balloc(), bfree(), bmap(), itrunc(): at rest, the blocks in use are those of
\* the inodes, and no two inodes share one, for any number of processes, inodes
\* and blocks, every disk and every path.
THEOREM BlocksExactHolds == Spec => []BlocksExact
<1>1. BlocksInv => BlocksExact
  <2>1. SUFFICES ASSUME BlocksInv, Quiescent
                 PROVE  /\ bitmap = UNION {Blocks(dinode[i]) : i \in Allocated}
                        /\ \A i, j \in Allocated :
                             i # j => Blocks(dinode[i]) \intersect Blocks(dinode[j]) = {}
    BY DEF BlocksExact
  <2>2. BlocksCore
    BY <2>1 DEF BlocksInv, Stuck, Quiescent
  <2>3. OwnedIn(State) /\ State.di = dinode /\ State.used = bitmap
    BY <2>2 DEF BlocksCore, Sound, State
  <2>4. /\ \A b : b \in bitmap <=> \E i \in Inum : b \in Blocks(dinode[i])
        /\ \A i, j \in Inum : i # j => Blocks(dinode[i]) \intersect Blocks(dinode[j]) = {}
        /\ \A i \in Inum : dinode[i].type = "none" => Blocks(dinode[i]) = {}
    BY <2>3 DEF OwnedIn
  <2> QED
    BY <2>4 DEF Allocated
<1> QED
  BY BlocksInvariance, <1>1, PTL

----------------------------------------------------------------------------
(***************************************************************************)
(* Four panics of fs.c that the references, locks and blocks exclude       *)
(***************************************************************************)
Fault == {"ilock", "iunlock", "freeing free block", "sched locks"}

\* No such panic yet; and p has locked inode i, which is in the table.
Sane(f) == f \in FsState /\ (\A j \in Inum : f.it[j].ref >= 0) /\ f.panic \notin Fault
Has(f, p, i) == Sane(f) /\ f.it[i].ref >= 1 /\ f.it[i].lock = p

LEMMA PanicSane ==
  ASSUME NEW f, Sane(f), NEW m \in Message, m # "no", m \notin Fault, NEW g, g = Panic(f, m)
  PROVE  Sane(g) /\ g.it = f.it
<1>1. /\ g \in FsState /\ g.it = f.it
  BY PanicIs DEF Sane
<1>2. g.panic = f.panic \/ g.panic = m
  BY DEF Panic, Sane, FsState
<1> QED
  BY <1>1, <1>2 DEF Sane

\* The panics that remain.
LEMMA OtherPanics ==
  /\ "iget: no inodes" \notin Fault /\ "ilock: no type" \notin Fault
  /\ "dirlookup not DIR" \notin Fault /\ "unlink: nlink < 1" \notin Fault
  /\ "unlink: writei" \notin Fault /\ "no" \notin Fault
  BY DEF Fault

\* ilock() of an inode in the table
LEMMA SaneLock ==
  ASSUME NEW f, Sane(f), NEW p \in Proc, NEW i \in Inum, f.it[i].ref >= 1, NEW g, g = Ilock(f, p, i)
  PROVE  /\ Has(g, p, i) /\ \A j \in Inum : j # i => g.it[j] = f.it[j]
<1>1. f \in FsState
  BY DEF Sane
<1>2. /\ g \in FsState /\ \A j \in Inum : j # i => g.it[j] = f.it[j]
      /\ g.it[i].ref = f.it[i].ref /\ g.it[i].lock = p
  BY <1>1, IlockIs
<1>3. g.panic = f.panic \/ g.panic = "ilock: no type"
  <2>1. PICK ino : ino = IF f.it[i].valid THEN f.it[i].ino ELSE f.di[i]
    OBVIOUS
  <2>2. PICK h : h = [f EXCEPT !.it[i].lock = p, !.it[i].valid = TRUE, !.it[i].ino = ino]
    OBVIOUS
  <2>3. h.panic = f.panic
    BY <1>1, <2>2 DEF FsState
  <2>4. g = h \/ g = Panic(h, "ilock: no type")
    <3>1. f.it[i].ref \in Int
      BY <1>1, StateIs
    <3>2. ~(f.it[i].ref < 1)
      BY <3>1
    <3> QED
      BY <3>2, <2>1, <2>2 DEF Ilock
  <2>5. h.panic # "no" => Panic(h, "ilock: no type") = h
    BY DEF Panic
  <2>6. h.panic = "no" => Panic(h, "ilock: no type").panic = "ilock: no type"
    BY <1>1, <2>2 DEF Panic, FsState
  <2> QED
    BY <2>3, <2>4, <2>5, <2>6
<1>4. g.panic \notin Fault
  BY <1>3, OtherPanics DEF Sane
<1> QED
  BY <1>2, <1>4 DEF Sane, Has

\* What p has locked stays locked.
LEMMA HasLock ==
  ASSUME NEW f, NEW p \in Proc, NEW i \in Inum, Has(f, p, i), NEW e \in Inum, e # i, f.it[e].ref >= 1,
         NEW g, g = Ilock(f, p, e)
  PROVE  Has(g, p, i) /\ Has(g, p, e)
<1>1. Has(g, p, e) /\ g.it[i] = f.it[i]
  BY SaneLock DEF Has
<1> QED
  BY <1>1 DEF Has

\* iget()
LEMMA SaneGet ==
  ASSUME NEW f, Sane(f), NEW e \in Inum, NEW g, g = Iget(f, e)
  PROVE  /\ Sane(g)
         /\ \A j \in Inum : /\ g.it[j].lock = f.it[j].lock
                            /\ f.it[j].ref >= 1 => g.it[j].ref >= 1
<1>1. f \in FsState /\ f.it[e].ref >= 0 /\ f.it[e].ref \in Int
  BY StateIs DEF Sane
<1>2. /\ g \in FsState /\ \A j \in Inum : j # e => g.it[j] = f.it[j]
      /\ g.it[e].lock = f.it[e].lock /\ g.it[e].ref >= 0
      /\ g.panic = "no" => g.it[e].ref = f.it[e].ref + 1
  BY <1>1, IgetIs
<1>3. CASE e \notin InTable(f) /\ Cardinality(InTable(f)) >= NINODE
  <2>1. g = Panic(f, "iget: no inodes")
    BY <1>3 DEF Iget
  <2>2. Sane(g) /\ g.it = f.it
    BY <2>1, PanicSane, OtherPanics, Messages
  <2> QED
    BY <2>2
<1>4. CASE ~(e \notin InTable(f) /\ Cardinality(InTable(f)) >= NINODE)
  <2>1. g.panic = f.panic
    BY <1>1, <1>4 DEF Iget, FsState
  <2>2. g.it[e].ref >= 1
    <3>1. CASE e \in InTable(f)
      <4>1. g.it[e].ref = f.it[e].ref + 1
        BY <1>1, <3>1 DEF Iget, FsState, Ent
      <4> QED
        BY <1>1, <4>1
    <3>2. CASE e \notin InTable(f)
      <4>1. g.it[e].ref = 1
        BY <1>1, <1>4, <3>2 DEF Iget, FsState, Ent
      <4> QED
        BY <4>1
    <3> QED
      BY <3>1, <3>2
  <2>3. g.panic \notin Fault
    BY <2>1 DEF Sane
  <2>4. \A j \in Inum : g.it[j].ref >= 0
    BY <1>2 DEF Sane
  <2>5. Sane(g)
    BY <1>2, <2>3, <2>4 DEF Sane
  <2> QED
    BY <1>2, <2>2, <2>5
<1> QED
  BY <1>3, <1>4

LEMMA HasGet ==
  ASSUME NEW f, NEW p \in Proc, NEW i \in Inum, Has(f, p, i), NEW e \in Inum, NEW g, g = Iget(f, e)
  PROVE  Has(g, p, i)
<1>1. /\ Sane(g) /\ g.it[i].lock = f.it[i].lock
      /\ f.it[i].ref >= 1 => g.it[i].ref >= 1
  BY SaneGet DEF Has
<1> QED
  BY <1>1 DEF Has

\* dirlookup()
LEMMA HasDir ==
  ASSUME NEW f, NEW p \in Proc, NEW i \in Inum, Has(f, p, i), NEW d, NEW g, g = AsDir(f, d)
  PROVE  Has(g, p, i)
<1>1. CASE g = f
  BY <1>1
<1>2. CASE g = Panic(f, "dirlookup not DIR")
  <2>1. Sane(g) /\ g.it = f.it
    BY <1>2, PanicSane, OtherPanics, Messages DEF Has
  <2> QED
    BY <2>1 DEF Has
<1> QED
  BY <1>1, <1>2 DEF AsDir

\* writei(), iupdate()
LEMMA SaneKept ==
  ASSUME NEW f, Sane(f), NEW g, Keeps(f, g), g.panic = f.panic
  PROVE  Sane(g)
  BY DEF Sane, Keeps

LEMMA HasKept ==
  ASSUME NEW f, NEW p \in Proc, NEW i \in Inum, Has(f, p, i), NEW g, Keeps(f, g), g.panic = f.panic
  PROVE  Has(g, p, i)
<1>1. Sane(g)
  BY SaneKept DEF Has
<1> QED
  BY <1>1 DEF Has, Keeps

\* iunlock() by the process that has the lock
LEMMA HasUnlock ==
  ASSUME NEW f, NEW p \in Proc, NEW i \in Inum, Has(f, p, i), NEW g, g = Iunlock(f, p, i)
  PROVE  Sane(g)
<1>1. f \in FsState
  BY DEF Has, Sane
<1>2. /\ g \in FsState /\ g.panic = f.panic
      /\ g.it[i].ref = f.it[i].ref /\ \A j \in Inum : j # i => g.it[j] = f.it[j]
  BY <1>1, IunlockIs DEF Has
<1> QED
  BY <1>2 DEF Has, Sane

LEMMA SaneBecomes ==
  ASSUME NEW g, Sane(g), Become(g)
  PROVE  panic' \notin Fault
  BY BecomeIs DEF Sane

\* Where a step begins.
LEMMA SaneState ==
  ASSUME FsCore, BlocksCore, panic = "no"
  PROVE  /\ Sane(State) /\ State.it = itable
         /\ \A p \in Proc, i \in Inum : itable[i].lock = p => Has(State, p, i)
<1>1. State \in FsState /\ State.it = itable /\ State.panic = "no"
  BY StateType DEF FsCore
<1>2. \A i \in Inum : itable[i].ref >= 0
  BY <1>1 DEF BlocksCore, Sound
<1>3. Sane(State)
  BY <1>1, <1>2, OtherPanics DEF Sane
<1>4. UsesHeld
  BY UsesHeldIs DEF AllPaired, BlocksCore
<1>5. ASSUME NEW p \in Proc, NEW i \in Inum, itable[i].lock = p PROVE Has(State, p, i)
  <2>1. itable[i].ref >= 1
    BY <1>4, <1>5, Sizes DEF UsesHeld
  <2> QED
    BY <1>1, <1>3, <1>5, <2>1 DEF Has
<1> QED
  BY <1>1, <1>3, <1>5

LEMMA HasLinks ==
  ASSUME NEW f, NEW p \in Proc, NEW i \in Inum, Has(f, p, i), NEW d \in Inum, NEW n \in Int, NEW g, g = AddLinks(f, d, n)
  PROVE  Has(g, p, i)
<1>1. f \in FsState
  BY DEF Has, Sane
<1>2. Keeps(f, g)
  BY <1>1, AddLinksIs
<1>3. g.panic = f.panic
  BY <1>1 DEF AddLinks, Update, FsState
<1> QED
  BY <1>2, <1>3, HasKept

\* ilock() and iunlock() of an inode that p uses.
LEMMA SaneLocked ==
  ASSUME FsCore, BlocksCore, panic = "no", NEW p \in Proc, NEW i \in Inum, itable[i].ref >= 1,
         NEW f, f = Ilock(State, p, i)
  PROVE  Has(f, p, i)
<1>1. Sane(State) /\ State.it = itable
  BY SaneState
<1>2. State.it[i].ref >= 1
  BY <1>1
<1> QED
  BY <1>1, <1>2, SaneLock

LEMMA WalkSane ==
  ASSUME FsCore, BlocksCore, NEW p \in Proc, Walk(p)
  PROVE  panic' \notin Fault
<1>1. PICK s, q, i : s = todo[p] /\ q = ret[p] /\ i = s[1][2]
  OBVIOUS
<1>2. At(p, "walk")
  BY DEF Walk
<1>3. /\ i \in Inum /\ itable[i].ref >= 1
      /\ Arg(p, 1) = i /\ Arg(p, 2) = s[1][3] /\ Arg(p, 3) = s[1][4]
  BY <1>1, <1>2, WalkAt
<1>4. panic = "no"
  BY <1>2 DEF At
<1>5. PICK f, g, k : /\ f = Ilock(State, p, i) /\ g = Iunlock(f, p, i)
                     /\ k = Dirlookup(f, i, Head(s[1][3]))
  OBVIOUS
<1>6. PICK e, h, g1 : e = Entry(f, i, k) /\ h = Iget(f, e) /\ g1 = Iunlock(h, p, i)
  OBVIOUS
<1>7. Become(g) \/ (k # 0 /\ Become(g1))
  BY <1>3, <1>5, <1>6 DEF Walk
<1>8. Has(f, p, i)
  BY <1>3, <1>4, <1>5, SaneLocked
<1>9. Sane(g)
  BY <1>3, <1>5, <1>8, HasUnlock
<1>10. k # 0 => Sane(g1)
  <2>1. PICK name : name = Head(s[1][3])
    OBVIOUS
  <2>2. k = Dirlookup(f, i, name) /\ f \in FsState
    BY <1>5, <1>8, <2>1 DEF Has, Sane
  <2>3. k # 0 => e \in Inum
    BY <1>3, <1>6, <2>2, DirlookupIs
  <2>4. k # 0 => Has(h, p, i)
    BY <1>3, <1>6, <1>8, <2>3, HasGet
  <2> QED
    BY <1>3, <1>6, <2>4, HasUnlock
<1> QED
  BY <1>7, <1>9, <1>10, SaneBecomes

\* A directory is locked, and a name looked up in it.
LEMMA SaneLooked ==
  ASSUME FsCore, BlocksCore, panic = "no", NEW p \in Proc, NEW d \in Inum, itable[d].ref >= 1,
         NEW f, f = AsDir(Ilock(State, p, d), d), NEW name, NEW k, k = Dirlookup(f, d, name)
  PROVE  /\ Has(f, p, d)
         /\ k # 0 => Entry(f, d, k) \in Inum /\ Has(Iget(f, Entry(f, d, k)), p, d)
<1>1. PICK f0 : f0 = Ilock(State, p, d) /\ f = AsDir(f0, d)
  OBVIOUS
<1>2. Has(f0, p, d)
  BY <1>1, SaneLocked
<1>3. Has(f, p, d)
  BY <1>1, <1>2, HasDir
<1>4. f \in FsState
  BY <1>3 DEF Has, Sane
<1>5. k # 0 => Entry(f, d, k) \in Inum
  BY <1>4, DirlookupIs
<1> QED
  BY <1>3, <1>5, HasGet

LEMMA CreateSane ==
  ASSUME FsCore, BlocksCore, NEW p \in Proc, Create(p)
  PROVE  panic' \notin Fault
<1>1. PICK q, name : q = ret[p] /\ name = Arg(p, 1)
  OBVIOUS
<1>2. At(p, "create") /\ q # 0
  BY <1>1 DEF Create
<1>3. panic = "no" /\ q \in Inum /\ itable[q].ref >= 1
  BY <1>1, <1>2, StepIs DEF At
<1>4. PICK f, k, e, h, g : /\ f = AsDir(Ilock(State, p, q), q) /\ k = Dirlookup(f, q, name)
                           /\ e = Entry(f, q, k) /\ h = Iget(f, e) /\ g = Iunlock(h, p, q)
  OBVIOUS
<1>5. (k # 0 /\ Become(g)) \/ Become(f)
  BY <1>1, <1>4 DEF Create
<1>6. Has(f, p, q) /\ (k # 0 => Has(h, p, q))
  BY <1>3, <1>4, SaneLooked
<1>7. k # 0 => Sane(g)
  BY <1>3, <1>4, <1>6, HasUnlock
<1> QED
  BY <1>5, <1>6, <1>7, SaneBecomes DEF Has

LEMMA UnlinkSane ==
  ASSUME FsCore, BlocksCore, NEW p \in Proc, Unlink(p)
  PROVE  panic' \notin Fault
<1>1. PICK q, name : q = ret[p] /\ name = Arg(p, 1)
  OBVIOUS
<1>2. At(p, "unlink") /\ q # 0
  BY <1>1 DEF Unlink
<1>3. panic = "no" /\ q \in Inum /\ itable[q].ref >= 1
  BY <1>1, <1>2, StepIs DEF At
<1>4. PICK f, k, e, h, g : /\ f = AsDir(Ilock(State, p, q), q) /\ k = Dirlookup(f, q, name)
                           /\ e = Entry(f, q, k) /\ h = Iget(f, e) /\ g = Iunlock(f, p, q)
  OBVIOUS
<1>5. Become(g) \/ (k # 0 /\ Become(h))
  BY <1>1, <1>4 DEF Unlink
<1>6. Has(f, p, q) /\ (k # 0 => Has(h, p, q))
  BY <1>3, <1>4, SaneLooked
<1>7. Sane(g)
  BY <1>3, <1>4, <1>6, HasUnlock
<1> QED
  BY <1>5, <1>6, <1>7, SaneBecomes DEF Has

\* The step names the inode and uses it.
LEMMA StepUses ==
  ASSUME FsCore, NEW p \in Proc, NEW k, At(p, k), k \in Using
  PROVE  panic = "no" /\ Arg(p, 1) \in Inum /\ itable[Arg(p, 1)].ref >= 1
<1>1. PICK s, i : s = todo[p] /\ i = Arg(p, 1)
  OBVIOUS
<1>2. s[1] \in FsStep /\ s[1][1] = k /\ i = s[1][2] /\ todo[p] # <<>>
  BY <1>1, StepIs
<1>3. i \in Inum
  BY <1>2, StepArgs
<1>4. itable[i].ref >= 1
  BY <1>1, <1>2, <1>3, HasRef
<1> QED
  BY <1>1, <1>3, <1>4 DEF At

LEMMA CreatedSane ==
  ASSUME FsCore, BlocksCore, NEW p \in Proc, Created(p)
  PROVE  panic' \notin Fault
<1>1. PICK i, k, f, g : /\ i = Arg(p, 1) /\ k = "created" /\ f = Ilock(State, p, i)
                        /\ g = Iunlock(f, p, i)
  OBVIOUS
<1>2. At(p, k) /\ k \in Using
  BY <1>1 DEF Created, Using
<1>3. panic = "no" /\ i \in Inum /\ itable[i].ref >= 1
  BY <1>1, <1>2, StepUses
<1>4. Has(f, p, i)
  BY <1>1, <1>3, SaneLocked
<1>5. Sane(g)
  BY <1>1, <1>3, <1>4, HasUnlock
<1>6. Become(f) \/ Become(g)
  BY <1>1 DEF Created
<1> QED
  BY <1>4, <1>5, <1>6, SaneBecomes DEF Has

LEMMA LinkBadSane ==
  ASSUME FsCore, BlocksCore, NEW p \in Proc, LinkBad(p)
  PROVE  panic' \notin Fault
<1>1. PICK i, k, f, h, g : /\ i = Arg(p, 1) /\ k = "linkbad" /\ f = Ilock(State, p, i)
                           /\ h = AddLinks(f, i, Unlinked) /\ g = Iunlock(h, p, i)
  OBVIOUS
<1>2. At(p, k) /\ k \in Using
  BY <1>1 DEF LinkBad, Using
<1>3. panic = "no" /\ i \in Inum /\ itable[i].ref >= 1
  BY <1>1, <1>2, StepUses
<1>4. Has(f, p, i)
  BY <1>1, <1>3, SaneLocked
<1>5. PICK n \in Int : n = Unlinked /\ h = AddLinks(f, i, n)
  BY <1>1 DEF Unlinked
<1>6. Has(h, p, i)
  BY <1>3, <1>4, <1>5, HasLinks
<1>7. Sane(g)
  BY <1>1, <1>3, <1>6, HasUnlock
<1>8. Become(g)
  BY <1>1 DEF LinkBad
<1> QED
  BY <1>7, <1>8, SaneBecomes

LEMMA ChdirSane ==
  ASSUME FsCore, BlocksCore, NEW p \in Proc, Chdir(p)
  PROVE  panic' \notin Fault
<1>1. PICK q, f, g : q = ret[p] /\ f = Ilock(State, p, q) /\ g = Iunlock(f, p, q)
  OBVIOUS
<1>2. At(p, "chdir") /\ q # 0
  BY <1>1 DEF Chdir
<1>3. panic = "no" /\ q \in Inum /\ itable[q].ref >= 1
  BY <1>1, <1>2, StepIs DEF At
<1>4. Has(f, p, q)
  BY <1>1, <1>3, SaneLocked
<1>5. Sane(g)
  BY <1>1, <1>3, <1>4, HasUnlock
<1>6. Become(g)
  BY <1>1 DEF Chdir
<1> QED
  BY <1>5, <1>6, SaneBecomes

LEMMA LinkSane ==
  ASSUME FsCore, BlocksCore, NEW p \in Proc, Link(p)
  PROVE  panic' \notin Fault
<1>1. PICK s, q : s = todo[p] /\ q = ret[p]
  OBVIOUS
<1>2. At(p, "link") /\ q # 0
  BY <1>1 DEF Link
<1>3. /\ panic = "no" /\ q \in Inum /\ itable[q].ref >= 1
      /\ s[1] \in FsStep /\ s[1][1] = "link" /\ Arg(p, 1) = s[1][2]
  BY <1>1, <1>2, StepIs DEF At
<1>4. PICK f, g : f = Ilock(State, p, q) /\ g = Iunlock(f, p, q)
  OBVIOUS
<1>5. PICK new, h, u, e, g1 : /\ new = Arg(p, 1) /\ h = AddLinks(f, q, 1) /\ u = Iunlock(h, p, q)
                              /\ e = Start(p, new) /\ g1 = Iget(u, e)
  OBVIOUS
<1>6. Become(g) \/ Become(g1)
  BY <1>1, <1>4, <1>5 DEF Link
<1>7. Has(f, p, q)
  BY <1>3, <1>4, SaneLocked
<1>8. Sane(g)
  BY <1>3, <1>4, <1>7, HasUnlock
<1>9. Has(h, p, q)
  <2>1. PICK n \in Int : n = 1 /\ h = AddLinks(f, q, n)
    BY <1>5
  <2> QED
    BY <1>3, <1>7, <2>1, HasLinks
<1>10. Sane(u)
  BY <1>3, <1>5, <1>9, HasUnlock
<1>11. e \in Inum
  <2>1. new \in WPath
    BY <1>3, <1>5, StepArgs
  <2> QED
    BY <1>5, <2>1, StartIs
<1>12. Sane(g1)
  BY <1>5, <1>10, <1>11, SaneGet
<1> QED
  BY <1>6, <1>8, <1>12, SaneBecomes

LEMMA LinkDirSane ==
  ASSUME FsCore, BlocksCore, NEW p \in Proc, LinkDir(p)
  PROVE  panic' \notin Fault
<1>1. PICK s, q : s = todo[p] /\ q = ret[p]
  OBVIOUS
<1>2. At(p, "linkdir")
  BY DEF LinkDir
<1>3. /\ s[1] \in FsStep /\ s[1][1] = "linkdir" /\ Arg(p, 1) = s[1][2] /\ Arg(p, 2) = s[1][3]
      /\ panic = "no" /\ q # 0 => q \in Inum /\ itable[q].ref >= 1
  BY <1>1, <1>2, StepIs DEF At
<1>4. PICK i, w : i = Arg(p, 1) /\ w = Arg(p, 2)
  OBVIOUS
<1>5. i \in Inum /\ w \in Word
  BY <1>3, <1>4, StepArgs DEF Using
<1>6. PICK f0, f, r, h, g : /\ f0 = Ilock(State, p, q) /\ f = AsDir(f0, q)
                            /\ r = Dirlink(f, q, w, i) /\ h = r[2] /\ g = Iunlock(h, p, q)
  OBVIOUS
<1>7. Become(State) \/ (q # 0 /\ Become(g))
  BY <1>1, <1>4, <1>6 DEF LinkDir
<1>8. panic = "no"
  BY <1>2 DEF At
<1>9. q # 0 => Sane(g)
  <2>1. SUFFICES ASSUME q # 0 PROVE Sane(g)
    OBVIOUS
  <2>2. q \in Inum /\ itable[q].ref >= 1
    BY <1>3, <1>8, <2>1
  <2>3. Has(f0, p, q)
    BY <1>6, <1>8, <2>2, SaneLocked
  <2>4. Has(f, p, q)
    BY <1>6, <2>2, <2>3, HasDir
  <2>5. Keeps(f, h) /\ h.panic = f.panic
    <3>1. f \in FsState
      BY <2>4 DEF Has, Sane
    <3>2. Keeps(f, r[2]) /\ r[2].panic = f.panic
      BY <1>5, <1>6, <2>2, <3>1, DirlinkIs
    <3> QED
      BY <1>6, <3>2
  <2>6. Has(h, p, q)
    BY <2>2, <2>4, <2>5, HasKept
  <2> QED
    BY <1>6, <2>2, <2>6, HasUnlock
<1>10. Sane(State)
  BY <1>8, SaneState
<1> QED
  BY <1>7, <1>9, <1>10, SaneBecomes

LEMMA IallocSane ==
  ASSUME FsCore, BlocksCore, NEW p \in Proc, Ialloc(p)
  PROVE  panic' \notin Fault
<1>1. At(p, "ialloc") /\ panic = "no"
  BY DEF Ialloc, At
<1>2. PICK s, ty : s = todo[p] /\ ty = Arg(p, 3)
  OBVIOUS
<1>3. ty \in Types
  <2>1. s[1] \in FsStep /\ s[1][1] = "ialloc" /\ ty = s[1][4]
    BY <1>1, <1>2, StepIs
  <2> QED
    BY <2>1, StepArgs
<1>4. Sane(State)
  BY <1>1, SaneState
<1>5. PICK free : free = {j \in Inum : dinode[j].type = "none"}
  OBVIOUS
<1>6. CASE free = {}
  <2>1. Become(State)
    BY <1>5, <1>6 DEF Ialloc
  <2> QED
    BY <1>4, <2>1, SaneBecomes
<1>7. CASE free # {}
  <2>1. PICK e : e = CHOOSE j \in free : \A k \in free : j <= k
    OBVIOUS
  <2>2. e \in Inum
    <3>1. free \subseteq 1 .. NInodes /\ NInodes \in Nat
      BY <1>5, Sizes DEF Inum
    <3>2. \E j \in free : \A k \in free : j <= k
      BY <1>7, <3>1, FirstOne
    <3>3. e \in free
      BY <2>1, <3>2
    <3> QED
      BY <1>5, <3>3
  <2>3. PICK ino, h, g : /\ ino = [FreeInode EXCEPT !.type = ty]
                         /\ h = [State EXCEPT !.di[e] = ino] /\ g = Iget(h, e)
    OBVIOUS
  <2>4. Become(g)
    BY <1>2, <1>5, <1>7, <2>1, <2>3 DEF Ialloc
  <2>5. ino \in Dinode
    <3>1. PICK z \in Dinode : z = FreeInode
      BY FreeInodeIs
    <3>2. ty \in Types \union {"none"} /\ ino = [z EXCEPT !.type = ty]
      BY <1>3, <2>3, <3>1
    <3> QED
      BY <3>2 DEF Dinode
  <2>6. Sane(h)
    <3>1. State \in FsState
      BY <1>4 DEF Sane
    <3>2. h \in FsState /\ h.it = State.it /\ h.panic = State.panic
      BY <2>2, <2>3, <2>5, <3>1 DEF FsState
    <3> QED
      BY <1>4, <3>2 DEF Sane
  <2>7. Sane(g)
    BY <2>2, <2>3, <2>6, SaneGet
  <2> QED
    BY <2>4, <2>7, SaneBecomes
<1> QED
  BY <1>6, <1>7

\* A step that has its inode locked.
LEMMA StepHolds ==
  ASSUME FsCore, BlocksCore, NEW p \in Proc, NEW k, At(p, k), k \in Locking
  PROVE  panic = "no" /\ Arg(p, 1) \in Inum /\ itable[Arg(p, 1)].lock = p /\ Has(State, p, Arg(p, 1))
<1>1. PICK s, i : s = todo[p] /\ i = Arg(p, 1)
  OBVIOUS
<1>2. /\ s[1] \in FsStep /\ s[1][1] = k /\ i = s[1][2] /\ Len(s) \in 1 .. 4 /\ panic = "no"
  <2>1. s[1] \in FsStep /\ s[1][1] = k /\ i = s[1][2]
    BY <1>1, StepIs
  <2>2. Len(s) \in 1 .. 4 /\ panic = "no"
    BY <1>1, AtIs
  <2> QED
    BY <2>1, <2>2
<1>3. i \in Inum
  BY <1>2, StepArgs DEF Locking, Using, Putting
<1>4. itable[i].lock = p
  BY <1>1, <1>2, <1>3, LockedFirst
<1>5. Has(State, p, i)
  BY <1>2, <1>3, <1>4, SaneState
<1> QED
  BY <1>1, <1>2, <1>3, <1>4, <1>5

LEMMA UnlockSane ==
  ASSUME FsCore, BlocksCore, NEW p \in Proc, Unlock(p)
  PROVE  panic' \notin Fault
<1>1. PICK i, k, g : i = Arg(p, 1) /\ k = "unlock" /\ g = Iunlock(State, p, i)
  OBVIOUS
<1>2. At(p, k) /\ k \in Locking /\ Become(g)
  BY <1>1 DEF Unlock, Locking
<1>3. i \in Inum /\ Has(State, p, i)
  BY <1>1, <1>2, StepHolds
<1>4. Sane(g)
  BY <1>1, <1>3, HasUnlock
<1> QED
  BY <1>2, <1>4, SaneBecomes

LEMMA UnlinkDoneSane ==
  ASSUME FsCore, BlocksCore, NEW p \in Proc, UnlinkDone(p)
  PROVE  panic' \notin Fault
<1>1. PICK i, k, n, h, g : /\ i = Arg(p, 1) /\ k = "unlinked" /\ n = -1 /\ h = AddLinks(State, i, n)
                           /\ g = Iunlock(h, p, i)
  OBVIOUS
<1>2. At(p, k) /\ k \in Locking /\ Become(g) /\ n \in Int
  BY <1>1 DEF UnlinkDone, Locking
<1>3. i \in Inum /\ Has(State, p, i)
  BY <1>1, <1>2, StepHolds
<1>4. Has(h, p, i)
  BY <1>1, <1>2, <1>3, HasLinks
<1>5. Sane(g)
  BY <1>1, <1>3, <1>4, HasUnlock
<1> QED
  BY <1>2, <1>5, SaneBecomes

LEMMA MadeSane ==
  ASSUME FsCore, BlocksCore, NEW p \in Proc, Made(p)
  PROVE  panic' \notin Fault
<1>1. PICK s, q, g : s = todo[p] /\ q = ret[p] /\ g = Iunlock(State, p, q)
  OBVIOUS
<1>2. At(p, "made") /\ panic = "no"
  BY DEF Made, At
<1>3. Become(State) \/ (q # 0 /\ Become(g))
  BY <1>1 DEF Made
<1>4. Sane(State)
  BY <1>2, SaneState
<1>5. q # 0 => Sane(g)
  <2>1. SUFFICES ASSUME q # 0 PROVE Sane(g)
    OBVIOUS
  <2>2. q \in Inum /\ s[1][1] = "made"
    BY <1>1, <1>2, <2>1, StepIs
  <2>3. RetLocked(s)
    BY <2>2 DEF RetLocked
  <2>4. itable[q].lock = p
    BY <1>1, <2>2, <2>3, LockedRet
  <2>5. Has(State, p, q)
    BY <1>2, <2>2, <2>4, SaneState
  <2> QED
    BY <1>1, <2>2, <2>5, HasUnlock
<1> QED
  BY <1>3, <1>4, <1>5, SaneBecomes

\* iput() on the disk: the blocks of the inode are in use.
LEMMA FreeSane ==
  ASSUME FsCore, BlocksCore, NEW p \in Proc, Free(p)
  PROVE  panic' \notin Fault
<1>1. PICK i, k : i = Arg(p, 1) /\ k = "free"
  OBVIOUS
<1>2. At(p, k) /\ k \in {"free", "invalid"}
  BY <1>1 DEF Free
<1>3. /\ i \in Inum /\ itable[i].lock = p /\ i \notin Invalidating /\ panic = "no" /\ State.panic = "no"
      /\ State.it = itable /\ Sound(State, Invalidating, Opened)
  BY <1>1, <1>2, FreedOnce
<1>4. Fit(State, i)
  <2>1. State.it[i].lock # None
    BY <1>3, Sizes
  <2> QED
    BY <1>3, <2>1, FitIs
<1>5. PICK f, g : f = Itrunc(State, i) /\ g = Update(f, i, [f.it[i].ino EXCEPT !.type = "none"])
  OBVIOUS
<1>6. Written(State, f, i)
  BY <1>3, <1>4, <1>5, ItruncWritten
<1>7. g.panic = f.panic /\ f.panic = State.panic
  <2>1. f \in FsState /\ f.panic = State.panic
    BY <1>6 DEF Written, Keeps
  <2> QED
    BY <1>5, <2>1 DEF Update, FsState
<1>8. Become(g)
  BY <1>1, <1>5 DEF Free
<1>9. panic' = g.panic
  BY <1>8, BecomeIs
<1> QED
  BY <1>3, <1>7, <1>9, OtherPanics

\* sys_open(): itrunc() of a file that is locked.
LEMMA OpenSane ==
  ASSUME FsCore, BlocksCore, NEW p \in Proc, Open(p)
  PROVE  panic' \notin Fault
<1>1. PICK s, i : s = todo[p] /\ i = ret[p]
  OBVIOUS
<1>2. At(p, "open") /\ i # 0
  BY <1>1 DEF Open
<1>3. Calm(todo[p]) /\ panic = "no"
  BY <1>2, AtBlocks
<1>4. s[1][1] = "open" /\ i \in Inum /\ itable[i].ref >= 1 /\ Arg(p, 1) = s[1][2]
  BY <1>1, <1>2, StepIs
<1>5. PICK m, create : m = Arg(p, 1) /\ create = m.create
  OBVIOUS
<1>6. (create => itable[i].lock = p) /\ (~create => itable[i].lock = None)
  <2>1. ASSUME create PROVE itable[i].lock = p
    <3>1. RetLocked(s)
      BY <1>4, <1>5, <2>1 DEF RetLocked
    <3> QED
      BY <1>1, <1>4, <3>1, LockedRet
  <2>2. ~create => itable[i].lock = None
    BY <1>1, <1>5 DEF Open, Unlocked
  <2> QED
    BY <2>1, <2>2
<1>7. PICK f : f = IF create THEN State ELSE Ilock(State, p, i)
  OBVIOUS
<1>8. PICK h, g1, g2 : /\ h = (IF m.trunc /\ f.it[i].ino.type = "T_FILE" THEN Itrunc(f, i) ELSE f)
                       /\ g1 = Iunlock(h, p, i) /\ g2 = Iunlock(f, p, i)
  OBVIOUS
<1>9. Become(g1) \/ Become(g2)
  BY <1>1, <1>5, <1>7, <1>8 DEF Open
<1>10. Has(f, p, i)
  <2>1. CASE create
    BY <1>3, <1>4, <1>6, <1>7, <2>1, SaneState
  <2>2. CASE ~create
    <3>1. f = Ilock(State, p, i)
      BY <1>7, <2>2
    <3> QED
      BY <1>3, <1>4, <3>1, SaneLocked
  <2> QED
    BY <2>1, <2>2
<1>11. Has(h, p, i)
  <2>1. CASE m.trunc /\ f.it[i].ino.type = "T_FILE"
    <3>1. h = Itrunc(f, i)
      BY <1>8, <2>1
    <3>2. Fit(f, i)
      BY <1>3, <1>4, <1>6, <1>7, <2>1, OpenLocked
    <3>3. Written(f, h, i)
      BY <1>4, <3>1, <3>2, ItruncWritten
    <3>4. Keeps(f, h) /\ h.panic = f.panic
      BY <3>3 DEF Written
    <3> QED
      BY <1>4, <1>10, <3>4, HasKept
  <2>2. CASE ~(m.trunc /\ f.it[i].ino.type = "T_FILE")
    BY <1>8, <1>10, <2>2
  <2> QED
    BY <2>1, <2>2
<1>12. Sane(g1) /\ Sane(g2)
  BY <1>4, <1>8, <1>10, <1>11, HasUnlock
<1> QED
  BY <1>9, <1>12, SaneBecomes

\* A second inode is locked.
LEMMA SecondLock ==
  ASSUME FsCore, BlocksCore, panic = "no", NEW p \in Proc, NEW i \in Inum, itable[i].lock = p,
         NEW e \in Inum, e # i, itable[e].ref >= 1, NEW f, f = Ilock(State, p, e)
  PROVE  Has(f, p, i) /\ Has(f, p, e) /\ Sane(f) /\ f \in FsState
<1>1. PICK st : st = State
  OBVIOUS
<1>2. Has(st, p, i) /\ st.it[e].ref >= 1
  <2>1. Has(State, p, i) /\ State.it = itable
    BY SaneState
  <2> QED
    BY <1>1, <2>1
<1>3. Has(f, p, i) /\ Has(f, p, e)
  BY <1>1, <1>2, HasLock
<1> QED
  BY <1>3 DEF Has, Sane

LEMMA ZeroIs == 0 \in 0 .. NInodes
  BY Sizes

\* create(): two inodes are locked, and what is written of them changes no lock.
LEMMA FillSane ==
  ASSUME FsCore, BlocksCore, NEW p \in Proc, Fill(p)
  PROVE  panic' \notin Fault
<1>1. PICK s, k : s = todo[p] /\ k = "fill"
  OBVIOUS
<1>2. At(p, k) /\ k \in Locking
  BY <1>1 DEF Fill, Locking
<1>3. /\ s[1] \in FsStep /\ s[1][1] = "fill" /\ todo[p] # <<>>
      /\ Arg(p, 2) = s[1][3] /\ Arg(p, 3) = s[1][4] /\ Arg(p, 4) = s[1][5]
  BY <1>1, <1>2, StepIs
<1>4. PICK i, w, e : i = Arg(p, 1) /\ w = Arg(p, 2) /\ e = Arg(p, 4) /\ e = s[1][5]
  BY <1>3
<1>5. i \in Inum /\ panic = "no" /\ itable[i].lock = p /\ Has(State, p, i) /\ State.it = itable
  BY <1>2, <1>4, StepHolds, SaneState
<1>6. w \in Word /\ e \in Inum
  BY <1>3, <1>4, StepArgs
<1>7. itable[e].ref >= 1 /\ itable[e].lock = None /\ e # i
  <2>1. itable[e].ref >= 1
    BY <1>1, <1>3, <1>4, <1>6, HasRef
  <2>2. itable[e].lock = None
    BY <1>4 DEF Fill, Unlocked
  <2> QED
    BY <1>5, <2>1, <2>2, Sizes
<1>8. PICK dir : dir = (Arg(p, 3) = "T_DIR")
  OBVIOUS
<1>9. PICK one, zero \in Int : one = 1 /\ zero = 0
  OBVIOUS
<1>10. PICK f, f1, r1, r2, f2, bad :
        /\ f = Ilock(State, p, e)
        /\ f1 = Update(f, e, [f.it[e].ino EXCEPT !.nlink = one])
        /\ r1 = IF dir THEN Dots(f1, i, e) ELSE <<TRUE, f1>>
        /\ r2 = IF r1[1] THEN Dirlink(r1[2], i, w, e) ELSE r1
        /\ f2 = IF dir THEN AddLinks(r2[2], i, one) ELSE r2[2]
        /\ bad = Update(r2[2], e, [r2[2].it[e].ino EXCEPT !.nlink = zero])
  OBVIOUS
<1>11. Has(f, p, i) /\ Has(f, p, e) /\ f \in FsState
  BY <1>5, <1>6, <1>7, <1>10, SecondLock
<1>12. Keeps(f, f2) /\ Keeps(f, bad)
  <2>1. Filling(f, i, e, w, dir, one, zero, f1, r1, r2, f2, bad) /\ dir \in BOOLEAN
    BY <1>8, <1>10 DEF Filling
  <2> QED
    BY <1>5, <1>6, <1>9, <1>11, <2>1, FillKeeps
<1>13. f2.panic = f.panic /\ bad.panic = f.panic
  <2>1. f1 \in FsState /\ f1.panic = f.panic
    <3>1. PICK new : new = [f.it[e].ino EXCEPT !.nlink = one] /\ f1 = Update(f, e, new)
      BY <1>10
    <3>2. new \in Dinode
      BY <1>6, <1>9, <1>11, <3>1, StateIs, DinodeIs
    <3> QED
      BY <1>6, <1>11, <3>1, <3>2, UpdateIs
  <2>2. r1[2] \in FsState /\ r1[2].panic = f.panic
    <3>1. CASE dir
      <4>1. r1 = Dots(f1, i, e)
        BY <1>10, <3>1
      <4>2. Keeps(f1, r1[2]) /\ r1[2].panic = f1.panic
        BY <1>5, <1>6, <2>1, <4>1, DotsIs
      <4> QED
        BY <2>1, <4>2 DEF Keeps
    <3>2. CASE ~dir
      BY <1>10, <2>1, <3>2
    <3> QED
      BY <3>1, <3>2
  <2>3. r2[2] \in FsState /\ r2[2].panic = f.panic
    <3>1. CASE r1[1]
      <4>1. PICK h : h = r1[2] /\ h \in FsState /\ r2 = Dirlink(h, i, w, e) /\ h.panic = f.panic
        BY <1>10, <2>2, <3>1
      <4>2. Keeps(h, r2[2]) /\ r2[2].panic = h.panic
        BY <1>5, <1>6, <4>1, DirlinkIs
      <4> QED
        BY <4>1, <4>2 DEF Keeps
    <3>2. CASE ~r1[1]
      BY <1>10, <2>2, <3>2
    <3> QED
      BY <3>1, <3>2
  <2>4. PICK h : h = r2[2] /\ h \in FsState /\ h.panic = f.panic
    BY <2>3
  <2>5. f2.panic = h.panic
    BY <1>10, <2>4 DEF AddLinks, Update, FsState
  <2>6. bad.panic = h.panic
    BY <1>10, <2>4 DEF Update, FsState
  <2> QED
    BY <2>4, <2>5, <2>6
<1>14. PICK g, h : g = Iunlock(f2, p, i) /\ h = Iunlock(bad, p, e)
  OBVIOUS
<1>15. Become(g) \/ Become(h)
  BY <1>4, <1>8, <1>9, <1>10, <1>14 DEF Fill
<1>16. Sane(g)
  <2>1. Has(f2, p, i)
    BY <1>5, <1>11, <1>12, <1>13, HasKept
  <2> QED
    BY <1>5, <1>14, <2>1, HasUnlock
<1>17. Sane(h)
  <2>1. Has(bad, p, e)
    BY <1>6, <1>11, <1>12, <1>13, HasKept
  <2> QED
    BY <1>6, <1>14, <2>1, HasUnlock
<1> QED
  BY <1>15, <1>16, <1>17, SaneBecomes

LEMMA FreeEntryIs == FreeEntry \in Word \X (0 .. NInodes)
<1>1. PICK w, z : w = "" /\ z = 0
  OBVIOUS
<1>2. w \in Word
  BY <1>1, Words
<1>3. z \in 0 .. NInodes
  BY <1>1, ZeroIs
<1>4. FreeEntry = <<w, z>>
  BY <1>1 DEF FreeEntry
<1> QED
  BY <1>2, <1>3, <1>4

LEMMA UnlinkFileSane ==
  ASSUME FsCore, BlocksCore, NEW p \in Proc, UnlinkFile(p)
  PROVE  panic' \notin Fault
<1>1. PICK s, t : s = todo[p] /\ t = "unlinkfile"
  OBVIOUS
<1>2. At(p, t) /\ t \in Locking
  BY <1>1 DEF UnlinkFile, Locking
<1>3. /\ s[1] \in FsStep /\ s[1][1] = "unlinkfile" /\ todo[p] # <<>>
      /\ Arg(p, 2) = s[1][3] /\ Arg(p, 3) = s[1][4]
  BY <1>1, <1>2, StepIs
<1>4. PICK i, e, k : i = Arg(p, 1) /\ e = Arg(p, 2) /\ e = s[1][3] /\ k = Arg(p, 3) /\ k = s[1][4]
  BY <1>3
<1>5. i \in Inum /\ panic = "no" /\ itable[i].lock = p /\ Has(State, p, i) /\ State.it = itable
  BY <1>2, <1>4, StepHolds, SaneState
<1>6. e \in Inum /\ k \in Nat \ {0}
  BY <1>3, <1>4, StepArgs
<1>7. itable[e].ref >= 1 /\ e # i
  <2>1. itable[e].ref >= 1
    BY <1>1, <1>3, <1>4, <1>6, HasRef
  <2>2. itable[e].lock = None
    BY <1>4 DEF UnlinkFile, Unlocked
  <2> QED
    BY <1>5, <2>1, <2>2, Sizes
<1>8. PICK off, v, copied : off = k - 1 /\ v = FreeEntry /\ copied = TRUE
  OBVIOUS
<1>9. PICK f, r, h : /\ f = Ilock(State, p, e) /\ r = Writei(f, i, off, v, copied)
                     /\ h = IF f.it[e].ino.type = "T_DIR" THEN AddLinks(r[2], i, -1) ELSE r[2]
  OBVIOUS
<1>10. PICK g1, g2 : g1 = Iunlock(f, p, e) /\ g2 = Iunlock(h, p, i)
  OBVIOUS
<1>11. \/ Become(Panic(f, "unlink: nlink < 1")) \/ Become(Panic(f, "unlink: writei"))
       \/ Become(g1) \/ Become(g2)
  BY <1>4, <1>8, <1>9, <1>10 DEF UnlinkFile
<1>12. Has(f, p, i) /\ Has(f, p, e) /\ Sane(f) /\ f \in FsState
  BY <1>5, <1>6, <1>7, <1>9, SecondLock
<1>13. ASSUME NEW m \in {"unlink: nlink < 1", "unlink: writei"}, Become(Panic(f, m))
       PROVE  panic' \notin Fault
  <2>1. PICK g : g = Panic(f, m) /\ Become(g)
    BY <1>13
  <2>2. m \in Message /\ m # "no" /\ m \notin Fault
    BY Messages, OtherPanics
  <2>3. Sane(g)
    BY <1>12, <2>1, <2>2, PanicSane
  <2> QED
    BY <2>1, <2>3, SaneBecomes
<1>14. Has(h, p, i)
  <2>1. off \in Nat /\ v \in Word \X (0 .. NInodes)
    BY <1>6, <1>8, FreeEntryIs
  <2>2. PICK u : u = r[2]
    OBVIOUS
  <2>3. Keeps(f, u) /\ u.panic = f.panic
    <3>1. Keeps(f, r[2]) /\ r[2].panic = f.panic
      BY <1>5, <1>9, <1>12, <2>1, WriteiIs
    <3> QED
      BY <2>2, <3>1
  <2>4. Has(u, p, i)
    BY <1>5, <1>12, <2>3, HasKept
  <2>5. PICK n \in Int : n = -1
    OBVIOUS
  <2>6. h = u \/ h = AddLinks(u, i, n)
    BY <1>9, <2>2, <2>5
  <2> QED
    BY <1>5, <2>4, <2>6, HasLinks
<1>15. Sane(g1) /\ Sane(g2)
  BY <1>5, <1>6, <1>10, <1>12, <1>14, HasUnlock
<1> QED
  BY <1>11, <1>13, <1>15, SaneBecomes

\* fileread(), filewrite(): the file refers to the inode.
LEMMA FileUses ==
  ASSUME FsCore, BlocksCore, NEW p \in Proc, Idle(p), file[p] # None, NEW i, i = file[p].ip,
         NEW f, f = Ilock(State, p, i)
  PROVE  i \in Inum /\ Has(f, p, i) /\ f \in FsState
<1>1. i \in Inum /\ panic = "no"
  BY OpenIs DEF FsCore, Idle
<1>2. itable[i].ref >= 1
  <2>1. FileAt(file[p], i) = 1
    BY DEF FileAt
  <2> QED
    BY <1>1, <2>1, Held
<1>3. Has(f, p, i)
  BY <1>1, <1>2, SaneLocked
<1> QED
  BY <1>1, <1>3 DEF Has, Sane

LEMMA ReadSane ==
  ASSUME FsCore, BlocksCore, NEW p \in Proc, Read(p)
  PROVE  panic' \notin Fault
<1>1. PICK i, f, g : i = file[p].ip /\ f = Ilock(State, p, i) /\ g = Iunlock(f, p, i)
  OBVIOUS
<1>2. Idle(p) /\ file[p] # None /\ Become(g)
  BY <1>1 DEF Read
<1>3. i \in Inum /\ Has(f, p, i)
  BY <1>1, <1>2, FileUses
<1>4. Sane(g)
  BY <1>1, <1>3, HasUnlock
<1> QED
  BY <1>2, <1>4, SaneBecomes

LEMMA ChunkIs == Chunk \in Word \X (0 .. NInodes)
<1>1. PICK w, z : w = "chunk" /\ z = 0
  OBVIOUS
<1>2. w \in Word
  BY <1>1, Words
<1>3. z \in 0 .. NInodes
  BY <1>1, ZeroIs
<1>4. Chunk = <<w, z>>
  BY <1>1 DEF Chunk
<1> QED
  BY <1>2, <1>3, <1>4

LEMMA WriteSane ==
  ASSUME FsCore, BlocksCore, NEW p \in Proc, Write(p)
  PROVE  panic' \notin Fault
<1>1. PICK i, f, v, off : i = file[p].ip /\ f = Ilock(State, p, i) /\ v = Chunk /\ off = file[p].off
  OBVIOUS
<1>2. PICK copied \in BOOLEAN : Become(Iunlock(Writei(f, i, off, v, copied)[2], p, i))
  BY <1>1 DEF Write
<1>3. PICK r, h, g : r = Writei(f, i, off, v, copied) /\ h = r[2] /\ g = Iunlock(h, p, i)
  OBVIOUS
<1>4. Become(g) /\ Idle(p) /\ file[p] # None
  BY <1>2, <1>3 DEF Write
<1>5. i \in Inum /\ Has(f, p, i) /\ f \in FsState
  BY <1>1, <1>4, FileUses
<1>6. off \in Nat
  BY <1>1, <1>4, OpenIs DEF FsCore
<1>7. v \in Word \X (0 .. NInodes)
  BY <1>1, ChunkIs
<1>8. Keeps(f, h) /\ h.panic = f.panic
  <2>1. Keeps(f, r[2]) /\ r[2].panic = f.panic
    BY <1>3, <1>5, <1>6, <1>7, WriteiIs
  <2> QED
    BY <1>3, <2>1
<1>9. Has(h, p, i)
  BY <1>5, <1>8, HasKept
<1>10. Sane(g)
  BY <1>3, <1>5, <1>9, HasUnlock
<1> QED
  BY <1>4, <1>10, SaneBecomes

\* Two uses are two references.
LEMMA TwoUses ==
  ASSUME FsCore, NEW i \in Inum, NEW p \in Proc, Uses(todo[p], ret[p], i) >= 1,
         NEW q \in Proc, q = p => Uses(todo[p], ret[p], i) >= 2, q # p => Uses(todo[q], ret[q], i) >= 1
  PROVE  itable[i].ref >= 2
<1>1. /\ IsFiniteSet(PendingOf(i))
      /\ itable[i].ref = Cardinality(CwdOf(i)) + Cardinality(FileOf(i)) + Cardinality(PendingOf(i))
  BY DEF FsCore, RefsCount
<1>2. IsFiniteSet(CwdOf(i)) /\ IsFiniteSet(FileOf(i))
  BY FS_Subset, Sizes DEF CwdOf, FileOf
<1>3. PICK k1, k2, k3 \in Nat : k1 = Cardinality(CwdOf(i)) /\ k2 = Cardinality(FileOf(i))
                                /\ k3 = Cardinality(PendingOf(i))
  BY <1>1, <1>2, FS_CardinalityType
<1>4. PICK n \in {1, 2} : n = IF q = p THEN 2 ELSE 1
  OBVIOUS
<1>5. PICK g, h : g = <<p, 1>> /\ h = <<q, n>>
  OBVIOUS
<1>6. g \in PendingOf(i) /\ h \in PendingOf(i) /\ g # h
  <2>1. g \in PendingOf(i)
    BY <1>5 DEF PendingOf
  <2>2. h \in PendingOf(i)
    BY <1>4, <1>5 DEF PendingOf
  <2> QED
    BY <1>4, <1>5, <2>1, <2>2
<1>7. k3 >= 2
  <2>1. PICK S : S = PendingOf(i) \ {g}
    OBVIOUS
  <2>2. IsFiniteSet(S) /\ Cardinality(S) = k3 - 1
    BY <1>1, <1>3, <1>6, <2>1, FS_RemoveElement
  <2>3. h \in S
    BY <1>6, <2>1
  <2>4. Cardinality(S) \in Nat /\ Cardinality(S) # 0
    BY <2>2, <2>3, FS_CardinalityType, FS_EmptySet
  <2> QED
    BY <2>2, <2>4
<1> QED
  BY <1>1, <1>3, <1>7

\* An inode that iput() gives back, and that a step will unlock, is used twice:
\* who has locked it uses it, besides this reference.
LEMMA LockedTwice ==
  ASSUME FsCore, BlocksCore, NEW p \in Proc, At(p, "put"), NEW i \in Inum, i = Arg(p, 1),
         itable[i].lock # None
  PROVE  itable[i].ref >= 2
<1>1. PICK s, r : s = todo[p] /\ r = ret[p]
  OBVIOUS
<1>2. /\ s \in Seq(FsStep) /\ s # <<>> /\ Len(s) \in 1 .. 4 /\ s[1] \in FsStep /\ s[1][1] = "put"
      /\ Shape(s) /\ RetShape(s, r) /\ i = s[1][2] /\ Paired(s)
  <2>1. /\ s \in Seq(FsStep) /\ s # <<>> /\ Len(s) \in 1 .. 4 /\ s[1] \in FsStep /\ s[1][1] = "put"
        /\ Shape(s) /\ RetShape(s, r)
    BY <1>1, AtIs
  <2>2. i = s[1][2]
    BY <1>1, StepIs
  <2> QED
    BY <1>1, <2>1, <2>2 DEF BlocksCore
<1>3. Refs(s[1], i) = 1 /\ Locks(s[1], i) = 0
  <2>1. Refs(s[1], i) = Eq(s[1][2], i) /\ Locks(s[1], i) = 0
    BY <1>2, WeightsOf
  <2> QED
    BY <1>2, <2>1 DEF Eq
<1>4. PICK q \in Proc : itable[i].lock = q
  <2>1. itable[i] \in Ent
    BY DEF FsCore, FsType
  <2> QED
    BY <2>1 DEF Ent
<1>5. Uses(s, r, i) >= 1
  <2>1. Uses(s, r, i) >= Refs(s[1], i) + Eq(r, i)
    BY <1>2, FirstWeight
  <2>2. Eq(r, i) \in Nat /\ Uses(s, r, i) \in Nat
    BY EqNat, UsesNat
  <2> QED
    BY <1>3, <2>1, <2>2
<1>6. Obliged(todo[q], ret[q], i) = 1
  BY <1>4 DEF FsCore, LocksHeld
<1>7. q # p => Uses(todo[q], ret[q], i) >= 1
  <2>1. PICK t, u : t = todo[q] /\ u = ret[q]
    OBVIOUS
  <2>2. t \in Seq(FsStep) /\ Shape(t) /\ Paired(t)
    BY <2>1 DEF FsCore, FsType, Shapes, BlocksCore
  <2>3. Obliged(t, u, i) >= 1
    BY <1>6, <2>1
  <2> QED
    BY <2>1, <2>2, <2>3, LocksUse
<1>8. q = p => Uses(s, r, i) >= 2
  <2>1. SUFFICES ASSUME q = p PROVE Uses(s, r, i) >= 2
    OBVIOUS
  <2>2. PICK t : t = Tail(s)
    OBVIOUS
  <2>3. /\ t \in Seq(FsStep) /\ Len(t) = Len(s) - 1 /\ \A n \in 1 .. Len(t) : t[n] = s[n + 1]
    BY <1>2, <2>2, TailIs
  <2>4. Shape(t) /\ (r # 0 => RetLocked(s) /\ RetLocked(t))
    <3>1. s[1][1] \in Putting
      BY <1>2 DEF Putting
    <3> QED
      BY <1>2, <2>3, <3>1, ShapeTail
  <2>5. Paired(t)
    <3>1. ASSUME NEW n \in 1 .. Len(t) - 1, t[n][1] = "unlock" PROVE t[n + 1][2] = t[n][2]
      <4>1. PICK m : m = n + 1
        OBVIOUS
      <4>2. n \in 1 .. Len(t) /\ m \in 1 .. Len(t) /\ m \in 1 .. Len(s) - 1
        BY <1>2, <2>3, <4>1
      <4>3. t[n] = s[m] /\ t[m] = s[m + 1]
        BY <2>3, <4>1, <4>2
      <4>4. s[m + 1][2] = s[m][2]
        BY <1>2, <3>1, <4>2, <4>3 DEF Paired
      <4> QED
        BY <4>1, <4>3, <4>4
    <3> QED
      BY <3>1 DEF Paired
  <2>6. /\ TodoRefs(t, i) = TodoRefs(s, i) - 1
        /\ TodoLocks(t, i) = TodoLocks(s, i)
    <3>1. /\ TodoRefs(t, i) = TodoRefs(s, i) - Refs(s[1], i)
          /\ TodoLocks(t, i) = TodoLocks(s, i) - Locks(s[1], i)
      BY <1>2, <2>3, Sum0
    <3>2. TodoRefs(s, i) \in Nat /\ TodoLocks(s, i) \in Nat
      BY UsesNat
    <3> QED
      BY <1>3, <3>1, <3>2
  <2>7. RetLock(t, r, i) = RetLock(s, r, i)
    BY <2>4, Sizes DEF RetLock, Inum
  <2>8. Obliged(t, r, i) >= 1
    <3>1. Obliged(s, r, i) = 1
      BY <1>1, <1>6, <2>1
    <3> QED
      BY <2>6, <2>7, <3>1 DEF Obliged
  <2>9. Uses(t, r, i) >= 1
    BY <2>3, <2>4, <2>5, <2>8, LocksUse
  <2>10. TodoRefs(s, i) \in Nat /\ Eq(r, i) \in Nat
    BY UsesNat, EqNat
  <2> QED
    BY <2>6, <2>9, <2>10 DEF Uses
<1> QED
  BY <1>1, <1>5, <1>7, <1>8, TwoUses

LEMMA PutSane ==
  ASSUME FsCore, BlocksCore, NEW p \in Proc, Put(p)
  PROVE  panic' \notin Fault
<1>1. PICK i, k : i = Arg(p, 1) /\ k = "put"
  OBVIOUS
<1>2. At(p, k) /\ k \in Using
  BY <1>1 DEF Put, Using, Putting
<1>3. panic = "no" /\ i \in Inum
  BY <1>1, <1>2, StepUses
<1>4. Sane(State) /\ State \in FsState
  BY <1>3, SaneState DEF Sane
<1>5. LastUse(i) => Unlocked(i)
  <2>1. itable[i].lock # None => itable[i].ref >= 2
    BY <1>1, <1>2, <1>3, LockedTwice
  <2> QED
    BY <2>1 DEF LastUse, Unlocked
<1>6. Become(SetLock(State, i, p)) \/ Become(Drop(State, i))
  BY <1>1, <1>5 DEF Put, SetLock
<1>7. SetLock(State, i, p).panic = State.panic /\ Drop(State, i).panic = State.panic
  BY <1>4 DEF SetLock, Drop, FsState
<1> QED
  BY <1>4, <1>6, <1>7, BecomeIs DEF Sane

LEMMA SysSane ==
  ASSUME FsCore, BlocksCore, NEW p \in Proc,
         SysOpen(p) \/ SysMake(p) \/ SysLink(p) \/ SysUnlink(p) \/ SysChdir(p)
  PROVE  panic' \notin Fault
<1>1. PICK c \in Syscall : \E parent, steps : Begin(p, c.path, parent, steps)
  BY DEF SysOpen, SysMake, SysLink, SysUnlink, SysChdir
<1>2. PICK path, e, g : path = c.path /\ e = Start(p, path) /\ g = Iget(State, e)
  OBVIOUS
<1>3. path \in WPath
  BY <1>2, CallIs
<1>4. e \in Inum
  BY <1>2, <1>3, StartIs
<1>5. Become(g)
  BY <1>1, <1>2 DEF Begin
<1>6. panic = "no"
  BY DEF Idle, SysOpen, SysMake, SysLink, SysUnlink, SysChdir
<1>7. Sane(g)
  BY <1>2, <1>4, <1>6, SaneState, SaneGet
<1> QED
  BY <1>5, <1>7, SaneBecomes

\* The steps and calls that change nothing in fs.c's tables but a reference or a
\* copy.
LEMMA PlainSane ==
  ASSUME FsCore, BlocksCore, NEW p \in Proc,
         \/ Invalidate(p) \/ Unref(p) \/ WalkEnd(p) \/ CreateNoDir(p) \/ NoInode(p) \/ SetCwd(p)
         \/ Close(p)
  PROVE  panic' \notin Fault
<1>1. panic = "no"
  BY DEF At, Idle, Invalidate, Unref, WalkEnd, CreateNoDir, NoInode, SetCwd, Close
<1>2. panic' = panic
  <2>1. State \in FsState /\ State.panic = panic
    BY StateType DEF FsCore
  <2>2. CASE Invalidate(p)
    <3>1. PICK i, g : Become(g) /\ g = [State EXCEPT !.it[i] = Invalid(@)]
      BY <2>2 DEF Invalidate
    <3>2. g.panic = State.panic
      BY <2>1, <3>1 DEF FsState
    <3> QED
      BY <2>1, <3>1, <3>2, BecomeIs
  <2>3. CASE Unref(p)
    <3>1. PICK i, g : Become(g) /\ g = Drop(State, i)
      BY <2>3 DEF Unref
    <3>2. g.panic = State.panic
      BY <2>1, <3>1 DEF Drop, FsState
    <3> QED
      BY <2>1, <3>1, <3>2, BecomeIs
  <2>4. CASE UNCHANGED fsvars
    BY <2>4 DEF fsvars
  <2> QED
    BY <2>2, <2>3, <2>4 DEF WalkEnd, CreateNoDir, NoInode, SetCwd, Close
<1> QED
  BY <1>1, <1>2, OtherPanics

LEMMA FaultStep ==
  ASSUME RefsInv, BlocksInv, panic \notin Fault, [Next]_vars
  PROVE  panic' \notin Fault
<1>1. CASE UNCHANGED vars
  BY <1>1 DEF vars, fsvars
<1>2. CASE Done
  BY <1>2 DEF Done, vars, fsvars
<1>3. ASSUME NEW p \in Proc, Step(p) \/ Call(p)
      PROVE  panic' \notin Fault
  <2>1. panic = "no"
    BY <1>3, Going
  <2>2. FsCore /\ BlocksCore
    BY <2>1 DEF RefsInv, BlocksInv, Stuck
  <2>3. CASE Step(p)
    BY <2>2, <2>3, PutSane, FreeSane, UnlockSane, WalkSane, CreateSane, CreatedSane, IallocSane,
       FillSane, MadeSane, OpenSane, LinkSane, LinkDirSane, LinkBadSane, UnlinkSane,
       UnlinkFileSane, UnlinkDoneSane, ChdirSane, PlainSane DEF Step
  <2>4. CASE Call(p)
    BY <2>2, <2>4, SysSane, ReadSane, WriteSane, PlainSane DEF Call
  <2> QED
    BY <1>3, <2>3, <2>4
<1> QED
  BY <1>1, <1>2, <1>3 DEF Next

\* ilock(), iunlock(), iput(), bfree(): whatever the paths and the calls that
\* run together, no inode is locked without a reference, none is unlocked by
\* another than its holder, iput() of the last reference finds the lock free, and
\* no block is freed twice.
THEOREM NoFault == Spec => [](panic \notin Fault)
<1>1. Init => panic \notin Fault
  BY OtherPanics DEF Init
<1>2. RefsInv /\ BlocksInv /\ panic \notin Fault /\ [Next]_vars => (panic \notin Fault)'
  BY FaultStep
<1> QED
  BY RefsInvariance, BlocksInvariance, <1>1, <1>2, PTL DEF Spec
=============================================================================
