-------------------------------- MODULE Xv6Fs -------------------------------
(***************************************************************************)
(* The inodes, directories and blocks of the xv6 file system (kernel/fs.c) *)
(* and the system calls on them (kernel/sysfile.c, kernel/file.c).         *)
(*                                                                         *)
(* A process that runs a system call has a list of steps still to make,    *)
(* todo, that begins with the next one.  A step is what happens between    *)
(* two moments at which the code may have to wait for an inode's sleep     *)
(* lock, or a critical section under itable.lock.  Blocks and disk inodes  *)
(* are changed under the locks of their buffers, within a step.            *)
(*                                                                         *)
(* The steps of a call from begin_op() to end_op() are one transaction, or *)
(* part of one; that it survives a crash whole or not at all is shown of   *)
(* Xv6Log.  The slot of the inode table an inode has is not told apart.    *)
(***************************************************************************)
EXTENDS Integers, Sequences, FiniteSets, SequencesExt

CONSTANTS Proc,       \* processes, each with a descriptor and a cwd
          Syscall,    \* the calls they make, see Calls below; a path is
                      \* [abs : BOOLEAN, elems : Seq(name)]
          NInodes,    \* the inodes of the disk, 1 is the root
          NINODE,     \* the entries of the inode table
          NBlocks,    \* the data blocks of the disk
          PerBlock,   \* what a block holds: directory entries, pieces of a file
          NDIRECT, NINDIRECT,
          Disk,       \* the disks a behaviour may begin with: [di, used]
          MaxCalls,   \* the calls of a behaviour
          None

ASSUME SizeAssumption ==
  /\ NInodes \in Nat \ {0} /\ NINODE \in Nat \ {0}
  /\ NBlocks \in Nat \ {0} /\ PerBlock \in Nat \ {0, 1}
  /\ NDIRECT \in Nat \ {0} /\ NINDIRECT \in Nat
  /\ MaxCalls \in Nat
  /\ IsFiniteSet(Proc) /\ None \notin Proc
  /\ None \notin [ip : Nat, off : Nat, writable : BOOLEAN]

Path == [abs : BOOLEAN, elems : Seq(STRING)]
Mode == [write : BOOLEAN, create : BOOLEAN, trunc : BOOLEAN]

ASSUME SyscallAssumption ==
  \A c \in Syscall :
    /\ c.op \in {"open", "make", "link", "unlink", "chdir"} /\ c.path \in Path
    /\ c.op = "open" => c.mode \in Mode
    /\ c.op = "make" => c.type \in {"T_DIR", "T_DEVICE"}
    /\ c.op = "link" => c.new \in Path

VARIABLES
  itable,    \* itable[i]: the entry of inode i: ref, valid, lock and a copy
  dinode,    \* the inodes on the disk
  bitmap,    \* the blocks in use
  file,      \* file[p]: the open file of p
  cwd,       \* cwd[p]
  todo,      \* todo[p]: the steps p's call has left to make
  ret,       \* ret[p]: the inode that namex() or create() has returned, or 0
  panic,     \* what the kernel has panicked with
  calls      \* calls so far, for the bound

fsvars == <<itable, dinode, bitmap, panic>>
vars == <<fsvars, file, cwd, todo, ret, calls>>

----------------------------------------------------------------------------
Inum == 1 .. NInodes
Root == 1
MaxLen == (NDIRECT + NINDIRECT) * PerBlock

\* A dirent is <<name, inum>>, a zeroed one is free; a piece of a file is Chunk.
FreeEntry == <<"", 0>>
Chunk == <<"chunk", 0>>

\* struct dinode, and the block numbers in its indirect block.
FreeInode == [type |-> "none", nlink |-> 0, data |-> <<>>,
              addrs |-> <<>>, ind |-> 0, a |-> <<>>]

Blocks(ino) == ToSet(ino.addrs) \union ToSet(ino.a) \union ({ino.ind} \ {0})

\* A directory as create() and mkfs make it, with a first block b.
NewDir(i, parent, b) ==
  [FreeInode EXCEPT !.type = "T_DIR", !.nlink = 1, !.addrs = <<b>>,
                    !.data = <<<<".", i>>, <<"..", parent>>>>]

Inode == [type : {"none", "T_DIR", "T_FILE", "T_DEVICE"}, nlink : Nat,
          data : Seq(STRING \X (0 .. NInodes)), addrs : Seq(1 .. NBlocks),
          ind : 0 .. NBlocks, a : Seq(1 .. NBlocks)]

\* mkfs: a block in use belongs to one inode, and a free inode has none.
ASSUME DiskAssumption ==
  \A disk \in Disk :
    /\ disk.di \in [Inum -> Inode] /\ disk.used \subseteq 1 .. NBlocks
    /\ disk.used = UNION {Blocks(disk.di[i]) : i \in Inum}
    /\ \A i, j \in Inum : i # j => Blocks(disk.di[i]) \intersect Blocks(disk.di[j]) = {}
    /\ \A i \in Inum : disk.di[i].type = "none" => Blocks(disk.di[i]) = {}

Kinds == {"walk", "create", "created", "ialloc", "fill", "put", "free", "invalid",
          "drop", "unlock", "open", "made", "link", "linkdir", "linkbad", "unlink",
          "unlinkfile", "unlinked", "chdir", "setcwd"}

TypeOK ==
  /\ itable \in [Inum -> [ref : Nat, valid : BOOLEAN,
                          lock : Proc \union {None}, ino : Inode]]
  /\ dinode \in [Inum -> Inode]
  /\ \A i \in Inum : Len(dinode[i].data) <= MaxLen
  /\ bitmap \subseteq 1 .. NBlocks
  /\ file \in [Proc -> [ip : Inum, off : 0 .. MaxLen, writable : BOOLEAN]
                       \union {None}]
  /\ cwd \in [Proc -> Inum]
  /\ \A p \in Proc : \A n \in DOMAIN todo[p] : todo[p][n][1] \in Kinds
  /\ ret \in [Proc -> 0 .. NInodes]
  /\ panic \in STRING
  /\ calls \in 0 .. MaxCalls

\* One of the disks, and every process in some directory of it.
Init ==
  /\ \E disk \in Disk : dinode = disk.di /\ bitmap = disk.used
  /\ cwd \in [Proc -> {i \in Inum : dinode[i].type = "T_DIR"}]
  /\ itable = [i \in Inum |-> [ref |-> Cardinality({p \in Proc : cwd[p] = i}),
                               valid |-> FALSE, lock |-> None, ino |-> FreeInode]]
  /\ file = [p \in Proc |-> None]
  /\ todo = [p \in Proc |-> <<>>] /\ ret = [p \in Proc |-> 0]
  /\ panic = "no" /\ calls = 0

----------------------------------------------------------------------------
(***************************************************************************)
(* The functions of fs.c, from a state f of the file system to the next.   *)
(***************************************************************************)
State == [it |-> itable, di |-> dinode, used |-> bitmap, panic |-> panic]

Become(f) == /\ itable' = f.it /\ dinode' = f.di
             /\ bitmap' = f.used /\ panic' = f.panic

Panic(f, msg) == IF f.panic = "no" THEN [f EXCEPT !.panic = msg] ELSE f

InTable(f) == {i \in Inum : f.it[i].ref > 0}

\* iget(), and idup() of an inode that is in the table.
Iget(f, i) ==
  IF i \in InTable(f) THEN [f EXCEPT !.it[i].ref = @ + 1]
  ELSE IF Cardinality(InTable(f)) >= NINODE THEN Panic(f, "iget: no inodes")
  ELSE [f EXCEPT !.it[i].ref = 1, !.it[i].valid = FALSE]

Drop(f, i) == [f EXCEPT !.it[i].ref = @ - 1]

\* ilock() of an inode whose lock is free.
Ilock(f, p, i) ==
  LET e == f.it[i]
      ino == IF e.valid THEN e.ino ELSE f.di[i]
      g == [f EXCEPT !.it[i].lock = p, !.it[i].valid = TRUE, !.it[i].ino = ino]
  IN  IF e.ref < 1 THEN Panic(f, "ilock")
      ELSE IF ~e.valid /\ ino.type = "none" THEN Panic(g, "ilock: no type")
      ELSE g

Iunlock(f, p, i) ==
  IF f.it[i].ref < 1 \/ f.it[i].lock # p THEN Panic(f, "iunlock")
  ELSE [f EXCEPT !.it[i].lock = None]

\* An assignment to fields of the inode, and iupdate().
Update(f, i, ino) == [f EXCEPT !.it[i].ino = ino, !.di[i] = ino]

AddLinks(f, i, n) == Update(f, i, [f.it[i].ino EXCEPT !.nlink = @ + n])

\* balloc(): the first free block, 0 if there is none.
Balloc(f) ==
  LET free == (1 .. NBlocks) \ f.used IN
  IF free = {} THEN 0 ELSE CHOOSE b \in free : \A c \in free : b <= c

\* bfree() of a set of blocks.
Bfree(f, bs) ==
  IF bs \subseteq f.used THEN [f EXCEPT !.used = @ \ bs]
  ELSE Panic(f, "freeing free block")

\* A block from balloc() that is entered in the inode at once.
Alloc(f, i, ino) ==
  [f EXCEPT !.used = @ \union {Balloc(f)}, !.it[i].ino = ino]

\* bmap(): the state with block bn of inode i, as far as the disk had room.
BmapIndirect(f, i, bn) ==
  LET ino == f.it[i].ino IN
  IF Balloc(f) = 0 \/ bn < Len(ino.a) THEN f
  ELSE Alloc(f, i, [ino EXCEPT !.a = Append(@, Balloc(f))])

Bmap(f, i, bn) ==
  LET ino == f.it[i].ino IN
  IF bn < NDIRECT
  THEN IF Balloc(f) = 0 \/ bn < Len(ino.addrs) THEN f
       ELSE Alloc(f, i, [ino EXCEPT !.addrs = Append(@, Balloc(f))])
  ELSE IF ino.ind # 0 THEN BmapIndirect(f, i, bn - NDIRECT)
  ELSE IF Balloc(f) = 0 THEN f
  ELSE BmapIndirect(Alloc(f, i, [ino EXCEPT !.ind = Balloc(f)]), i, bn - NDIRECT)

Mapped(ino, bn) ==
  IF bn < NDIRECT THEN bn < Len(ino.addrs) ELSE bn - NDIRECT < Len(ino.a)

\* itrunc()
Itrunc_KeepIndirect(f, i) ==
  LET ino == f.it[i].ino IN
  Update(Bfree(f, Blocks(ino) \ {ino.ind}), i,
         [ino EXCEPT !.data = <<>>, !.addrs = <<>>, !.ind = 0, !.a = <<>>])
Itrunc(f, i) ==
  LET ino == f.it[i].ino IN
  Update(Bfree(f, Blocks(ino)), i,
         [ino EXCEPT !.data = <<>>, !.addrs = <<>>, !.ind = 0, !.a = <<>>])

\* writei() of one entry or piece at off, which copyin() may refuse: whether it
\* was written, and the state.
Writei(f, i, off, v, copied) ==
  LET ino == f.it[i].ino
      bn == off \div PerBlock
      g == Bmap(f, i, bn)
      new == g.it[i].ino
      data == IF off < Len(ino.data) THEN [ino.data EXCEPT ![off + 1] = v]
              ELSE Append(ino.data, v)
  IN  IF off > Len(ino.data) \/ off + 1 > MaxLen THEN <<FALSE, f>>
      ELSE IF Mapped(new, bn) /\ copied
      THEN <<TRUE, Update(g, i, [new EXCEPT !.data = data])>>
      ELSE <<FALSE, Update(g, i, new)>>

\* dirlookup(): the position of the entry, 0 if there is none.
Dirlookup(f, d, name) ==
  SelectInSeq(f.it[d].ino.data, LAMBDA de : de[2] # 0 /\ de[1] = name)

\* The inode of the entry at position k, after iget().
Entry(f, d, k) == f.it[d].ino.data[k][2]

\* dirlink().  iget() and iput() of an entry that is there already cancel out:
\* it has links, and the directory is locked.
Dirlink(f, d, name, i) ==
  LET data == f.it[d].ino.data
      k == SelectInSeq(data, LAMBDA de : de[2] = 0)
  IN  IF Dirlookup(f, d, name) # 0 THEN <<FALSE, f>>
      ELSE Writei(f, d, IF k = 0 THEN Len(data) ELSE k - 1, <<name, i>>, TRUE)

\* isdirempty()
Isdirempty(ino) == \A k \in 3 .. Len(ino.data) : ino.data[k][2] = 0

----------------------------------------------------------------------------
(***************************************************************************)
(* Steps                                                                   *)
(***************************************************************************)
At(p, kind) == panic = "no" /\ todo[p] # <<>> /\ todo[p][1][1] = kind
Arg(p, n) == todo[p][1][n + 1]

\* p makes these steps before the others it has left, and returns r.
Go(p, steps, r) ==
  /\ todo' = [todo EXCEPT ![p] = steps \o Tail(@)]
  /\ ret' = [ret EXCEPT ![p] = r]

Unlocked(i) == itable[i].lock = None

\* iput(): is this the last use of an inode without links?
LastUse(i) == /\ itable[i].ref = 1 /\ itable[i].valid
              /\ itable[i].ino.nlink = 0

\* iput(): "this acquiresleep() won't block".
Put(p) ==
  /\ At(p, "put")
  /\ LET i == Arg(p, 1) IN
     IF LastUse(i)
     THEN /\ IF Unlocked(i) THEN Become([State EXCEPT !.it[i].lock = p])
             ELSE Become(Panic(State, "sched locks"))
          /\ Go(p, <<<<"free", i>>>>, ret[p])
     ELSE Become(Drop(State, i)) /\ Go(p, <<>>, ret[p])
  /\ UNCHANGED <<file, cwd, calls>>

\* iput(): itrunc(), type = 0, iupdate(); ialloc() may find the inode from now on.
Free(p) ==
  /\ At(p, "free")
  /\ LET i == Arg(p, 1)
         f == Itrunc(State, i)
     IN  /\ Become(Update(f, i, [f.it[i].ino EXCEPT !.type = "none"]))
         /\ Go(p, <<<<"invalid", i>>>>, ret[p])
  /\ UNCHANGED <<file, cwd, calls>>

\* iput(): valid = 0.
Invalid_Kept(e) == [e EXCEPT !.lock = None]
Invalid(e) == [e EXCEPT !.valid = FALSE, !.lock = None]

Invalidate(p) ==
  /\ At(p, "invalid")
  /\ LET i == Arg(p, 1) IN
       /\ Become([State EXCEPT !.it[i] = Invalid(@)])
       /\ Go(p, <<<<"drop", i>>>>, ret[p])
  /\ UNCHANGED <<file, cwd, calls>>

Unref(p) ==
  /\ At(p, "drop")
  /\ Become(Drop(State, Arg(p, 1)))
  /\ Go(p, <<>>, ret[p])
  /\ UNCHANGED <<file, cwd, calls>>

Unlock(p) ==
  /\ At(p, "unlock")
  /\ Become(Iunlock(State, p, Arg(p, 1)))
  /\ Go(p, <<>>, ret[p])
  /\ UNCHANGED <<file, cwd, calls>>

----------------------------------------------------------------------------
\* namex(): where a path begins, and the steps that follow it.
Start(p, path) == IF path.abs THEN Root ELSE cwd[p]
Namex(p, path, parent) == <<<<"walk", Start(p, path), path.elems, parent>>>>
LastElem(path) == IF path.elems = <<>> THEN "" ELSE Last(path.elems)

\* namex(): the path has ended.
WalkEnd(p) ==
  /\ At(p, "walk") /\ Arg(p, 2) = <<>>
  /\ IF Arg(p, 3) THEN Go(p, <<<<"put", Arg(p, 1)>>>>, 0)
     ELSE Go(p, <<>>, Arg(p, 1))
  /\ UNCHANGED <<fsvars, file, cwd, calls>>

\* namex(): one element.  The next inode is found and referenced while the
\* directory is locked, and locked only after the directory was unlocked.
Walk(p) ==
  /\ At(p, "walk") /\ Arg(p, 2) # <<>> /\ Unlocked(Arg(p, 1))
  /\ LET i == Arg(p, 1)
         elems == Arg(p, 2)
         f == Ilock(State, p, i)
         dir == f.it[i].ino.type = "T_DIR"
         k == Dirlookup(f, i, Head(elems))
     IN  IF dir /\ Arg(p, 3) /\ Len(elems) = 1
         THEN Become(Iunlock(f, p, i)) /\ Go(p, <<>>, i)
         ELSE IF ~dir \/ k = 0
         THEN Become(Iunlock(f, p, i)) /\ Go(p, <<<<"put", i>>>>, 0)
         ELSE /\ Become(Iunlock(Iget(f, Entry(f, i, k)), p, i))
              /\ Go(p, <<<<"put", i>>,
                         <<"walk", Entry(f, i, k), Tail(elems), Arg(p, 3)>>>>, 0)
  /\ UNCHANGED <<file, cwd, calls>>

----------------------------------------------------------------------------
\* create(): nameiparent() has failed.
CreateNoDir(p) ==
  /\ At(p, "create") /\ ret[p] = 0
  /\ Go(p, <<>>, 0)
  /\ UNCHANGED <<fsvars, file, cwd, calls>>

\* dirlookup()'s test of the type.
AsDir(f, d) ==
  IF f.it[d].ino.type = "T_DIR" THEN f ELSE Panic(f, "dirlookup not DIR")

\* create(): look for the name; a new inode is made with the directory locked.
Create(p) ==
  /\ At(p, "create") /\ ret[p] # 0 /\ Unlocked(ret[p])
  /\ LET d == ret[p]
         f == AsDir(Ilock(State, p, d), d)
         k == Dirlookup(f, d, Arg(p, 1))
         i == Entry(f, d, k)
     IN  IF k # 0
         THEN /\ Become(Iunlock(Iget(f, i), p, d))
              /\ Go(p, <<<<"put", d>>, <<"created", i, Arg(p, 2)>>>>, 0)
         ELSE Become(f) /\ Go(p, <<<<"ialloc", d, Arg(p, 1), Arg(p, 2)>>>>, 0)
  /\ UNCHANGED <<file, cwd, calls>>

\* create(): the name exists; O_CREATE takes a file or a device as it is, and
\* keeps it locked.
Created(p) ==
  /\ At(p, "created") /\ Unlocked(Arg(p, 1))
  /\ LET i == Arg(p, 1)
         f == Ilock(State, p, i)
     IN  IF Arg(p, 2) = "T_FILE" /\ f.it[i].ino.type \in {"T_FILE", "T_DEVICE"}
         THEN Become(f) /\ Go(p, <<>>, i)
         ELSE Become(Iunlock(f, p, i)) /\ Go(p, <<<<"put", i>>>>, 0)
  /\ UNCHANGED <<file, cwd, calls>>

\* ialloc(): the first inode that is free on the disk, and its iget().
Ialloc(p) ==
  /\ At(p, "ialloc")
  /\ LET d == Arg(p, 1)
         free == {i \in Inum : dinode[i].type = "none"}
         i == CHOOSE j \in free : \A k \in free : j <= k
     IN  IF free = {}
         THEN Go(p, <<<<"unlock", d>>, <<"put", d>>>>, 0) /\ Become(State)
         ELSE /\ Become(Iget([State EXCEPT !.di[i] =
                                [FreeInode EXCEPT !.type = Arg(p, 3)]], i))
              /\ Go(p, <<<<"fill", d, Arg(p, 2), Arg(p, 3), i>>>>, 0)
  /\ UNCHANGED <<file, cwd, calls>>

\* create(): the entries of a new directory.
Dots_Itself(f, d, i) ==
  LET dot == Dirlink(f, i, ".", i) IN
  IF dot[1] THEN Dirlink(dot[2], i, "..", i) ELSE dot
Dots(f, d, i) ==
  LET dot == Dirlink(f, i, ".", i) IN
  IF dot[1] THEN Dirlink(dot[2], i, "..", d) ELSE dot

\* create(): enter the new inode, which is returned locked, or take it back.
Fill(p) ==
  /\ At(p, "fill") /\ Unlocked(Arg(p, 4))
  /\ LET d == Arg(p, 1)
         i == Arg(p, 4)
         dir == Arg(p, 3) = "T_DIR"
         f == Ilock(State, p, i)
         f1 == Update(f, i, [f.it[i].ino EXCEPT !.nlink = 1])
         r1 == IF dir THEN Dots(f1, d, i) ELSE <<TRUE, f1>>
         r2 == IF r1[1] THEN Dirlink(r1[2], d, Arg(p, 2), i) ELSE r1
         f2 == IF dir THEN AddLinks(r2[2], d, 1) ELSE r2[2]
         bad == Update(r2[2], i, [r2[2].it[i].ino EXCEPT !.nlink = 0])
     IN  IF r2[1]
         THEN Become(Iunlock(f2, p, d)) /\ Go(p, <<<<"put", d>>>>, i)
         ELSE /\ Become(Iunlock(bad, p, i))
              /\ Go(p, <<<<"put", i>>, <<"unlock", d>>, <<"put", d>>>>, 0)
  /\ UNCHANGED <<file, cwd, calls>>

----------------------------------------------------------------------------
\* sys_mkdir() and sys_mknod(): iunlockput() of what create() has returned.
Made_NoPut(p) ==
  /\ At(p, "made")
  /\ IF ret[p] = 0 THEN Become(State) ELSE Become(Iunlock(State, p, ret[p]))
  /\ Go(p, <<>>, 0)
  /\ UNCHANGED <<file, cwd, calls>>
Made(p) ==
  /\ At(p, "made")
  /\ IF ret[p] = 0 THEN Become(State) /\ Go(p, <<>>, 0)
     ELSE Become(Iunlock(State, p, ret[p])) /\ Go(p, <<<<"put", ret[p]>>>>, 0)
  /\ UNCHANGED <<file, cwd, calls>>

\* sys_open(): may the inode be opened in this way?
MayOpen(ino, mode) == mode.create \/ ino.type # "T_DIR" \/ ~(mode.write \/ mode.trunc)

\* sys_open(), after create() or namei(): filealloc() and fdalloc() may fail, a
\* device may have no driver.
Open(p) ==
  /\ At(p, "open") /\ ret[p] # 0
  /\ LET i == ret[p]
         mode == Arg(p, 1)
         f == IF mode.create THEN State ELSE Ilock(State, p, i)
         g == IF mode.trunc /\ f.it[i].ino.type = "T_FILE" THEN Itrunc(f, i) ELSE f
     IN  /\ mode.create \/ Unlocked(i)
         /\ \/ /\ MayOpen(f.it[i].ino, mode) /\ file[p] = None
               /\ file' = [file EXCEPT ![p] = [ip |-> i, off |-> 0,
                                               writable |-> mode.write]]
               /\ Become(Iunlock(g, p, i)) /\ Go(p, <<>>, 0)
            \/ /\ Become(Iunlock(f, p, i)) /\ Go(p, <<<<"put", i>>>>, 0)
               /\ UNCHANGED file
  /\ UNCHANGED <<cwd, calls>>

\* sys_open(), sys_link(), sys_unlink(), sys_chdir(): the path names nothing.
NoInode(p) ==
  /\ \E kind \in {"open", "link", "unlink", "chdir"} : At(p, kind)
  /\ ret[p] = 0
  /\ Go(p, <<>>, 0)
  /\ UNCHANGED <<fsvars, file, cwd, calls>>

----------------------------------------------------------------------------
\* sys_link(): count the link before it is made, then look for the directory.
Link(p) ==
  /\ At(p, "link") /\ ret[p] # 0 /\ Unlocked(ret[p])
  /\ LET i == ret[p]
         new == Arg(p, 1)
         f == Ilock(State, p, i)
     IN  IF f.it[i].ino.type = "T_DIR"
         THEN Become(Iunlock(f, p, i)) /\ Go(p, <<<<"put", i>>>>, 0)
         ELSE /\ Become(Iget(Iunlock(AddLinks(f, i, 1), p, i), Start(p, new)))
              /\ Go(p, Append(Namex(p, new, TRUE), <<"linkdir", i, LastElem(new)>>), 0)
  /\ UNCHANGED <<file, cwd, calls>>

\* sys_link(): dirlink(), or go to bad.
LinkDir(p) ==
  /\ At(p, "linkdir")
  /\ LET i == Arg(p, 1)
         d == ret[p]
         f == AsDir(Ilock(State, p, d), d)
         r == Dirlink(f, d, Arg(p, 2), i)
     IN  \/ d = 0 /\ Become(State) /\ Go(p, <<<<"linkbad", i>>>>, 0)
         \/ /\ d # 0 /\ Unlocked(d)
            /\ Become(Iunlock(r[2], p, d))
            /\ Go(p, <<<<"put", d>>, IF r[1] THEN <<"put", i>> ELSE <<"linkbad", i>>>>, 0)
  /\ UNCHANGED <<file, cwd, calls>>

\* sys_link(), bad: the link that was not made does not count.
Unlinked == -1

LinkBad(p) ==
  /\ At(p, "linkbad") /\ Unlocked(Arg(p, 1))
  /\ LET i == Arg(p, 1)
         f == AddLinks(Ilock(State, p, i), i, Unlinked)
     IN  Become(Iunlock(f, p, i)) /\ Go(p, <<<<"put", i>>>>, 0)
  /\ UNCHANGED <<file, cwd, calls>>

----------------------------------------------------------------------------
\* sys_unlink(): find the entry; the directory stays locked.
Unlink(p) ==
  /\ At(p, "unlink") /\ ret[p] # 0 /\ Unlocked(ret[p])
  /\ LET d == ret[p]
         f == AsDir(Ilock(State, p, d), d)
         k == Dirlookup(f, d, Arg(p, 1))
         i == Entry(f, d, k)
     IN  IF Arg(p, 1) \in {".", ".."} \/ k = 0
         THEN Become(Iunlock(f, p, d)) /\ Go(p, <<<<"put", d>>>>, 0)
         ELSE Become(Iget(f, i)) /\ Go(p, <<<<"unlinkfile", d, i, k>>>>, 0)
  /\ UNCHANGED <<file, cwd, calls>>

\* sys_unlink(): may the entry go?
MayUnlink(ino) == ino.type # "T_DIR" \/ Isdirempty(ino)

\* sys_unlink(): erase the entry, and the directory's link to its parent; the
\* calls that panic do not return.
UnlinkFile(p) ==
  /\ At(p, "unlinkfile") /\ Unlocked(Arg(p, 2))
  /\ LET d == Arg(p, 1)
         i == Arg(p, 2)
         f == Ilock(State, p, i)
         ino == f.it[i].ino
         r == Writei(f, d, Arg(p, 3) - 1, FreeEntry, TRUE)
         g == IF ino.type = "T_DIR" THEN AddLinks(r[2], d, -1) ELSE r[2]
     IN  IF ino.nlink < 1
         THEN Become(Panic(f, "unlink: nlink < 1")) /\ UNCHANGED <<todo, ret>>
         ELSE IF ~MayUnlink(ino)
         THEN /\ Become(Iunlock(f, p, i))
              /\ Go(p, <<<<"put", i>>, <<"unlock", d>>, <<"put", d>>>>, 0)
         ELSE IF ~r[1]
         THEN Become(Panic(f, "unlink: writei")) /\ UNCHANGED <<todo, ret>>
         ELSE Become(Iunlock(g, p, d)) /\ Go(p, <<<<"put", d>>, <<"unlinked", i>>>>, 0)
  /\ UNCHANGED <<file, cwd, calls>>

\* sys_unlink(): nlink--, iupdate(), iunlockput().
UnlinkDone(p) ==
  /\ At(p, "unlinked")
  /\ LET i == Arg(p, 1) IN
       /\ Become(Iunlock(AddLinks(State, i, -1), p, i))
       /\ Go(p, <<<<"put", i>>>>, 0)
  /\ UNCHANGED <<file, cwd, calls>>

----------------------------------------------------------------------------
\* sys_chdir(): give the old directory back and then take the new one.
Chdir(p) ==
  /\ At(p, "chdir") /\ ret[p] # 0 /\ Unlocked(ret[p])
  /\ LET i == ret[p]
         f == Ilock(State, p, i)
     IN  /\ Become(Iunlock(f, p, i))
         /\ IF f.it[i].ino.type # "T_DIR" THEN Go(p, <<<<"put", i>>>>, 0)
            ELSE Go(p, <<<<"put", cwd[p]>>, <<"setcwd", i>>>>, 0)
  /\ UNCHANGED <<file, cwd, calls>>

SetCwd(p) ==
  /\ At(p, "setcwd")
  /\ cwd' = [cwd EXCEPT ![p] = Arg(p, 1)]
  /\ Go(p, <<>>, 0)
  /\ UNCHANGED <<fsvars, file, calls>>

----------------------------------------------------------------------------
(***************************************************************************)
(* Calls                                                                   *)
(***************************************************************************)
Idle(p) == panic = "no" /\ todo[p] = <<>> /\ calls < MaxCalls

\* begin_op(), and the first reference of namex().
Begin(p, path, parent, steps) ==
  /\ Become(Iget(State, Start(p, path)))
  /\ todo' = [todo EXCEPT ![p] = Namex(p, path, parent) \o steps]
  /\ calls' = calls + 1
  /\ UNCHANGED <<file, cwd, ret>>

\* sys_open(): create() or namei().
SysOpen(p) ==
  /\ Idle(p)
  /\ \E c \in Syscall :
       /\ c.op = "open"
       /\ Begin(p, c.path, c.mode.create,
                (IF c.mode.create THEN <<<<"create", LastElem(c.path), "T_FILE">>>>
                 ELSE <<>>) \o <<<<"open", c.mode>>>>)

\* sys_mkdir() and sys_mknod()
SysMake(p) ==
  /\ Idle(p)
  /\ \E c \in Syscall :
       /\ c.op = "make"
       /\ Begin(p, c.path, TRUE, <<<<"create", LastElem(c.path), c.type>>, <<"made">>>>)

SysLink(p) ==
  /\ Idle(p)
  /\ \E c \in Syscall : c.op = "link" /\ Begin(p, c.path, FALSE, <<<<"link", c.new>>>>)

SysUnlink(p) ==
  /\ Idle(p)
  /\ \E c \in Syscall :
       c.op = "unlink" /\ Begin(p, c.path, TRUE, <<<<"unlink", LastElem(c.path)>>>>)

SysChdir(p) ==
  /\ Idle(p)
  /\ \E c \in Syscall : c.op = "chdir" /\ Begin(p, c.path, FALSE, <<<<"chdir">>>>)

\* sys_close() and fileclose() of the only reference to the file.
Close(p) ==
  /\ Idle(p) /\ file[p] # None
  /\ file' = [file EXCEPT ![p] = None]
  /\ todo' = [todo EXCEPT ![p] = <<<<"put", file[p].ip>>>>]
  /\ calls' = calls + 1
  /\ UNCHANGED <<fsvars, cwd, ret>>

\* fileread(): a piece, if there is one at off.
Read(p) ==
  /\ Idle(p) /\ file[p] # None /\ Unlocked(file[p].ip)
  /\ LET i == file[p].ip
         f == Ilock(State, p, i)
     IN  /\ file[p].off < Len(f.it[i].ino.data)
         /\ Become(Iunlock(f, p, i))
  /\ file' = [file EXCEPT ![p].off = @ + 1]
  /\ calls' = calls + 1
  /\ UNCHANGED <<cwd, todo, ret>>

\* filewrite() of one piece, which the disk may have no room for and copyin()
\* may refuse.
Write(p) ==
  /\ Idle(p) /\ file[p] # None /\ Unlocked(file[p].ip)
  /\ file[p].writable /\ itable[file[p].ip].ino.type # "T_DEVICE"
  /\ \E copied \in BOOLEAN :
       LET i == file[p].ip
           r == Writei(Ilock(State, p, i), i, file[p].off, Chunk, copied)
       IN  /\ Become(Iunlock(r[2], p, i))
           /\ file' = IF r[1] THEN [file EXCEPT ![p].off = @ + 1] ELSE file
  /\ calls' = calls + 1
  /\ UNCHANGED <<cwd, todo, ret>>

\* A step of a call in progress.
Step(p) ==
  \/ Put(p) \/ Free(p) \/ Invalidate(p) \/ Unref(p) \/ Unlock(p)
  \/ WalkEnd(p) \/ Walk(p)
  \/ CreateNoDir(p) \/ Create(p) \/ Created(p) \/ Ialloc(p) \/ Fill(p) \/ Made(p)
  \/ Open(p) \/ NoInode(p)
  \/ Link(p) \/ LinkDir(p) \/ LinkBad(p)
  \/ Unlink(p) \/ UnlinkFile(p) \/ UnlinkDone(p)
  \/ Chdir(p) \/ SetCwd(p)

Call(p) ==
  \/ SysOpen(p) \/ SysMake(p) \/ SysLink(p) \/ SysUnlink(p) \/ SysChdir(p)
  \/ Close(p) \/ Read(p) \/ Write(p)

\* The bound is reached and every call has returned.
Done == calls = MaxCalls /\ (\A p \in Proc : todo[p] = <<>>) /\ UNCHANGED vars

Next == Done \/ \E p \in Proc : Step(p) \/ Call(p)

Spec == Init /\ [][Next]_vars

----------------------------------------------------------------------------
(***************************************************************************)
(* Properties                                                              *)
(***************************************************************************)
\* The panics of fs.c and sysfile.c are assertions, none fails: no inode is
\* locked that has been freed (ilock), iput() never sleeps with itable.lock held,
\* no block is freed twice, no name is left of an inode without links (unlink);
\* and everything keeps its type.  That is so only as long as no path has a "..":
\* a directory that is removed while it is in use goes on naming its parent, which
\* may be freed, and chdir("..") from it then panics in ilock().  No path of the
\* instance has one.
NoPanic == TypeOK /\ panic = "no"

Quiescent == \A p \in Proc : todo[p] = <<>>

\* iget()/iput(): "ip->ref tracks the number of in-memory pointers to the entry
\* (open files and current directories)", whichever way the calls have gone
\* wrong; and they leave no inode locked.
RefsExact ==
  Quiescent => \A i \in Inum :
    /\ itable[i].lock = None
    /\ itable[i].ref = Cardinality({p \in Proc : cwd[p] = i})
                       + Cardinality({p \in Proc : file[p] # None /\ file[p].ip = i})

Allocated == {i \in Inum : dinode[i].type # "none"}
Dirs == {i \in Allocated : dinode[i].type = "T_DIR"}

\* balloc()/bfree()/bmap()/itrunc(): a block in use belongs to one inode, and no
\* block is lost when a call fails half way.
BlocksExact ==
  Quiescent =>
    /\ bitmap = UNION {Blocks(dinode[i]) : i \in Allocated}
    /\ \A i, j \in Allocated :
         i # j => Blocks(dinode[i]) \intersect Blocks(dinode[j]) = {}

\* The entries in use, as <<directory, position>>, and what is in them.
NameIn(e) == dinode[e[1]].data[e[2]][1]
InodeIn(e) == dinode[e[1]].data[e[2]][2]
Entries == {e \in Dirs \X (1 .. MaxLen) :
              e[2] <= Len(dinode[e[1]].data) /\ InodeIn(e) # 0}

\* The entries that give an inode a name, and those that count as links: ".."
\* does while its directory has a name.
Names == {e \in Entries : NameIn(e) \notin {".", ".."}}
Links == Names \union {e \in Entries : NameIn(e) = ".." /\
                          (e[1] = Root \/ \E n \in Names : InodeIn(n) = e[1])}

LinksTo(i) == {e \in Links : InodeIn(e) = i}

\* sys_link()/sys_unlink()/create(): an inode is never counted fewer links than
\* it has, so that iput() frees nothing that a directory still names.
LinksCounted == \A i \in Inum : Cardinality(LinksTo(i)) <= dinode[i].nlink

\* create()/dirlink()/sys_unlink(): names are unique in their directory, a
\* directory is named in at most one place, by its "..", and no inode has more
\* names than it counts.
TreeIntact ==
  /\ LinksCounted
  /\ \A e, g \in Entries : e[1] = g[1] /\ NameIn(e) = NameIn(g) => e = g
  /\ \A e \in Names : InodeIn(e) \in Dirs => dinode[InodeIn(e)].data[2] = <<"..", e[1]>>

\* iput(): an inode without links is there only while somebody uses it.
OrphansHeld ==
  Quiescent => \A i \in Allocated : dinode[i].nlink = 0 => itable[i].ref > 0
=============================================================================
