-------------------------------- MODULE Xv6Vm -------------------------------
(***************************************************************************)
(* The memory of xv6: the page allocator (kernel/kalloc.c), page tables    *)
(* (kernel/vm.c) and the calls that build, grow, copy, replace and free    *)
(* the memory of a process (kernel/exec.c, kernel/proc.c).                 *)
(*                                                                         *)
(* The functions of kalloc.c and vm.c are operators on a RAM: the free     *)
(* list, the contents of every page and whether the kernel has panicked.   *)
(* A page table is a tree of pages, as in the machine.  Several processes  *)
(* run at once and share only the free list, so a call is a sequence of    *)
(* steps that map at most one page of user memory each.                    *)
(***************************************************************************)
EXTENDS Integers, Sequences, FiniteSets, SequencesExt

CONSTANTS Proc,        \* the slots of the process table
          RamSizes,    \* the pages of memory that a machine may have
          PGSIZE,      \* bytes in a page, and entries in a page-table page
          USERSTACK,   \* pages of the stack that exec() makes
          MAXSZ,       \* bound: no process asks for more memory
          UINT64,      \* 2^64 in the code
          ExecCalls,   \* what exec() is given: a file, that is, a sequence of
                       \* [load, vaddr, memsz, perm, data], and an argv, that
                       \* is, a sequence of addresses
          Grows,       \* the n of sbrk()
          Buffers,     \* where system calls copy results to: <<address, length>>
          Value,       \* the bytes that a process writes
          MaxCalls,    \* bound: the system calls of a behaviour
          Zero, Junk, Guard, None

ASSUME VmAssumption ==
  /\ PGSIZE \in Nat \ {0, 1} /\ USERSTACK \in Nat \ {0} /\ Proc \subseteq Nat
  /\ MAXSZ <= (PGSIZE * PGSIZE * PGSIZE - 2) * PGSIZE /\ MAXSZ < UINT64
  /\ Value \intersect {Zero, Junk, Guard} = {}

VARIABLES
  ram,                      \* [free, at, panic]
  state,                    \* state[p]: UNUSED, USED, LIVE or ZOMBIE
  pagetable, trapframe, sz, \* struct proc; 0 is the null pointer
  pc, loc,                  \* where p is in its system call, and its locals
  calls                     \* calls so far, for the bound

procvars == <<state, pagetable, trapframe, sz>>
vars == <<ram, procvars, pc, loc, calls>>

----------------------------------------------------------------------------
(***************************************************************************)
(* kalloc.c                                                                *)
(***************************************************************************)
Off == 0 .. PGSIZE - 1
Page == DOMAIN ram.at
Fill(v) == [o \in Off |-> v]

Panic(r) == [r EXCEPT !.panic = TRUE]

\* kinit() and freerange() of n pages: the last one freed comes first.
FreeRange(n) ==
  [free |-> [k \in 1 .. n |-> n + 1 - k], at |-> [pg \in 1 .. n |-> Fill(Junk)],
   panic |-> FALSE]

Kalloc(r) ==
  IF r.free = <<>> THEN [r |-> r, pa |-> 0]
  ELSE [r |-> [r EXCEPT !.free = Tail(@), !.at[Head(r.free)] = Fill(Junk)],
        pa |-> Head(r.free)]

\* The test for a page that is not kalloc()'s, then junk and the free list.
Kfree(r, pa) ==
  IF pa \notin DOMAIN r.at THEN Panic(r)
  ELSE [r EXCEPT !.free = <<pa>> \o @, !.at[pa] = Fill(Junk)]

----------------------------------------------------------------------------
(***************************************************************************)
(* vm.c.  A PTE is Zero, or a page and its permissions: none for a page    *)
(* of the table itself.  An address is a byte's, a va here a page's.       *)
(***************************************************************************)
NPTE == PGSIZE
MAXVA == NPTE * NPTE * NPTE
TRAMPOLINE == MAXVA - 1
TRAPFRAME == MAXVA - 2
\* The page of kernel text that is mapped at TRAMPOLINE: kfree() refuses it.
TrampolineText == -1

PX(level, va) == (va \div NPTE^level) % NPTE
PGROUNDUP(a) == ((a + PGSIZE - 1) \div PGSIZE) * PGSIZE
Pages(a) == PGROUNDUP(a) \div PGSIZE

\* walk(): the page with the PTE of va, or 0, and the RAM with the pages of the
\* table that were added on the way.
Walk(r, pt, va, alloc) ==
  LET at == [level \in {1, 2} |-> PX(level, va)]
      add(w, level, k) ==
        IF ~alloc \/ k.pa = 0 THEN [w EXCEPT !.pt = 0]
        ELSE [r |-> [k.r EXCEPT !.at[k.pa] = Fill(Zero),
                                !.at[w.pt][at[level]] = [pa |-> k.pa, perm |-> {}]],
              pt |-> k.pa]
      down(w, level) ==
        IF w.pt = 0 THEN w
        ELSE IF w.r.at[w.pt][at[level]] # Zero
             THEN [w EXCEPT !.pt = w.r.at[w.pt][at[level]].pa]
             ELSE add(w, level, Kalloc(w.r))
  IN  IF va >= MAXVA THEN [r |-> Panic(r), pt |-> 0]
      ELSE down(down([r |-> r, pt |-> pt], 2), 1)

\* The PTE of va, Zero if there is none or it is not valid.
PteIn(r, w, va) == IF w.pt = 0 THEN Zero ELSE r.at[w.pt][PX(0, va)]
Pte(r, pt, va) == PteIn(r, Walk(r, pt, va, FALSE), va)

\* walkaddr()
WalkAddr(r, pt, va) ==
  LET user(pte) == IF pte = Zero THEN 0 ELSE IF "U" \in pte.perm THEN pte.pa ELSE 0
  IN  IF va >= MAXVA THEN 0 ELSE user(Pte(r, pt, va))

\* mappages() of one page.
MapPages(r, pt, va, pa, perm) ==
  LET set(w) ==
        IF w.pt = 0 THEN [r |-> w.r, ok |-> FALSE]
        ELSE IF w.r.at[w.pt][PX(0, va)] # Zero THEN [r |-> Panic(w.r), ok |-> FALSE]
        ELSE [r |-> [w.r EXCEPT !.at[w.pt][PX(0, va)] = [pa |-> pa, perm |-> perm]],
              ok |-> TRUE]
  IN  set(Walk(r, pt, va, TRUE))

UvmUnmap(r, pt, va, npages, do_free) ==
  LET clear(q, t, o) == [q EXCEPT !.at[t][o] = Zero]
      remove(q, w, o) ==
        IF q.panic THEN q
        ELSE IF w.pt = 0 THEN Panic(q)
        ELSE IF q.at[w.pt][o] = Zero THEN Panic(q)
        ELSE IF q.at[w.pt][o].perm = {} THEN Panic(q)
        ELSE IF do_free THEN Kfree(clear(q, w.pt, o), q.at[w.pt][o].pa)
        ELSE clear(q, w.pt, o)
  IN  FoldLeft(LAMBDA q, a : remove(q, Walk(q, pt, a, FALSE), PX(0, a)),
               r, [k \in 1 .. npages |-> va + k - 1])

\* uvmcreate()
UvmCreate(r) ==
  LET zero(k) == IF k.pa = 0 THEN k ELSE [k EXCEPT !.r.at[k.pa] = Fill(Zero)]
  IN  zero(Kalloc(r))

\* A page pa is to be mapped, and is given back if that fails.
OrKfree(mp, pa) == IF mp.ok THEN mp ELSE [r |-> Kfree(mp.r, pa), ok |-> FALSE]

\* uvmalloc() of one page: the loop's body.
UvmAllocPage_Leaks(r, pt, va, perm) ==
  LET map(k) ==
        IF k.pa = 0 THEN [r |-> r, ok |-> FALSE]
        ELSE MapPages([k.r EXCEPT !.at[k.pa] = Fill(Zero)], pt, va, k.pa,
                      perm \union {"R", "U"})
  IN  map(Kalloc(r))
UvmAllocPage(r, pt, va, perm) ==
  LET map(k) ==
        IF k.pa = 0 THEN [r |-> r, ok |-> FALSE]
        ELSE OrKfree(MapPages([k.r EXCEPT !.at[k.pa] = Fill(Zero)], pt, va, k.pa,
                              perm \union {"R", "U"}), k.pa)
  IN  map(Kalloc(r))

UvmDealloc(r, pt, oldsz, newsz) ==
  IF newsz >= oldsz THEN r
  ELSE UvmUnmap(r, pt, Pages(newsz), Pages(oldsz) - Pages(newsz), TRUE)

\* freewalk(), which is recursive, for the levels 0, 1 and 2 of a table.
FreeTable(FreeEntry(_, _), r, pt) ==
  LET free(q, i, pte) ==
        IF q.panic \/ pte = Zero THEN q
        ELSE IF pte.perm # {} THEN Panic(q)
        ELSE [FreeEntry(q, pte.pa) EXCEPT !.at[pt][i] = Zero]
  IN  Kfree(FoldLeft(LAMBDA q, i : free(q, i, q.at[pt][i]), r, [i \in 1 .. NPTE |-> i - 1]), pt)
FreeWalk(r, pt) ==
  LET none(q, t) == Panic(q)
      level0(q, t) == FreeTable(none, q, t)
      level1(q, t) == FreeTable(level0, q, t)
  IN  FreeTable(level1, r, pt)

UvmFree(r, pt, size) == FreeWalk(UvmUnmap(r, pt, 0, Pages(size), TRUE), pt)

\* uvmcopy() of page va: the loop's body.
UvmCopyPage_AnyFlags(r, old, new, va) ==
  LET map(pte, k) ==
        IF pte = Zero THEN [r |-> Panic(r), ok |-> FALSE]
        ELSE IF k.pa = 0 THEN [r |-> r, ok |-> FALSE]
        ELSE OrKfree(MapPages([k.r EXCEPT !.at[k.pa] = r.at[pte.pa]], new, va, k.pa,
                              {"R", "W", "X", "U"}), k.pa)
  IN  map(Pte(r, old, va), Kalloc(r))
UvmCopyPage(r, old, new, va) ==
  LET map(pte, k) ==
        IF pte = Zero THEN [r |-> Panic(r), ok |-> FALSE]
        ELSE IF k.pa = 0 THEN [r |-> r, ok |-> FALSE]
        ELSE OrKfree(MapPages([k.r EXCEPT !.at[k.pa] = r.at[pte.pa]], new, va, k.pa, pte.perm),
                     k.pa)
  IN  map(Pte(r, old, va), Kalloc(r))

\* uvmclear()
UvmClear(r, pt, va) ==
  LET clear(w) == IF w.pt = 0 THEN Panic(r)
                  ELSE [r EXCEPT !.at[w.pt][PX(0, va)].perm = @ \ {"U"}]
  IN  clear(Walk(r, pt, va, FALSE))

\* copyout(): the bytes of s from address a on, up to the first page that the
\* user may not write.
Copyout(r, pt, a, s) ==
  LET put(c, b, v, pte) ==
        IF ~c.ok \/ pte = Zero THEN [c EXCEPT !.ok = FALSE]
        ELSE IF ~({"U", "W"} \subseteq pte.perm) THEN [c EXCEPT !.ok = FALSE]
        ELSE [c EXCEPT !.r.at[pte.pa][b % PGSIZE] = v]
      pteOf(q, va) == IF va >= MAXVA THEN Zero ELSE Pte(q, pt, va)
  IN  FoldLeft(LAMBDA c, i : put(c, a + i - 1, s[i], pteOf(c.r, (a + i - 1) \div PGSIZE)),
               [r |-> r, ok |-> TRUE], [i \in 1 .. Len(s) |-> i])

\* copyin() of the byte at address a, None if the user may not read it.
Copyin(r, pt, a) ==
  LET byte(pa) == IF pa = 0 THEN None ELSE r.at[pa][a % PGSIZE]
  IN  byte(WalkAddr(r, pt, a \div PGSIZE))

\* copyinstr(): the string at address a with its NUL, of at most max bytes, or
\* <<>> if it has no end.
Copyinstr(r, pt, a, max) ==
  LET get(s, i) == IF s # <<>> /\ Last(s) \in {Zero, None} THEN s
                   ELSE Append(s, Copyin(r, pt, a + i - 1))
      ended(s) == IF Last(s) = Zero THEN s ELSE <<>>
  IN  ended(FoldLeft(get, <<>>, [i \in 1 .. max |-> i]))

----------------------------------------------------------------------------
(***************************************************************************)
(* proc.c: the memory of a process                                         *)
(***************************************************************************)

\* proc_pagetable(): the table with only the trampoline and the trapframe, or 0.
ProcPagetable(r, tf) ==
  LET trapframeIn(c, b) ==
        IF b.ok THEN [r |-> b.r, pa |-> c]
        ELSE [r |-> UvmFree(UvmUnmap(b.r, c, TRAMPOLINE, 1, FALSE), c, 0), pa |-> 0]
      trampolineIn(c, a) ==
        IF a.ok THEN trapframeIn(c, MapPages(a.r, c, TRAPFRAME, tf, {"R", "W"}))
        ELSE [r |-> UvmFree(a.r, c, 0), pa |-> 0]
      made(c) ==
        IF c.pa = 0 THEN c
        ELSE trampolineIn(c.pa, MapPages(c.r, c.pa, TRAMPOLINE, TrampolineText, {"R", "X"}))
  IN  made(UvmCreate(r))

ProcFreepagetable(r, pt, size) ==
  UvmFree(UvmUnmap(UvmUnmap(r, pt, TRAMPOLINE, 1, FALSE), pt, TRAPFRAME, 1, FALSE), pt, size)

\* freeproc(): the pages that p has.
FreeprocRam(r, tf, pt, size) ==
  LET table(q) == IF pt = 0 THEN q ELSE ProcFreepagetable(q, pt, size)
  IN  table(IF tf = 0 THEN r ELSE Kfree(r, tf))

Freeproc(p, r) ==
  /\ ram' = FreeprocRam(r, trapframe[p], pagetable[p], sz[p])
  /\ trapframe' = [trapframe EXCEPT ![p] = 0]
  /\ pagetable' = [pagetable EXCEPT ![p] = 0]
  /\ sz' = [sz EXCEPT ![p] = 0]
  /\ state' = [state EXCEPT ![p] = "UNUSED"]

\* allocproc(): a trapframe and an empty table; fails without leaving a page.
AllocprocRam(r) ==
  LET table(tf, t) ==
        IF t.pa # 0 THEN [r |-> t.r, tf |-> tf, pt |-> t.pa]
        ELSE [r |-> FreeprocRam(t.r, tf, 0, 0), tf |-> 0, pt |-> 0]
      made(k) == IF k.pa = 0 THEN [r |-> r, tf |-> 0, pt |-> 0]
                 ELSE table(k.pa, ProcPagetable(k.r, k.pa))
  IN  made(Kalloc(r))

NoLoc == [next |-> "none"]
First == CHOOSE p \in Proc : \A q \in Proc : p <= q

\* userinit() and uvmfirst(): the first process has one page.  (initcode's own
\* bytes are zeroes here.)
Init ==
  \E n \in RamSizes :
    LET a == AllocprocRam(FreeRange(n))
        u == UvmAllocPage(a.r, a.pt, 0, {"W", "X"})
    IN  /\ ram = u.r
        /\ state = [p \in Proc |-> IF p = First THEN "LIVE" ELSE "UNUSED"]
        /\ pagetable = [p \in Proc |-> IF p = First THEN a.pt ELSE 0]
        /\ trapframe = [p \in Proc |-> IF p = First THEN a.tf ELSE 0]
        /\ sz = [p \in Proc |-> IF p = First THEN PGSIZE ELSE 0]
        /\ pc = [p \in Proc |-> "user"]
        /\ loc = [p \in Proc |-> NoLoc]
        /\ calls = 0

----------------------------------------------------------------------------
Goto(p, l) == pc' = [pc EXCEPT ![p] = l]
SetLoc(p, l) == loc' = [loc EXCEPT ![p] = l]

\* p, in user space, makes a system call.
Call(p) ==
  /\ state[p] = "LIVE" /\ pc[p] = "user"
  /\ calls < MaxCalls /\ calls' = calls + 1
\* p goes on in the system call.
At(p, l) == pc[p] = l /\ UNCHANGED calls
\* p is back in user space.
Return(p) == Goto(p, "user") /\ SetLoc(p, NoLoc)

\* A call that ends in copyout() (read(), fstat(), pipe(), wait()), or a store
\* of the process itself.
SysCopyout(p) ==
  /\ Call(p)
  /\ \E b \in Buffers, v \in Value :
       ram' = Copyout(ram, pagetable[p], b[1], [i \in 1 .. b[2] |-> v]).r
  /\ UNCHANGED <<procvars, pc, loc>>

----------------------------------------------------------------------------
(***************************************************************************)
(* uvmalloc(), for sbrk() and exec(): loc has the table pt, the next page  *)
(* at a, the sizes from and to, the permissions and where to return to.    *)
(***************************************************************************)
StartUvmAlloc(p, l, pt, from, to, perm, next) ==
  /\ Goto(p, "uvmalloc")
  /\ SetLoc(p, [l EXCEPT !.pt = pt, !.a = PGROUNDUP(from), !.from = from, !.to = to,
                         !.perm = perm, !.next = next])

UvmAlloc(p) ==
  LET l == loc[p]
      u == UvmAllocPage(ram, l.pt, l.a \div PGSIZE, l.perm)
  IN  /\ At(p, "uvmalloc") /\ l.a < l.to
      /\ \/ /\ u.ok /\ ram' = u.r
            /\ SetLoc(p, [l EXCEPT !.a = @ + PGSIZE]) /\ UNCHANGED pc
         \/ /\ ~u.ok /\ ram' = UvmDealloc(u.r, l.pt, l.a, PGROUNDUP(l.from))
            /\ SetLoc(p, [l EXCEPT !.to = 0]) /\ Goto(p, l.next)
      /\ UNCHANGED procvars

\* newsz < oldsz gives oldsz.
UvmAllocDone(p) ==
  /\ At(p, "uvmalloc") /\ loc[p].a >= loc[p].to
  /\ SetLoc(p, [loc[p] EXCEPT !.to = IF @ < loc[p].from THEN loc[p].from ELSE @])
  /\ Goto(p, loc[p].next)
  /\ UNCHANGED <<ram, procvars>>

\* The locals of a call.
Locals == [next |-> "none", pt |-> 0, a |-> 0, from |-> 0, to |-> 0, perm |-> {},
           prog |-> <<>>, i |-> 0, argv |-> <<>>, args |-> <<>>, sz |-> 0, child |-> 0]

\* sys_sbrk() and growproc().
Grow(p) ==
  /\ Call(p)
  /\ \E n \in Grows : /\ n > 0 /\ sz[p] + n <= MAXSZ
                      /\ StartUvmAlloc(p, Locals, pagetable[p], sz[p], sz[p] + n, {"W"}, "grown")
  /\ UNCHANGED <<ram, procvars>>

Grown(p) ==
  /\ At(p, "grown")
  /\ sz' = [sz EXCEPT ![p] = IF loc[p].to = 0 THEN @ ELSE loc[p].to]
  /\ Return(p)
  /\ UNCHANGED <<ram, state, pagetable, trapframe>>

\* uvmdealloc() leaves the size alone when newsz is no less, and sz + n wraps.
Shrunk(size, n) == LET newsz == (size + n) % UINT64 IN IF newsz >= size THEN size ELSE newsz

Shrink(p) ==
  /\ Call(p)
  /\ \E n \in Grows :
       /\ n < 0
       /\ ram' = UvmDealloc(ram, pagetable[p], sz[p], Shrunk(sz[p], n))
       /\ sz' = [sz EXCEPT ![p] = Shrunk(@, n)]
  /\ UNCHANGED <<state, pagetable, trapframe, pc, loc>>

----------------------------------------------------------------------------
(***************************************************************************)
(* fork(), exit() and wait()                                               *)
(***************************************************************************)
Unused == {c \in Proc : state[c] = "UNUSED"}

Fork(p) ==
  LET a == AllocprocRam(ram)
      c == CHOOSE d \in Unused : \A e \in Unused : d <= e
  IN  /\ Call(p) /\ Unused # {}
      /\ ram' = a.r
      /\ IF a.pt = 0 THEN UNCHANGED <<procvars, pc, loc>>
         ELSE /\ state' = [state EXCEPT ![c] = "USED"]
              /\ trapframe' = [trapframe EXCEPT ![c] = a.tf]
              /\ pagetable' = [pagetable EXCEPT ![c] = a.pt]
              /\ Goto(p, "copy") /\ SetLoc(p, [Locals EXCEPT !.child = c])
              /\ UNCHANGED sz

UvmCopy(p) ==
  LET l == loc[p]
      u == UvmCopyPage(ram, pagetable[p], pagetable[l.child], l.i)
  IN  /\ At(p, "copy") /\ l.i * PGSIZE < sz[p]
      /\ \/ /\ u.ok /\ ram' = u.r
            /\ SetLoc(p, [l EXCEPT !.i = @ + 1]) /\ UNCHANGED <<procvars, pc>>
         \/ /\ ~u.ok
            /\ Freeproc(l.child, UvmUnmap(u.r, pagetable[l.child], 0, l.i, TRUE))
            /\ Return(p)

Forked(p) ==
  /\ At(p, "copy") /\ loc[p].i * PGSIZE >= sz[p]
  /\ sz' = [sz EXCEPT ![loc[p].child] = sz[p]]
  /\ state' = [state EXCEPT ![loc[p].child] = "LIVE"]
  /\ Return(p)
  /\ UNCHANGED <<ram, pagetable, trapframe>>

Exit(p) ==
  /\ Call(p) /\ p # First
  /\ state' = [state EXCEPT ![p] = "ZOMBIE"]
  /\ UNCHANGED <<ram, pagetable, trapframe, sz, pc, loc>>

\* wait() of a zombie c: the copy of its status is SysCopyout's.
Wait(p, c) ==
  /\ Call(p) /\ state[c] = "ZOMBIE"
  /\ Freeproc(c, ram)
  /\ UNCHANGED <<pc, loc>>

----------------------------------------------------------------------------
(***************************************************************************)
(* sys_exec() and exec()                                                   *)
(***************************************************************************)
KfreeAll(r, pgs) == FoldLeft(Kfree, r, pgs)

SysExec(p) ==
  /\ Call(p)
  /\ \E c \in ExecCalls : SetLoc(p, [Locals EXCEPT !.prog = c[1], !.argv = c[2]])
  /\ Goto(p, "argv")
  /\ UNCHANGED <<ram, procvars>>

\* One argument: a page for it, and fetchstr().
FetchArg(p) ==
  LET l == loc[p]
      k == Kalloc(ram)
      s == Copyinstr(ram, pagetable[p], l.argv[Len(l.args) + 1], PGSIZE)
      full == [o \in Off |-> IF o < Len(s) THEN s[o + 1] ELSE Junk]
  IN  /\ At(p, "argv") /\ Len(l.args) < Len(l.argv)
      /\ IF k.pa # 0 /\ s # <<>>
         THEN /\ ram' = [k.r EXCEPT !.at[k.pa] = full]
              /\ SetLoc(p, [l EXCEPT !.args = Append(@, k.pa)]) /\ UNCHANGED pc
         ELSE /\ ram' = KfreeAll(k.r, l.args \o (IF k.pa = 0 THEN <<>> ELSE <<k.pa>>))
              /\ Return(p)
      /\ UNCHANGED procvars

\* fetchaddr() of the next argument fails, or there are too many.
FetchArgBad(p) ==
  /\ At(p, "argv")
  /\ ram' = KfreeAll(ram, loc[p].args)
  /\ Return(p)
  /\ UNCHANGED procvars

\* Free an image, the new one at bad: and the old one at the end, and on the
\* return to sys_exec() the arguments.
GiveBack(p, r, pt, size) ==
  /\ ram' = KfreeAll(IF pt = 0 THEN r ELSE ProcFreepagetable(r, pt, size), loc[p].args)
  /\ Return(p)

\* namei(), the ELF header and proc_pagetable().
Exec(p) ==
  LET pt == ProcPagetable(ram, trapframe[p])
  IN  /\ At(p, "argv") /\ Len(loc[p].args) = Len(loc[p].argv)
      /\ \/ GiveBack(p, ram, 0, 0)
         \/ /\ pt.pa = 0 /\ GiveBack(p, pt.r, 0, 0)
         \/ /\ pt.pa # 0 /\ ram' = pt.r
            /\ SetLoc(p, [loc[p] EXCEPT !.pt = pt.pa, !.i = 1]) /\ Goto(p, "segment")
      /\ UNCHANGED procvars

\* The tests of a program header.
BadHeader(g) ==
  \/ g.memsz < Len(g.data)
  \/ (g.vaddr + g.memsz) % UINT64 < g.vaddr
  \/ g.vaddr % PGSIZE # 0

ExecSegment(p) ==
  LET l == loc[p]
      g == l.prog[l.i]
  IN  /\ At(p, "segment") /\ l.i <= Len(l.prog)
      /\ IF ~g.load THEN SetLoc(p, [l EXCEPT !.i = @ + 1]) /\ UNCHANGED <<ram, pc>>
         ELSE IF BadHeader(g) THEN GiveBack(p, ram, l.pt, l.sz)
         ELSE StartUvmAlloc(p, l, l.pt, l.sz, g.vaddr + g.memsz, g.perm, "load") /\ UNCHANGED ram
      /\ UNCHANGED procvars

\* loadseg(): the file's bytes through the table; readi() may come short.
LoadRam(r, pt, g) ==
  LET put(q, i) ==
        LET b == g.vaddr + i - 1
            pa == WalkAddr(q, pt, b \div PGSIZE)
        IN  IF pa = 0 THEN Panic(q) ELSE [q EXCEPT !.at[pa][b % PGSIZE] = g.data[i]]
  IN  FoldLeft(put, r, [i \in 1 .. Len(g.data) |-> i])

LoadSeg(p) ==
  LET l == loc[p]
  IN  /\ At(p, "load")
      /\ \/ l.to = 0 /\ GiveBack(p, ram, l.pt, l.sz)
         \/ l.to # 0 /\ GiveBack(p, ram, l.pt, l.to)
         \/ /\ l.to # 0 /\ ram' = LoadRam(ram, l.pt, l.prog[l.i])
            /\ SetLoc(p, [l EXCEPT !.sz = l.to, !.i = @ + 1]) /\ Goto(p, "segment")
      /\ UNCHANGED procvars

\* A guard page and the stack, from the next page boundary on.
ExecStack(p) ==
  LET l == loc[p]
      from == PGROUNDUP(l.sz)
  IN  /\ At(p, "segment") /\ l.i > Len(l.prog)
      /\ StartUvmAlloc(p, [l EXCEPT !.sz = from], l.pt, from, from + (USERSTACK + 1) * PGSIZE,
                       {"W"}, "push")
      /\ UNCHANGED <<ram, procvars>>

\* The argument strings, then the array of their addresses; sp below stackbase
\* is an error.  (Alignment of sp is left out.)
ArgString(pg) ==
  LET s == ram.at[pg]
      n == CHOOSE o \in Off : s[o] = Zero /\ \A q \in 0 .. o - 1 : s[q] # Zero
  IN  [i \in 1 .. n + 1 |-> s[i - 1]]

PushArgs(r, pt, size, args) ==
  LET stackbase == size - USERSTACK * PGSIZE
      push(c, s) ==
        LET sp == c.sp - Len(s)
            o == Copyout(c.r, pt, sp, s)
        IN  IF ~c.ok \/ sp < stackbase THEN [c EXCEPT !.ok = FALSE]
            ELSE [r |-> o.r, ok |-> o.ok, sp |-> sp, ustack |-> Append(c.ustack, sp)]
      strings == FoldLeft(push, [r |-> r, ok |-> TRUE, sp |-> size, ustack |-> <<>>],
                          [i \in 1 .. Len(args) |-> ArgString(args[i])])
  IN  push(strings, Append(strings.ustack, Zero))

\* uvmclear(), the arguments, and the commit to the new image.
ExecCommit(p) ==
  LET l == loc[p]
      stack == PushArgs(UvmClear(ram, l.pt, Pages(l.to) - USERSTACK - 1), l.pt, l.to, l.args)
  IN  /\ At(p, "push")
      /\ \/ /\ l.to = 0 /\ GiveBack(p, ram, l.pt, l.sz) /\ UNCHANGED procvars
         \/ /\ l.to # 0 /\ ~stack.ok /\ GiveBack(p, stack.r, l.pt, l.to) /\ UNCHANGED procvars
         \/ /\ l.to # 0 /\ stack.ok
            /\ pagetable' = [pagetable EXCEPT ![p] = l.pt]
            /\ sz' = [sz EXCEPT ![p] = l.to]
            /\ GiveBack(p, stack.r, pagetable[p], sz[p])
            /\ UNCHANGED <<state, trapframe>>

----------------------------------------------------------------------------
Step(p) ==
  \/ SysCopyout(p)
  \/ UvmAlloc(p) \/ UvmAllocDone(p) \/ Grow(p) \/ Grown(p) \/ Shrink(p)
  \/ Fork(p) \/ UvmCopy(p) \/ Forked(p) \/ Exit(p) \/ (\E c \in Proc : Wait(p, c))
  \/ SysExec(p) \/ FetchArg(p) \/ FetchArgBad(p) \/ Exec(p) \/ ExecSegment(p) \/ LoadSeg(p)
  \/ ExecStack(p) \/ ExecCommit(p)

Next == \E p \in Proc : Step(p)

Spec == Init /\ [][Next]_vars

----------------------------------------------------------------------------
(***************************************************************************)
(* Properties                                                              *)
(***************************************************************************)

\* The page tables there are: of the processes, and of the images that exec()
\* is building.
Building(p) == IF pc[p] \in {"segment", "load", "push"} \/ (pc[p] = "uvmalloc" /\ loc[p].next # "grown")
               THEN {loc[p].pt} ELSE {}
Roots == ({pagetable[p] : p \in Proc} \ {0}) \union UNION {Building(p) : p \in Proc}

\* The pages of a table below pages pgs.
Below(pgs) == {ram.at[t][o].pa : <<t, o>> \in {x \in pgs \X Off : ram.at[x[1]][x[2]] # Zero}}
Level1 == Below(Roots)
Tables == Roots \union Level1 \union Below(Level1)

\* How often page pg is in use: free, a trapframe, a table, a page that a table
\* refers to (other than as TRAPFRAME), an argument of exec().
Uses(pg) ==
  LET refs == {x \in Tables \X Off :
                 /\ ram.at[x[1]][x[2]] # Zero
                 /\ ram.at[x[1]][x[2]].pa = pg}
      count(S) == Cardinality(S)
  IN    count({k \in 1 .. Len(ram.free) : ram.free[k] = pg})
      + count({p \in Proc : trapframe[p] = pg})
      + count(Roots \intersect {pg})
      + count({x \in refs : pg \notin {trapframe[p] : p \in Proc}})
      + count({x \in Proc \X (1 .. 2) : pc[x[1]] # "user" /\ x[2] <= Len(loc[x[1]].args)
                                        /\ loc[x[1]].args[x[2]] = pg})

\* vm.c: no panic, that is, no mapping is made twice, none is missing when it
\* is removed or copied, and no leaf is left when a table is freed.
NoPanic == ~ram.panic

\* kalloc()/kfree(): every page of memory is free or has exactly one owner, on
\* every error path: none is lost, none is freed twice or while it is in use;
\* every table maps the trapframe of its process; and no assertion of vm.c fails.
PagesOwnedOnce ==
  /\ NoPanic
  /\ \A pg \in Page : Uses(pg) = 1
  /\ \A p \in Proc : pagetable[p] # 0 =>
       Pte(ram, pagetable[p], TRAPFRAME) = [pa |-> trapframe[p], perm |-> {"R", "W"}]

\* The memory of p as p sees it.
UserPage(p, va) ==
  LET pte == Pte(ram, pagetable[p], va)
  IN  IF pte = Zero THEN Fill(None)
      ELSE IF "U" \in pte.perm THEN ram.at[pte.pa] ELSE Fill(Guard)
Space(p) ==
  IF state[p] # "LIVE" THEN None
  ELSE LET page == [va \in 0 .. Pages(sz[p]) - 1 |-> UserPage(p, va)]
       IN  [b \in 0 .. PGROUNDUP(sz[p]) - 1 |-> page[b \div PGSIZE][b % PGSIZE]]

AS == INSTANCE AddrSpace WITH
        space <- [p \in Proc |-> Space(p)],
        ExecCalls <- {c \in ExecCalls :
                        \A i \in 1 .. Len(c[1]) : c[1][i].load => ~BadHeader(c[1][i])}

\* Processes have private memory that fork() copies, sbrk() extends by zeroes
\* and exec() replaces all or nothing, with the right program and arguments.
ImplementsAddrSpace == AS!Spec
=============================================================================
