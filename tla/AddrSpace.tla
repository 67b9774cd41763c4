------------------------------ MODULE AddrSpace -----------------------------
(***************************************************************************)
(* What the virtual memory of xv6 promises: every process has bytes of its *)
(* own, in whole pages.  Nobody else can change them; fork() copies them;  *)
(* sbrk() adds zeroed pages or drops the last ones; exec() replaces them   *)
(* by the image of a program with its arguments on the stack, or fails and *)
(* leaves them alone.                                                      *)
(***************************************************************************)
EXTENDS Integers, Sequences, SequencesExt

CONSTANTS Proc, PGSIZE, USERSTACK, MAXSZ,
          ExecCalls,    \* what exec() accepts: a program, that is, a sequence of
                        \* segments, and the addresses of the argument strings
          Value,        \* what a process writes
          Zero, Guard,  \* a zeroed byte, a byte of the page below the stack
          None

VARIABLE space   \* space[p]: the bytes of p by address, or None

PGROUNDUP(a) == ((a + PGSIZE - 1) \div PGSIZE) * PGSIZE

\* The memories that a write to f may leave, and a call of sbrk().
Writes(f) ==
  {[b \in DOMAIN f |-> IF b \in a .. a + n - 1 THEN v ELSE f[b]] :
     a \in DOMAIN f, n \in 1 .. PGSIZE, v \in Value}

Resizes(f) ==
  {[b \in 0 .. pages * PGSIZE - 1 |-> IF b \in DOMAIN f THEN f[b] ELSE Zero] :
     pages \in 0 .. MAXSZ \div PGSIZE}

\* The loaded segments of a program: a byte is the last one given for it.
Loaded(prog) == SelectSeq(prog, LAMBDA g : g.load)
Top(prog) == LET ends == {0} \union {g.vaddr + g.memsz : g \in ToSet(Loaded(prog))}
             IN  PGROUNDUP(CHOOSE e \in ends : \A f \in ends : f <= e)
Text(prog, b) ==
  LET s == Loaded(prog)
      given == {i \in 1 .. Len(s) : b \in s[i].vaddr .. s[i].vaddr + Len(s[i].data) - 1}
      i == CHOOSE j \in given : \A k \in given : k <= j
  IN  IF given = {} THEN Zero ELSE s[i].data[b - s[i].vaddr + 1]

\* The string at address a of f, with its NUL.
Strings(f, a) ==
  {s \in UNION {[1 .. n -> {f[b] : b \in DOMAIN f}] : n \in 1 .. PGSIZE} :
     /\ \A k \in 1 .. Len(s) : a + k - 1 \in DOMAIN f /\ s[k] = f[a + k - 1]
     /\ \A k \in 1 .. Len(s) : s[k] = Zero <=> k = Len(s)}
StringAt(f, a) == CHOOSE s \in Strings(f, a) : TRUE

\* The arguments on a stack that ends at top: the pointers, a null pointer and
\* the strings, the first of them last.
ArgBlock(f, argv, top) ==
  LET str(i) == StringAt(f, argv[i])
      strings(n) == FoldLeft(LAMBDA acc, i : str(i) \o acc, <<>>, [i \in 1 .. n |-> i])
  IN  [i \in 1 .. Len(argv) |-> top - Len(strings(i))] \o <<Zero>> \o strings(Len(argv))

Image(f, prog, argv) ==
  LET top == Top(prog) + (USERSTACK + 1) * PGSIZE
      args == ArgBlock(f, argv, top)
  IN  [b \in 0 .. top - 1 |->
         IF b < Top(prog) THEN Text(prog, b)
         ELSE IF b < Top(prog) + PGSIZE THEN Guard
         ELSE IF b < top - Len(args) THEN Zero
         ELSE args[b - (top - Len(args)) + 1]]

\* The memories that exec() by a process with memory f may make.
Execs(f) ==
  {Image(f, c[1], c[2]) :
     c \in {d \in ExecCalls : \A i \in 1 .. Len(d[2]) : Strings(f, d[2][i]) # {}}}

Init == \E p \in Proc, f \in [0 .. PGSIZE - 1 -> {Zero}] :
          space = [q \in Proc |-> IF q = p THEN f ELSE None]

\* A call of p changes the memory of q, its own or its child's, and no other.
Next ==
  \E old \in {space}, new \in {space'} : \E p, q \in Proc :
    /\ old # new /\ old[p] # None
    /\ \A r \in Proc \ {q} : new[r] = old[r]
    /\ IF p = q
       THEN new[q] \in Writes(old[p]) \union Resizes(old[p]) \union Execs(old[p]) \union {None}
       ELSE old[q] = None /\ new[q] = old[p]

Spec == Init /\ [][Next]_space
=============================================================================
