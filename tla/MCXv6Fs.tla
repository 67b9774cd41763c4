------------------------------- MODULE MCXv6Fs ------------------------------
(* Small instances of Xv6Fs for TLC. *)
EXTENDS Xv6Fs, TLC

\* Paths: /, /x, /x/y, and y in the current directory.
root == [abs |-> TRUE, elems |-> <<>>]
x == [abs |-> TRUE, elems |-> <<"x">>]
xy == [abs |-> TRUE, elems |-> <<"x", "y">>]
y == [abs |-> FALSE, elems |-> <<"y">>]

CreateMode == [write |-> TRUE, create |-> TRUE, trunc |-> TRUE]
ReadOnly == [write |-> FALSE, create |-> FALSE, trunc |-> FALSE]

Syscalls ==
  {[op |-> "open", path |-> q, mode |-> CreateMode] : q \in {root, xy, y}}
  \union {[op |-> "open", path |-> q, mode |-> ReadOnly] : q \in {x, xy}}
  \union {[op |-> "make", path |-> q, type |-> "T_DIR"] : q \in {x, y}}
  \union {[op |-> "link", path |-> xy, new |-> y], [op |-> "link", path |-> y, new |-> x]}
  \union {[op |-> "unlink", path |-> q] : q \in {x, xy, y}}
  \union {[op |-> "chdir", path |-> q] : q \in {root, x}}

\* A disk with an empty directory /x, and one with a file /x/y.
Empty ==
  [i \in Inum |->
     CASE i = 1 -> [NewDir(1, 1, 1) EXCEPT !.data = Append(@, <<"x", 2>>), !.nlink = 2,
                                           !.ind = 2, !.a = <<3>>]
       [] i = 2 -> NewDir(2, 1, 4)
       [] OTHER -> FreeInode]
Full == [Empty EXCEPT ![2].data = Append(@, <<"y", 3>>), ![2].ind = 5, ![2].a = <<6>>,
                      ![3].type = "T_FILE", ![3].nlink = 1]

Disks == {[di |-> Empty, used |-> 1 .. 4], [di |-> Full, used |-> 1 .. 6]}

Symmetry == Permutations(Proc)
=============================================================================
