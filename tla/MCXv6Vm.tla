------------------------------- MODULE MCXv6Vm ------------------------------
(* A small instance of Xv6Vm for TLC. *)
EXTENDS Xv6Vm

CONSTANTS insn, datum

Seg(vaddr, memsz, perm, data) ==
  [load |-> TRUE, vaddr |-> vaddr, memsz |-> memsz, perm |-> perm, data |-> data]

\* A program with a zeroed byte, with an argument and with one that is no
\* address; one with a header to skip and a second segment; one whose second
\* segment is below the first, with more arguments than the stack has room for;
\* two that exec() refuses: a segment that is not aligned, one that wraps.
One == <<Seg(0, 2, {"X"}, <<insn>>)>>
MCExecCalls ==
  {<<One, <<0>>>>,
   <<One, <<0, 99>>>>,
   <<<<Seg(0, 1, {"X"}, <<insn>>), [Seg(0, 0, {}, <<>>) EXCEPT !.load = FALSE],
       Seg(2, 2, {"W"}, <<datum>>)>>, <<>>>>,
   <<<<Seg(2, 1, {"W"}, <<datum>>), Seg(0, 2, {"X"}, <<insn, insn>>)>>, <<0, 0>>>>,
   <<<<Seg(0, 2, {"X"}, <<insn>>), Seg(3, 1, {"W"}, <<datum>>)>>, <<>>>>,
   <<<<Seg(UINT64 - 2, 2, {"X"}, <<insn>>)>>, <<>>>>}

\* A step below zero, one within a page, one of more than a page.
MCGrows == {-9, -1, 3}

MCBuffers == {<<0, 1>>, <<1, 2>>}
=============================================================================
