---------------------------- MODULE MCXv6Devices ----------------------------
(***************************************************************************)
(* The two drivers side by side, for TLC.  They share nothing but the      *)
(* PLIC, so that the instance loads one of them at a time.                 *)
(***************************************************************************)
EXTENDS Xv6Disk

CONSTANTS Reader, Writer, Letter, INPUT_BUF_SIZE, UINT32, Start, UART_TX_BUF_SIZE, FIFO, Counts,
          Loads, None, n1, n2, n3

VARIABLES conslock, cbuf, r, w, e, txlock, txbuf, tx_w, tx_r, rx, thr, thre, cpc, key, echo,
          want, got, left, killed, keys, creads, ask, kills, bytes

cvars == <<conslock, cbuf, r, w, e, txlock, txbuf, tx_w, tx_r, rx, thr, thre, cpc, key, echo,
           want, got, left, killed, keys, creads, ask, kills, bytes>>

C == INSTANCE Xv6Console WITH buf <- cbuf, pc <- cpc, reads <- creads

ASSUME ConsoleAssumption == C!ConsoleAssumption

M(nbuf, num, n, rs, ch) == [NBUF |-> nbuf, NUM |-> num, served |-> n, reads |-> rs, changes |-> ch]
NoReads == <<<<>>, <<>>, <<>>>>

\* No work; two requests in progress and a third that waits for descriptors,
\* while the indices wrap; the same block twice, a block pinned, and one
\* descriptor too many; one buffer for everything; too few buffers.
MCMachines == {
  M(1, 3, 0, NoReads, 0),
  M(3, 8, 23, <<<<n1>>, <<n2>>, <<n3>>>>, 0),
  M(2, 4, 0, <<<<n1, n2>>, <<n1>>, <<>>>>, 1),
  M(1, 3, 0, <<<<n1, n2, n1>>, <<>>, <<>>>>, 1),
  M(2, 8, 0, <<<<n1, n2>>, <<n3>>, <<>>>>, 1)}

Load(k, rd, b, ki) == [keys |-> k, reads |-> rd, bytes |-> b, kills |-> ki]
NoLoad == Load(0, 0, 0, 0)

\* No work; lines, ends of file and a full buffer; a kill; a full transmit ring
\* with an echo in between; reading and writing.
MCLoads == {NoLoad, Load(4, 1, 0, 0), Load(2, 2, 0, 0),
            Load(2, 1, 0, 1), Load(1, 0, 3, 0), Load(1, 1, 1, 0)}

MCInit == /\ Init /\ C!Init
          /\ (machine.reads = NoReads) # ([keys |-> keys, reads |-> creads, bytes |-> ask,
                                           kills |-> kills] = NoLoad)

MCNext == \/ Next /\ UNCHANGED cvars
          \/ C!Next /\ UNCHANGED vars

MCSpec == MCInit /\ [][MCNext]_<<vars, cvars>> /\ Fairness /\ C!Fairness

\* Xv6Console: the console implements Tty.
ImplementsTty == C!ImplementsTty

\* Xv6Console: the transmit ring holds exactly what was put and not sent.
TxExact == C!TxExact

\* Xv6Disk and Xv6Console: every call of the drivers ends; all output is sent
\* and nobody waits for the console without a reason.
EverybodyServed == CallsEnd /\ C!EverybodyServed
=============================================================================
