----------------------------- MODULE Xv6Console -----------------------------
(***************************************************************************)
(* The console (kernel/console.c) and the UART (kernel/uart.c): keys that  *)
(* interrupts bring, edited and read a line at a time, and bytes that      *)
(* write() puts into a ring which interrupts empty.                        *)
(*                                                                         *)
(* One handler, uartintr(), runs at a time (the PLIC gives an interrupt to *)
(* one hart until it is completed), against processes on other harts.      *)
(* Reading the line status and writing the transmit register are two       *)
(* steps: an echo does both without uart_tx_lock.                          *)
(***************************************************************************)
EXTENDS Integers, Sequences, SequencesExt

CONSTANTS Reader, Writer,    \* processes that read(), and that write()
          Letter,            \* keys other than the control keys
          INPUT_BUF_SIZE, UINT32, Start,  \* cons.buf, 2^32, and where r starts
          UART_TX_BUF_SIZE,
          FIFO,              \* bytes that the UART can hold for sending
          Counts,            \* the n of a read()
          Loads,             \* bounds: [keys, reads, bytes, kills]
          None

\* Assumed of the constants; the UART of uartinit() has a FIFO of 16 bytes.
ConsoleAssumption ==
  /\ {"intr", None} \intersect (Reader \union Writer) = {} /\ None # "intr"
  /\ INPUT_BUF_SIZE \in Nat \ {0} /\ UART_TX_BUF_SIZE \in Nat \ {0} /\ FIFO \in Nat \ {0, 1}
  /\ UINT32 \in Nat /\ UINT32 % INPUT_BUF_SIZE = 0 /\ UINT32 > INPUT_BUF_SIZE
  /\ Start \subseteq 0 .. UINT32 - 1 /\ Counts \subseteq Nat \ {0}

VARIABLES
  conslock, buf, r, w, e,          \* cons
  txlock, txbuf, tx_w, tx_r,       \* uart_tx_lock, ...
  rx, thr, thre,                   \* the UART: keys, bytes to send, and whether it
                                   \* has an interrupt to give because it has none
  pc,                              \* of the processes and of the handler
  key, echo,                       \* consoleintr()'s c, and what it has to echo
  want, got, left,                 \* the arguments and results of read() and write()
  killed,
  keys, reads, ask, kills,         \* what may still be typed, read, written, killed
  bytes                            \* numbers the bytes written

consvars == <<conslock, buf, r, w, e>>
txvars == <<txlock, txbuf, tx_w, tx_r>>
callvars == <<want, got, left, killed>>
bounds == <<keys, reads, ask, bytes, kills>>
vars == <<consvars, txvars, rx, thr, thre, pc, key, echo, callvars, bounds>>

Caller == Reader \union Writer
Intr == "intr"
Key == Letter \union {"nl", "^D", "^H", "^U"}

\* consoleinit() and uartinit(), after as many keys as Start says.
Init ==
  /\ conslock = None /\ buf = [i \in 0 .. INPUT_BUF_SIZE - 1 |-> None]
  /\ r \in Start /\ w = r /\ e = r
  /\ txlock = None /\ txbuf = [i \in 0 .. UART_TX_BUF_SIZE - 1 |-> 0] /\ tx_w = 0 /\ tx_r = 0
  /\ rx = <<>> /\ thr = <<>> /\ thre = FALSE
  /\ pc = [x \in Caller \union {Intr} |-> "idle"]
  /\ key = None /\ echo = 0
  /\ want = [p \in Reader |-> 0] /\ got = [p \in Reader |-> <<>>] /\ left = [p \in Writer |-> 0]
  /\ killed = {}
  /\ \E l \in Loads : keys = l.keys /\ reads = l.reads /\ ask = l.bytes /\ kills = l.kills
  /\ bytes = 0

Goto(x, l) == pc' = [pc EXCEPT ![x] = l]
Uint(n) == n % UINT32
Slot(n) == n % INPUT_BUF_SIZE
\* wakeup(), in an assignment to pc: those at l go on at m.
Awake(pcs, l, m) == [x \in DOMAIN pcs |-> IF pcs[x] = l THEN m ELSE pcs[x]]

----------------------------------------------------------------------------
(***************************************************************************)
(* The UART                                                                *)
(***************************************************************************)
Type == /\ keys > 0 /\ keys' = keys - 1
        /\ \E c \in Key : rx' = Append(rx, c)
        /\ UNCHANGED <<consvars, txvars, thr, thre, pc, key, echo, callvars, reads, ask, bytes, kills>>

Send == /\ thr # <<>> /\ thr' = Tail(thr) /\ thre' = (Len(thr) = 1)
        /\ UNCHANGED <<consvars, txvars, rx, pc, key, echo, callvars, bounds>>

\* WriteReg(THR, c)
WriteTHR(c) == thr' = Append(thr, c) /\ thre' = FALSE

----------------------------------------------------------------------------
(***************************************************************************)
(* uartintr()                                                              *)
(***************************************************************************)
Claim ==
  /\ pc[Intr] = "idle" /\ (rx # <<>> \/ thre)
  /\ Goto(Intr, "uartgetc")
  /\ UNCHANGED <<consvars, txvars, rx, thr, thre, key, echo, callvars, bounds>>

\* uartgetc(), and consoleintr()'s acquire().
UartGetc ==
  /\ pc[Intr] = "uartgetc" /\ rx # <<>> /\ conslock = None
  /\ key' = Head(rx) /\ rx' = Tail(rx)
  /\ conslock' = Intr /\ Goto(Intr, "consoleintr")
  /\ UNCHANGED <<buf, r, w, e, txvars, thr, thre, echo, callvars, bounds>>

UartGetcNone ==
  /\ pc[Intr] = "uartgetc" /\ rx = <<>> /\ txlock = None
  /\ txlock' = Intr /\ Goto(Intr, "uartstart")
  /\ UNCHANGED <<consvars, txbuf, tx_w, tx_r, rx, thr, thre, key, echo, callvars, bounds>>

\* consoleintr(): ^U takes all back to w (a newline is never behind w), ^H one.
Erased == IF e = w \/ key \notin {"^H", "^U"} THEN 0 ELSE IF key = "^H" THEN 1 ELSE Uint(e - w)

ConsoleErase ==
  /\ pc[Intr] = "consoleintr" /\ key \in {"^H", "^U"}
  /\ e' = Uint(e - Erased)
  /\ echo' = Erased /\ Goto(Intr, "echo")
  /\ UNCHANGED <<conslock, buf, r, w, txvars, rx, thr, thre, key, callvars, bounds>>

Full == Uint(e - r) >= INPUT_BUF_SIZE
Finishes == key \in {"nl", "^D"} \/ Uint(e + 1 - r) = INPUT_BUF_SIZE

ConsoleStore ==
  /\ pc[Intr] = "consoleintr" /\ key \notin {"^H", "^U"} /\ ~Full
  /\ buf' = [buf EXCEPT ![Slot(e)] = key]
  /\ e' = Uint(e + 1)
  /\ w' = IF Finishes THEN e' ELSE w
  /\ pc' = [IF Finishes THEN Awake(pc, "read-sleep", "consoleread") ELSE pc EXCEPT ![Intr] = "echo"]
  /\ echo' = 1
  /\ UNCHANGED <<conslock, r, txvars, rx, thr, thre, key, callvars, bounds>>

ConsoleFull ==
  /\ pc[Intr] = "consoleintr" /\ key \notin {"^H", "^U"} /\ Full
  /\ Goto(Intr, "echo")
  /\ UNCHANGED <<consvars, txvars, rx, thr, thre, key, echo, callvars, bounds>>

\* (0 is an echoed byte.)
\* uartputc_sync(), for each character of the echo (the three of a BACKSPACE
\* count as one): it waits for an empty transmit register.
EchoWait ==
  /\ pc[Intr] = "echo" /\ echo > 0 /\ thr = <<>>
  /\ Goto(Intr, "echo-put")
  /\ UNCHANGED <<consvars, txvars, rx, thr, thre, key, echo, callvars, bounds>>

EchoPut ==
  /\ pc[Intr] = "echo-put"
  /\ WriteTHR(0) /\ echo' = echo - 1 /\ Goto(Intr, "echo")
  /\ UNCHANGED <<consvars, txvars, rx, key, callvars, bounds>>

\* release(), and back to the loop of uartintr().
EchoDone ==
  /\ pc[Intr] = "echo" /\ echo = 0
  /\ conslock' = None /\ key' = None /\ Goto(Intr, "uartgetc")
  /\ UNCHANGED <<buf, r, w, e, txvars, rx, thr, thre, echo, callvars, bounds>>

----------------------------------------------------------------------------
(***************************************************************************)
(* uartstart(), of the handler or of a writer x: it ends when the ring is  *)
(* empty (and reads the ISR, which takes the interrupt back) or when the   *)
(* UART is busy; x then releases uart_tx_lock.                             *)
(***************************************************************************)
UartStart(x) ==
  LET c == txbuf[tx_r % UART_TX_BUF_SIZE]
  IN  /\ pc[x] = "uartstart" /\ tx_w # tx_r /\ thr = <<>>
      /\ tx_r' = tx_r + 1
      /\ pc' = [Awake(pc, "write-sleep", "uartputc") EXCEPT ![x] = "uart-put"]
      /\ UNCHANGED <<consvars, txlock, txbuf, tx_w, rx, thr, thre, key, echo, callvars, bounds>>

UartPut(x) ==
  /\ pc[x] = "uart-put"
  /\ WriteTHR(txbuf[(tx_r - 1) % UART_TX_BUF_SIZE]) /\ Goto(x, "uartstart")
  /\ UNCHANGED <<consvars, txvars, rx, key, echo, callvars, bounds>>

UartStartEnd(x) ==
  /\ pc[x] = "uartstart" /\ (tx_w = tx_r \/ thr # <<>>)
  /\ thre' = (thre /\ tx_w # tx_r)
  /\ txlock' = None /\ Goto(x, IF x = Intr THEN "idle" ELSE "consolewrite")
  /\ UNCHANGED <<consvars, txbuf, tx_w, tx_r, rx, thr, key, echo, callvars, bounds>>

----------------------------------------------------------------------------
(***************************************************************************)
(* consolewrite() and uartputc()                                           *)
(***************************************************************************)
Write(p) ==
  /\ pc[p] = "idle"
  /\ \E n \in 1 .. ask : ask' = ask - n /\ left' = [left EXCEPT ![p] = n]
  /\ Goto(p, "consolewrite")
  /\ UNCHANGED <<consvars, txvars, rx, thr, thre, key, echo, want, got, killed, keys, reads,
                 bytes, kills>>

\* either_copyin() of the next byte may fail.
WriteNext(p) ==
  /\ pc[p] = "consolewrite" /\ left[p] > 0
  /\ left' = [left EXCEPT ![p] = @ - 1] /\ Goto(p, "uartputc")
  /\ UNCHANGED <<consvars, txvars, rx, thr, thre, key, echo, want, got, killed, bounds>>

WriteEnd(p) ==
  /\ pc[p] = "consolewrite"
  /\ left' = [left EXCEPT ![p] = 0] /\ Goto(p, "idle")
  /\ UNCHANGED <<consvars, txvars, rx, thr, thre, key, echo, want, got, killed, bounds>>

TxFull == tx_w = tx_r + UART_TX_BUF_SIZE

\* A byte of the model is the number of its turn.
UartPutcFull(p) ==
  /\ pc[p] = "uartputc" /\ txlock = None /\ TxFull
  /\ Goto(p, "write-sleep")
  /\ UNCHANGED <<consvars, txvars, rx, thr, thre, key, echo, callvars, bounds>>

UartPutc_AfterSleep(p) ==
  /\ pc[p] = "uartputc" /\ txlock = None /\ (tx_w <= tx_r + UART_TX_BUF_SIZE)
  /\ txbuf' = [txbuf EXCEPT ![tx_w % UART_TX_BUF_SIZE] = bytes + 1]
  /\ tx_w' = tx_w + 1 /\ bytes' = bytes + 1
  /\ txlock' = p /\ Goto(p, "uartstart")
  /\ UNCHANGED <<consvars, tx_r, rx, thr, thre, key, echo, callvars, keys, reads, ask,
                 kills>>
UartPutc(p) ==
  /\ pc[p] = "uartputc" /\ txlock = None /\ ~TxFull
  /\ txbuf' = [txbuf EXCEPT ![tx_w % UART_TX_BUF_SIZE] = bytes + 1]
  /\ tx_w' = tx_w + 1 /\ bytes' = bytes + 1
  /\ txlock' = p /\ Goto(p, "uartstart")
  /\ UNCHANGED <<consvars, tx_r, rx, thr, thre, key, echo, callvars, keys, reads, ask,
                 kills>>

----------------------------------------------------------------------------
(***************************************************************************)
(* consoleread()                                                           *)
(***************************************************************************)
Read(p) ==
  /\ pc[p] = "idle" /\ p \notin killed /\ reads > 0 /\ reads' = reads - 1
  /\ \E n \in Counts : want' = [want EXCEPT ![p] = n]
  /\ got' = [got EXCEPT ![p] = <<>>]
  /\ Goto(p, "consoleread")
  /\ UNCHANGED <<consvars, txvars, rx, thr, thre, key, echo, left, killed, keys, ask,
                 bytes, kills>>

\* acquire(), also after sleep().
ReadLock(p) ==
  /\ pc[p] = "consoleread" /\ conslock = None
  /\ conslock' = p /\ Goto(p, "read")
  /\ UNCHANGED <<buf, r, w, e, txvars, rx, thr, thre, key, echo, callvars, bounds>>

\* killed(), and then sleep(): a kill() in between is not noticed.
ReadEmpty(p) ==
  /\ pc[p] = "read" /\ r = w /\ p \notin killed
  /\ Goto(p, "read-empty")
  /\ UNCHANGED <<consvars, txvars, rx, thr, thre, key, echo, callvars, bounds>>

ReadSleep(p) ==
  /\ pc[p] = "read-empty"
  /\ conslock' = None /\ Goto(p, "read-sleep")
  /\ UNCHANGED <<buf, r, w, e, txvars, rx, thr, thre, key, echo, callvars, bounds>>

\* The call ends and the lock is released.
ReadEnd(p) == conslock' = None /\ Goto(p, "idle") /\ want' = [want EXCEPT ![p] = 0]

ReadKilled(p) ==
  /\ pc[p] = "read" /\ r = w /\ p \in killed
  /\ ReadEnd(p)
  /\ UNCHANGED <<buf, r, w, e, txvars, rx, thr, thre, key, echo, got, left, killed, bounds>>

ReadEof_Consumes(p) ==
  /\ pc[p] = "read" /\ r # w /\ buf[Slot(r)] = "^D"
  /\ r' = Uint(r + 1)
  /\ ReadEnd(p)
  /\ UNCHANGED <<buf, w, e, txvars, rx, thr, thre, key, echo, got, left, killed, bounds>>
ReadEof(p) ==
  /\ pc[p] = "read" /\ r # w /\ buf[Slot(r)] = "^D"
  /\ r' = IF got[p] = <<>> THEN Uint(r + 1) ELSE r
  /\ ReadEnd(p)
  /\ UNCHANGED <<buf, w, e, txvars, rx, thr, thre, key, echo, got, left, killed, bounds>>

ReadByte(p) ==
  LET c == buf[Slot(r)]
  IN  /\ pc[p] = "read" /\ r # w /\ c # "^D"
      /\ r' = Uint(r + 1)
      /\ got' = [got EXCEPT ![p] = Append(@, c)]
      /\ IF c = "nl" \/ want[p] = 1 THEN ReadEnd(p)
         ELSE want' = [want EXCEPT ![p] = @ - 1] /\ UNCHANGED <<conslock, pc>>
      /\ UNCHANGED <<buf, w, e, txvars, rx, thr, thre, key, echo, left, killed, bounds>>

\* either_copyout() fails.
ReadBad(p) ==
  /\ pc[p] = "read" /\ r # w /\ buf[Slot(r)] # "^D"
  /\ r' = Uint(r + 1)
  /\ ReadEnd(p)
  /\ UNCHANGED <<buf, w, e, txvars, rx, thr, thre, key, echo, got, left, killed, bounds>>

Kill(p) ==
  /\ kills > 0 /\ kills' = kills - 1
  /\ killed' = killed \union {p}
  /\ pc' = [pc EXCEPT ![p] = IF @ = "read-sleep" THEN "consoleread" ELSE @]
  /\ UNCHANGED <<consvars, txvars, rx, thr, thre, key, echo, want, got, left, keys, reads, ask,
                 bytes>>

----------------------------------------------------------------------------
Handler == \/ Claim \/ UartGetc \/ UartGetcNone \/ ConsoleErase \/ ConsoleStore \/ ConsoleFull
           \/ EchoWait \/ EchoPut \/ EchoDone \/ UartStart(Intr) \/ UartPut(Intr)
           \/ UartStartEnd(Intr)
Writing(p) == \/ WriteNext(p) \/ UartPutcFull(p) \/ UartPutc(p) \/ UartStart(p) \/ UartPut(p)
              \/ UartStartEnd(p) \/ WriteEnd(p)
Reading(p) == \/ ReadLock(p) \/ ReadEmpty(p) \/ ReadSleep(p) \/ ReadKilled(p) \/ ReadEof(p)
              \/ ReadByte(p) \/ ReadBad(p)

Next == \/ Type \/ Send \/ Handler
        \/ \E p \in Writer : Write(p) \/ Writing(p)
        \/ \E p \in Reader : Read(p) \/ Reading(p) \/ Kill(p)

\* The UART sends, an interrupt is handled, and processes run.
Fairness == /\ WF_vars(Send) /\ WF_vars(Handler)
            /\ \A p \in Writer : WF_vars(Writing(p))
            /\ \A p \in Reader : WF_vars(Reading(p))

Spec == Init /\ [][Next]_vars /\ Fairness

----------------------------------------------------------------------------
(***************************************************************************)
(* Properties                                                              *)
(***************************************************************************)

\* What cons.buf holds from index i on, n bytes.
Held(i, n) == [k \in 1 .. n |-> buf[Slot(i + k - 1)]]

\* consoleintr(), consoleread(): with indices that wrap, a ring that may be
\* full, and a ^D that is put back, the console implements Tty.
T == INSTANCE Tty WITH Proc <- Reader, Room <- INPUT_BUF_SIZE,
                       lines <- Held(r, Uint(w - r)), edit <- Held(w, Uint(e - w))
ImplementsTty == T!Spec

\* uartputc(), uartstart(): the ring holds exactly the bytes that were put and
\* not sent, in order, and the UART is never given more bytes than it has room
\* for, though echoes go past uart_tx_lock.
TxExact ==
  /\ tx_w - tx_r \in 0 .. UART_TX_BUF_SIZE /\ tx_w = bytes
  /\ \A k \in tx_r .. tx_w - 1 : txbuf[k % UART_TX_BUF_SIZE] = k + 1
  /\ Len(thr) <= FIFO
  /\ \A k \in 1 .. Len(thr) : thr[k] <= tx_r

\* Again and again all output is sent, nobody waits to write, and a reader
\* waits only if there is no finished line (as nobody writes for ever).
EverybodyServed ==
  []<>(/\ tx_w = tx_r /\ thr = <<>>
       /\ \A p \in Writer : pc[p] = "idle"
       /\ \A p \in Reader : pc[p] = "idle" \/ (pc[p] = "read-sleep" /\ r = w))
=============================================================================
