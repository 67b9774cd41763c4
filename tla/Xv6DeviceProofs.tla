--------------------------- MODULE Xv6DeviceProofs --------------------------
(***************************************************************************)
(* Proofs about Xv6Console (C of MCXv6Devices), its transmit ring and its  *)
(* input, and about Xv6Disk, the buffer cache, the rings of the virtio     *)
(* disk and the refinement of BlockStore, for any number of processes,     *)
(* buffers, blocks and descriptors and any sizes of the rings.             *)
(***************************************************************************)
EXTENDS MCXv6Devices, FiniteSetTheorems, SequenceTheorems, WellFoundedInduction, TLAPS

----------------------------------------------------------------------------
(***************************************************************************)
(* The transmit ring of the UART                                           *)
(***************************************************************************)
Actors == Reader \union Writer \union {"intr"}
Labels == {"idle", "uartgetc", "consoleintr", "echo", "echo-put", "uartstart", "uart-put",
           "consolewrite", "uartputc", "write-sleep", "consoleread", "read", "read-empty",
           "read-sleep"}

\* The places under uart_tx_lock, where a byte has been taken and is about to be
\* written, and where an echo is about to be written without the lock.
TxPlaces == {"uartstart", "uart-put"}
TxSlot(k) == k % UART_TX_BUF_SIZE

Echoing == IF cpc["intr"] = "echo-put" THEN 1 ELSE 0
Putting == IF \E x \in Actors : cpc[x] = "uart-put" THEN 1 ELSE 0

TxType ==
  /\ tx_r \in Nat /\ tx_w \in Nat /\ bytes = tx_w /\ tx_w - tx_r \in 0 .. UART_TX_BUF_SIZE
  /\ txbuf \in [0 .. UART_TX_BUF_SIZE - 1 -> Nat] /\ thr \in Seq(Nat)
  /\ cpc \in [Actors -> Labels]

TxInv ==
  /\ TxType
  /\ \A x \in Actors : cpc[x] \in TxPlaces => txlock = x
  /\ \A k \in tx_r .. tx_w - 1 : txbuf[TxSlot(k)] = k + 1
  /\ \A x \in Actors : cpc[x] = "uart-put" => tx_r > 0 /\ txbuf[TxSlot(tx_r - 1)] = tx_r
  /\ Len(thr) + Echoing + Putting <= 2
  /\ \A k \in 1 .. Len(thr) : thr[k] <= tx_r

\* What is assumed of the constants.
LEMMA TxConstants ==
  /\ UART_TX_BUF_SIZE \in Nat \ {0} /\ FIFO \in Nat /\ FIFO >= 2
  /\ None \notin Actors /\ "intr" \in Actors /\ Writer \subseteq Actors /\ Reader \subseteq Actors
  BY ConsoleAssumption DEF C!ConsoleAssumption, Actors

\* Two bytes less than a ring apart have different slots.
SlotIn(k, n) == k % n
LEMMA SlotsDistinct ==
  ASSUME NEW n \in Nat \ {0}, NEW a \in Nat, NEW b \in Nat, a < b, b < a + n
  PROVE  SlotIn(a, n) \in 0 .. n - 1 /\ SlotIn(b, n) \in 0 .. n - 1 /\ SlotIn(a, n) # SlotIn(b, n)
<1> DEFINE i == a % n
           c == a \div n
           j == b % n
           d == b \div n
<1>1. i \in 0 .. n - 1 /\ c \in Int /\ a = n * c + i
  OBVIOUS
<1>2. j \in 0 .. n - 1 /\ d \in Int /\ b = n * d + j
  OBVIOUS
<1> HIDE DEF i, c, j, d
<1>3. ASSUME i = j PROVE FALSE
  <2>1. PICK f \in Int : f = d - c /\ b - a = n * f
    BY <1>1, <1>2, <1>3
  <2>2. CASE f <= 0
    BY <2>1, <2>2
  <2>3. CASE f >= 1
    BY <2>1, <2>3
  <2> QED
    BY <2>1, <2>2, <2>3
<1> QED
  BY <1>1, <1>2, <1>3 DEF SlotIn, i, j

\* The same of the transmit ring.
LEMMA TxSlotDistinct ==
  ASSUME NEW a \in Nat, NEW b \in Nat, a < b, b < a + UART_TX_BUF_SIZE
  PROVE  /\ TxSlot(a) \in 0 .. UART_TX_BUF_SIZE - 1 /\ TxSlot(b) \in 0 .. UART_TX_BUF_SIZE - 1
         /\ TxSlot(a) # TxSlot(b)
  BY TxConstants, SlotsDistinct DEF TxSlot, SlotIn

\* An actor goes on at l.
LEMMA Moves ==
  ASSUME cpc \in [Actors -> Labels], NEW p \in Actors, NEW l \in Labels,
         cpc' = [cpc EXCEPT ![p] = l]
  PROVE  cpc' \in [Actors -> Labels] /\ cpc'[p] = l /\ \A x \in Actors : x # p => cpc'[x] = cpc[x]
  OBVIOUS

\* A step that leaves the transmit side alone.
LEMMA TxFrame ==
  ASSUME TxInv, UNCHANGED <<txlock, txbuf, tx_w, tx_r, thr, bytes>>,
         cpc' \in [Actors -> Labels],
         \A x \in Actors : cpc'[x] \in TxPlaces \union {"echo-put"} => cpc'[x] = cpc[x]
  PROVE  TxInv'
<1>1. TxType'
  BY DEF TxInv, TxType
<1>2. Echoing' <= Echoing /\ Putting' <= Putting
      /\ Echoing \in Nat /\ Putting \in Nat /\ Echoing' \in Nat /\ Putting' \in Nat
  BY TxConstants DEF Echoing, Putting, TxPlaces
<1>3. Len(thr) \in Nat
  BY DEF TxInv, TxType
<1>4. Len(thr') + Echoing' + Putting' <= 2
  BY <1>2, <1>3 DEF TxInv
<1> QED
  BY <1>1, <1>4, TxConstants DEF TxInv, TxPlaces

\* The UART sends a byte.
LEMMA SendTx == ASSUME TxInv, C!Send PROVE TxInv'
<1>1. /\ thr # <<>> /\ thr' = Tail(thr) /\ thr \in Seq(Nat)
      /\ UNCHANGED <<txlock, txbuf, tx_w, tx_r, bytes, cpc>>
  BY DEF C!Send, C!txvars, C!bounds, TxInv, TxType
<1>2. thr' \in Seq(Nat) /\ Len(thr') = Len(thr) - 1 /\ Len(thr) \in Nat
      /\ \A k \in 1 .. Len(thr') : thr'[k] = thr[k + 1]
  BY <1>1
<1>3. TxType'
  BY <1>1, <1>2 DEF TxInv, TxType
<1>4. Echoing' = Echoing /\ Putting' = Putting /\ Echoing \in Nat /\ Putting \in Nat
  BY <1>1 DEF Echoing, Putting
<1>5. Len(thr') + Echoing' + Putting' <= 2
  BY <1>2, <1>4 DEF TxInv
<1>6. \A k \in 1 .. Len(thr') : thr'[k] <= tx_r'
  BY <1>1, <1>2 DEF TxInv
<1> QED
  BY <1>1, <1>3, <1>5, <1>6 DEF TxInv

\* A byte goes into the transmit register: c is at most tx_r, and the byte was
\* counted as about to be written.
LEMMA WriteTx ==
  ASSUME TxInv, NEW c \in Nat, c <= tx_r, C!WriteTHR(c),
         UNCHANGED <<txlock, txbuf, tx_w, tx_r, bytes>>, cpc' \in [Actors -> Labels],
         \A x \in Actors : cpc'[x] = "uart-put" => cpc[x] = "uart-put",
         \A x \in Actors : cpc'[x] \in TxPlaces => cpc[x] \in TxPlaces,
         Echoing' + Putting' + 1 <= Echoing + Putting
  PROVE  TxInv'
<1>1. thr' = Append(thr, c) /\ thr \in Seq(Nat) /\ tx_r \in Nat
  BY DEF C!WriteTHR, TxInv, TxType
<1>2. /\ thr' \in Seq(Nat) /\ Len(thr') = Len(thr) + 1 /\ Len(thr) \in Nat
      /\ \A k \in 1 .. Len(thr') : thr'[k] = IF k <= Len(thr) THEN thr[k] ELSE c
  BY <1>1
<1>3. TxType'
  BY <1>2 DEF TxInv, TxType
<1>4. Echoing \in Nat /\ Putting \in Nat /\ Echoing' \in Nat /\ Putting' \in Nat
  BY DEF Echoing, Putting
<1>5. Len(thr') + Echoing' + Putting' <= 2
  <2>1. PICK i, j, m, n \in Nat : i = Echoing /\ j = Putting /\ m = Echoing' /\ n = Putting'
    BY <1>4
  <2>2. Len(thr) + i + j <= 2 /\ m + n + 1 <= i + j
    BY <2>1 DEF TxInv
  <2>3. Len(thr') + m + n <= 2
    BY <1>2, <2>2
  <2> QED
    BY <2>1, <2>3
<1>6. \A k \in 1 .. Len(thr') : thr'[k] <= tx_r'
  BY <1>2 DEF TxInv
<1> QED
  BY <1>3, <1>5, <1>6 DEF TxInv

\* consoleintr() and uartputc_sync().
LEMMA EchoTx == ASSUME TxInv, C!EchoWait \/ C!EchoPut PROVE TxInv'
<1>0. /\ cpc \in [Actors -> Labels] /\ "intr" \in Actors /\ thr \in Seq(Nat)
      /\ UNCHANGED <<txlock, txbuf, tx_w, tx_r, bytes>>
  BY TxConstants DEF TxInv, TxType, C!EchoWait, C!EchoPut, C!txvars, C!bounds
<1>1. CASE C!EchoWait
  <2>1. thr = <<>> /\ thr' = thr /\ cpc' = [cpc EXCEPT !["intr"] = "echo-put"]
    BY <1>1 DEF C!EchoWait, C!Goto, C!Intr
  <2>2. /\ cpc' \in [Actors -> Labels]
        /\ \A x \in Actors : cpc'[x] \in TxPlaces => cpc'[x] = cpc[x]
    <3>1. "echo-put" \in Labels
      BY DEF Labels
    <3> QED
      BY <1>0, <2>1, <3>1, Moves DEF TxPlaces
  <2>3. Len(thr') = 0 /\ Echoing' <= 1 /\ Putting' <= 1 /\ Echoing' \in Nat /\ Putting' \in Nat
    BY <2>1 DEF Echoing, Putting
  <2>4. Len(thr') + Echoing' + Putting' <= 2
    <3>1. PICK i, j \in 0 .. 1 : i = Echoing' /\ j = Putting'
      BY <2>3
    <3>2. Len(thr') + i + j <= 2
      BY <2>3
    <3> QED
      BY <3>1, <3>2
  <2> QED
    BY <1>0, <2>1, <2>2, <2>4 DEF TxInv, TxType, TxPlaces
<1>2. CASE C!EchoPut
  <2>1. C!WriteTHR(0) /\ cpc["intr"] = "echo-put" /\ cpc' = [cpc EXCEPT !["intr"] = "echo"]
    BY <1>2 DEF C!EchoPut, C!Goto, C!Intr
  <2>2. /\ cpc' \in [Actors -> Labels] /\ cpc'["intr"] = "echo"
        /\ \A x \in Actors : x # "intr" => cpc'[x] = cpc[x]
    <3>1. "echo" \in Labels
      BY DEF Labels
    <3> QED
      BY <1>0, <2>1, <3>1, Moves
  <2>3. /\ \A x \in Actors : cpc'[x] = "uart-put" => cpc[x] = "uart-put"
        /\ \A x \in Actors : cpc'[x] \in TxPlaces => cpc[x] \in TxPlaces
    BY <2>2 DEF TxPlaces
  <2>4. Echoing = 1 /\ Echoing' = 0 /\ Putting' = Putting /\ Putting \in Nat
    BY <2>1, <2>2 DEF Echoing, Putting
  <2>5. 0 \in Nat /\ 0 <= tx_r
    BY DEF TxInv, TxType
  <2>6. Echoing' + Putting' + 1 <= Echoing + Putting
    BY <2>4
  <2> QED
    BY <1>0, <2>1, <2>2, <2>3, <2>5, <2>6, WriteTx
<1> QED
  BY <1>1, <1>2

\* Whoever is under uart_tx_lock is there alone.
LEMMA TxAlone ==
  ASSUME TxInv, NEW x \in Actors, cpc[x] \in TxPlaces
  PROVE  \A y \in Actors : y # x => cpc[y] \notin TxPlaces
  BY DEF TxInv

\* uartstart() takes a byte out of the ring.
LEMMA StartTx == ASSUME TxInv, NEW x \in Actors, C!UartStart(x) PROVE TxInv'
<1>1. /\ cpc[x] = "uartstart" /\ tx_w # tx_r /\ thr = <<>> /\ tx_r' = tx_r + 1
      /\ UNCHANGED <<txlock, txbuf, tx_w, bytes, thr>>
      /\ cpc' = [C!Awake(cpc, "write-sleep", "uartputc") EXCEPT ![x] = "uart-put"]
  BY DEF C!UartStart, C!bounds
<1>2. /\ tx_r \in Nat /\ tx_w \in Nat /\ bytes = tx_w /\ tx_w - tx_r \in 0 .. UART_TX_BUF_SIZE
      /\ cpc \in [Actors -> Labels]
  BY DEF TxInv, TxType
<1>3. /\ cpc' \in [Actors -> Labels] /\ cpc'[x] = "uart-put"
      /\ \A y \in Actors : y # x /\ cpc'[y] \in TxPlaces => cpc'[y] = cpc[y]
  <2>1. "uartputc" \in Labels /\ "uart-put" \in Labels
    BY DEF Labels
  <2>2. PICK q : q = C!Awake(cpc, "write-sleep", "uartputc")
    OBVIOUS
  <2>3. q \in [Actors -> Labels]
        /\ \A y \in Actors : q[y] = IF cpc[y] = "write-sleep" THEN "uartputc" ELSE cpc[y]
    BY <1>2, <2>1, <2>2 DEF C!Awake
  <2>4. cpc' = [q EXCEPT ![x] = "uart-put"]
    BY <1>1, <2>2
  <2>5. cpc' \in [Actors -> Labels] /\ cpc'[x] = "uart-put"
        /\ \A y \in Actors : y # x => cpc'[y] = q[y]
    BY <2>1, <2>3, <2>4
  <2> QED
    BY <2>3, <2>5 DEF TxPlaces
<1>4. \A y \in Actors : y # x => cpc'[y] \notin TxPlaces
  BY <1>1, <1>3, TxAlone DEF TxPlaces
<1>5. txlock' = x
  BY <1>1 DEF TxInv, TxPlaces
<1>6. TxType'
  BY <1>1, <1>2, <1>3, TxConstants DEF TxInv, TxType
<1>7. tx_r \in tx_r .. tx_w - 1 /\ txbuf[TxSlot(tx_r)] = tx_r + 1
  BY <1>1, <1>2, TxConstants DEF TxInv
<1>8. tx_r' > 0 /\ txbuf'[TxSlot(tx_r' - 1)] = tx_r'
  BY <1>1, <1>2, <1>7
<1>9. \A k \in tx_r' .. tx_w' - 1 : txbuf'[TxSlot(k)] = k + 1
  BY <1>1, <1>2 DEF TxInv
<1>10. Len(thr') + Echoing' + Putting' <= 2
  <2>1. PICK i, j \in 0 .. 1 : i = Echoing' /\ j = Putting'
    BY DEF Echoing, Putting
  <2>2. Len(thr') = 0
    BY <1>1
  <2>3. Len(thr') + i + j <= 2
    BY <2>2
  <2> QED
    BY <2>1, <2>3
<1>11. \A k \in 1 .. Len(thr') : thr'[k] <= tx_r'
  BY <1>1
<1>12. \A y \in Actors : cpc'[y] \in TxPlaces => txlock' = y
  BY <1>4, <1>5
<1>13. \A y \in Actors : cpc'[y] = "uart-put" => tx_r' > 0 /\ txbuf'[TxSlot(tx_r' - 1)] = tx_r'
  BY <1>8
<1> QED
  BY <1>6, <1>9, <1>10, <1>11, <1>12, <1>13 DEF TxInv

\* uartstart() writes it to the transmit register.
LEMMA PutTx == ASSUME TxInv, NEW x \in Actors, C!UartPut(x) PROVE TxInv'
<1>1. /\ cpc[x] = "uart-put" /\ C!WriteTHR(txbuf[TxSlot(tx_r - 1)])
      /\ UNCHANGED <<txlock, txbuf, tx_w, tx_r, bytes>>
      /\ cpc' = [cpc EXCEPT ![x] = "uartstart"] /\ "uartstart" \in Labels
  BY DEF C!UartPut, C!txvars, C!bounds, C!Goto, TxSlot, Labels
<1>2. cpc \in [Actors -> Labels] /\ tx_r \in Nat
  BY DEF TxInv, TxType
<1>3. /\ cpc' \in [Actors -> Labels] /\ cpc'[x] = "uartstart"
      /\ \A y \in Actors : y # x => cpc'[y] = cpc[y]
  BY <1>1, <1>2, Moves
<1>4. \A y \in Actors : y # x => cpc[y] \notin TxPlaces
  BY <1>1, TxAlone DEF TxPlaces
<1>5. C!WriteTHR(tx_r)
  <2>1. txbuf[TxSlot(tx_r - 1)] = tx_r
    BY <1>1 DEF TxInv
  <2> QED
    BY <1>1, <2>1
<1>6. Putting = 1 /\ Putting' = 0
  BY <1>1, <1>3, <1>4 DEF Putting, TxPlaces
<1>7. Echoing' = Echoing /\ Echoing \in Nat
  BY <1>1, <1>3, TxConstants DEF Echoing
<1>8. Echoing' + Putting' + 1 <= Echoing + Putting
  BY <1>6, <1>7
<1>9. /\ \A y \in Actors : cpc'[y] = "uart-put" => cpc[y] = "uart-put"
      /\ \A y \in Actors : cpc'[y] \in TxPlaces => cpc[y] \in TxPlaces
  BY <1>1, <1>3 DEF TxPlaces
<1>10. tx_r <= tx_r
  BY <1>2
<1> QED
  BY <1>1, <1>2, <1>3, <1>5, <1>8, <1>9, <1>10, WriteTx

\* A step that takes or releases uart_tx_lock, when nobody else is under it.
LEMMA LockTx ==
  ASSUME TxInv, UNCHANGED <<txbuf, tx_w, tx_r, thr, bytes>>, cpc' \in [Actors -> Labels],
         \A y \in Actors : cpc'[y] \in TxPlaces => txlock' = y /\ cpc'[y] = "uartstart",
         Echoing' = Echoing
  PROVE  TxInv'
<1>1. TxType'
  BY DEF TxInv, TxType
<1>2. Putting' = 0 /\ Putting \in Nat /\ Echoing \in Nat /\ Len(thr) \in Nat
  BY DEF Putting, Echoing, TxPlaces, TxInv, TxType
<1>3. Len(thr') + Echoing' + Putting' <= 2
  <2>1. PICK i, j \in Nat : i = Echoing /\ j = Putting
    BY <1>2
  <2>2. Len(thr) + i + j <= 2
    BY <2>1 DEF TxInv
  <2>3. Len(thr) + i + 0 <= 2
    BY <1>2, <2>2
  <2> QED
    BY <1>2, <2>1, <2>3
<1>4. \A y \in Actors : cpc'[y] = "uart-put" => FALSE
  BY DEF TxPlaces
<1> QED
  BY <1>1, <1>3, <1>4 DEF TxInv

\* uartintr() calls uartstart() when there are no more keys.
LEMMA GetcNoneTx == ASSUME TxInv, C!UartGetcNone PROVE TxInv'
<1>1. /\ cpc["intr"] = "uartgetc" /\ txlock = None /\ txlock' = "intr"
      /\ UNCHANGED <<txbuf, tx_w, tx_r, thr, bytes>>
      /\ cpc' = [cpc EXCEPT !["intr"] = "uartstart"] /\ "uartstart" \in Labels
      /\ "intr" \in Actors /\ None \notin Actors
  BY TxConstants DEF C!UartGetcNone, C!bounds, C!Goto, C!Intr, Labels
<1>2. cpc \in [Actors -> Labels] /\ \A y \in Actors : cpc[y] \notin TxPlaces
  BY <1>1 DEF TxInv, TxType
<1>3. /\ cpc' \in [Actors -> Labels] /\ cpc'["intr"] = "uartstart"
      /\ \A y \in Actors : y # "intr" => cpc'[y] = cpc[y]
  BY <1>1, <1>2, Moves
<1>4. \A y \in Actors : cpc'[y] \in TxPlaces => txlock' = y /\ cpc'[y] = "uartstart"
  BY <1>1, <1>2, <1>3
<1>5. Echoing' = Echoing
  BY <1>1, <1>3 DEF Echoing
<1> QED
  BY <1>1, <1>3, <1>4, <1>5, LockTx

\* uartstart() ends.
LEMMA StartEndTx == ASSUME TxInv, NEW x \in Actors, C!UartStartEnd(x) PROVE TxInv'
<1>1. PICK l : /\ l \in {"idle", "consolewrite"} /\ cpc[x] = "uartstart"
               /\ UNCHANGED <<txbuf, tx_w, tx_r, thr, bytes>>
               /\ cpc' = [cpc EXCEPT ![x] = l]
  BY DEF C!UartStartEnd, C!bounds, C!Goto
<1>2. cpc \in [Actors -> Labels] /\ l \in Labels
  BY <1>1 DEF TxInv, TxType, Labels
<1>3. \A y \in Actors : y # x => cpc[y] \notin TxPlaces
  BY <1>1, TxAlone DEF TxPlaces
<1>4. /\ cpc' \in [Actors -> Labels] /\ cpc'[x] = l
      /\ \A y \in Actors : y # x => cpc'[y] = cpc[y]
  BY <1>1, <1>2, Moves
<1>5. \A y \in Actors : cpc'[y] \in TxPlaces => txlock' = y /\ cpc'[y] = "uartstart"
  BY <1>1, <1>3, <1>4 DEF TxPlaces
<1>6. Echoing' = Echoing
  BY <1>1, <1>4, TxConstants DEF Echoing
<1> QED
  BY <1>1, <1>4, <1>5, <1>6, LockTx

\* uartputc() puts a byte into the ring.
LEMMA PutcTx == ASSUME TxInv, NEW p \in Writer, C!UartPutc(p) PROVE TxInv'
<1>1. /\ cpc[p] = "uartputc" /\ txlock = None /\ txlock' = p /\ tx_w # tx_r + UART_TX_BUF_SIZE
      /\ txbuf' = [txbuf EXCEPT ![TxSlot(tx_w)] = bytes + 1]
      /\ tx_w' = tx_w + 1 /\ bytes' = bytes + 1 /\ UNCHANGED <<tx_r, thr>>
      /\ cpc' = [cpc EXCEPT ![p] = "uartstart"] /\ "uartstart" \in Labels
      /\ p \in Actors /\ None \notin Actors
  BY TxConstants DEF C!UartPutc, C!TxFull, C!Goto, Labels, TxSlot
<1>2. /\ tx_r \in Nat /\ tx_w \in Nat /\ bytes = tx_w /\ tx_w - tx_r \in 0 .. UART_TX_BUF_SIZE
      /\ txbuf \in [0 .. UART_TX_BUF_SIZE - 1 -> Nat]
  BY DEF TxInv, TxType
<1>3. cpc \in [Actors -> Labels] /\ \A y \in Actors : cpc[y] \notin TxPlaces
  BY <1>1 DEF TxInv, TxType
<1>4. /\ cpc' \in [Actors -> Labels] /\ cpc'[p] = "uartstart"
      /\ \A y \in Actors : y # p => cpc'[y] = cpc[y]
  BY <1>1, <1>3, Moves
<1>5. TxSlot(tx_w) \in 0 .. UART_TX_BUF_SIZE - 1
  BY <1>2, TxConstants DEF TxSlot
<1>6. /\ tx_w < tx_r + UART_TX_BUF_SIZE /\ tx_w >= tx_r
      /\ txbuf' \in [0 .. UART_TX_BUF_SIZE - 1 -> Nat] /\ txbuf'[TxSlot(tx_w)] = tx_w + 1
  BY <1>1, <1>2, <1>5, TxConstants
<1>7. TxType'
  <2>1. tx_w' - tx_r' \in 0 .. UART_TX_BUF_SIZE /\ tx_w' \in Nat /\ bytes' = tx_w'
    BY <1>1, <1>2, <1>6, TxConstants
  <2> QED
    BY <1>1, <1>4, <1>6, <2>1 DEF TxInv, TxType
<1>8. ASSUME NEW k \in tx_r' .. tx_w' - 1 PROVE txbuf'[TxSlot(k)] = k + 1
  <2>1. k \in Nat /\ tx_r <= k /\ k <= tx_w
    BY <1>1, <1>2
  <2>2. CASE k = tx_w
    BY <1>6, <2>2
  <2>3. CASE k < tx_w
    <3>1. tx_w < k + UART_TX_BUF_SIZE /\ k \in tx_r .. tx_w - 1
      BY <1>2, <1>6, <2>1, <2>3, TxConstants
    <3>2. TxSlot(k) \in 0 .. UART_TX_BUF_SIZE - 1 /\ TxSlot(k) # TxSlot(tx_w)
      BY <1>2, <2>1, <2>3, <3>1, TxSlotDistinct
    <3>3. txbuf'[TxSlot(k)] = txbuf[TxSlot(k)]
      BY <1>1, <1>2, <3>2
    <3> QED
      BY <3>1, <3>3 DEF TxInv
  <2> QED
    BY <1>2, <2>1, <2>2, <2>3
<1>9. /\ \A y \in Actors : cpc'[y] \in TxPlaces => txlock' = y
      /\ \A y \in Actors : cpc'[y] # "uart-put"
  BY <1>1, <1>3, <1>4 DEF TxPlaces
<1>10. Len(thr') + Echoing' + Putting' <= 2
  <2>1. Echoing' = Echoing /\ Putting' = 0 /\ Putting = 0
    BY <1>1, <1>3, <1>4, <1>9, TxConstants DEF Echoing, Putting, TxPlaces
  <2>2. Len(thr) + Echoing + Putting <= 2
    BY DEF TxInv
  <2> QED
    BY <1>1, <2>1, <2>2
<1>11. \A k \in 1 .. Len(thr') : thr'[k] <= tx_r'
  BY <1>1 DEF TxInv
<1> QED
  BY <1>7, <1>8, <1>9, <1>10, <1>11 DEF TxInv

\* An actor goes on outside the transmit side.
LEMMA ElsewhereTx ==
  ASSUME TxInv, UNCHANGED <<txlock, txbuf, tx_w, tx_r, thr, bytes>>, NEW p \in Actors,
         NEW l \in Labels \ {"uartstart", "uart-put", "echo-put"},
         cpc' = [cpc EXCEPT ![p] = l]
  PROVE  TxInv'
<1>1. cpc \in [Actors -> Labels]
  BY DEF TxInv, TxType
<1>2. cpc' \in [Actors -> Labels] /\ cpc'[p] = l /\ \A x \in Actors : x # p => cpc'[x] = cpc[x]
  BY <1>1, Moves
<1> QED
  BY <1>2, TxFrame DEF TxPlaces

\* The rest of the interrupt handler.
LEMMA HandlerTx ==
  ASSUME TxInv, C!Claim \/ C!UartGetc \/ C!ConsoleErase \/ C!ConsoleFull \/ C!EchoDone
  PROVE  TxInv'
<1>1. /\ UNCHANGED <<txlock, txbuf, tx_w, tx_r, thr, bytes>>
      /\ \E l \in {"uartgetc", "consoleintr", "echo"} : cpc' = [cpc EXCEPT !["intr"] = l]
  BY DEF C!Claim, C!UartGetc, C!ConsoleErase, C!ConsoleFull, C!EchoDone, C!Goto, C!Intr,
         C!txvars, C!bounds
<1>2. PICK l \in {"uartgetc", "consoleintr", "echo"} : cpc' = [cpc EXCEPT !["intr"] = l]
  BY <1>1
<1>3. l \in Labels \ {"uartstart", "uart-put", "echo-put"} /\ "intr" \in Actors
  BY TxConstants DEF Labels
<1> QED
  BY <1>1, <1>2, <1>3, ElsewhereTx

\* consoleintr() stores a key, and may wake readers.
LEMMA StoreTx == ASSUME TxInv, C!ConsoleStore PROVE TxInv'
<1>1. /\ UNCHANGED <<txlock, txbuf, tx_w, tx_r, thr, bytes>>
      /\ cpc' = [IF C!Finishes THEN C!Awake(cpc, "read-sleep", "consoleread") ELSE cpc
                 EXCEPT !["intr"] = "echo"]
  BY DEF C!ConsoleStore, C!Intr, C!txvars, C!bounds
<1>2. cpc \in [Actors -> Labels] /\ "intr" \in Actors /\ "echo" \in Labels /\ "consoleread" \in Labels
  BY TxConstants DEF TxInv, TxType, Labels
<1>3. PICK q : q = IF C!Finishes THEN C!Awake(cpc, "read-sleep", "consoleread") ELSE cpc
  OBVIOUS
<1>4. q \in [Actors -> Labels] /\ \A x \in Actors : q[x] = cpc[x] \/ q[x] = "consoleread"
  BY <1>2, <1>3 DEF C!Awake
<1>5. cpc' = [q EXCEPT !["intr"] = "echo"]
  BY <1>1, <1>3
<1>6. /\ cpc' \in [Actors -> Labels] /\ cpc'["intr"] = "echo"
      /\ \A x \in Actors : x # "intr" => cpc'[x] = q[x]
  BY <1>2, <1>4, <1>5
<1>7. \A x \in Actors : cpc'[x] \in TxPlaces \union {"echo-put"} => cpc'[x] = cpc[x]
  BY <1>4, <1>6 DEF TxPlaces
<1> QED
  BY <1>1, <1>6, <1>7, TxFrame

\* What a writer does outside uart_tx_lock, and when the ring is full.
LEMMA WriterTx ==
  ASSUME TxInv, NEW p \in Writer,
         C!Write(p) \/ C!WriteNext(p) \/ C!WriteEnd(p) \/ C!UartPutcFull(p)
  PROVE  TxInv'
<1>1. /\ UNCHANGED <<txlock, txbuf, tx_w, tx_r, thr, bytes>>
      /\ \E l \in {"consolewrite", "uartputc", "idle", "write-sleep"} : cpc' = [cpc EXCEPT ![p] = l]
  BY DEF C!Write, C!WriteNext, C!WriteEnd, C!UartPutcFull, C!Goto, C!txvars, C!bounds
<1>2. PICK l \in {"consolewrite", "uartputc", "idle", "write-sleep"} : cpc' = [cpc EXCEPT ![p] = l]
  BY <1>1
<1>3. l \in Labels \ {"uartstart", "uart-put", "echo-put"} /\ p \in Actors
  BY TxConstants DEF Labels
<1> QED
  BY <1>1, <1>2, <1>3, ElsewhereTx

\* What a reader does.
LEMMA ReaderTx ==
  ASSUME TxInv, NEW p \in Reader, C!Read(p) \/ C!Reading(p) \/ C!Kill(p)
  PROVE  TxInv'
<1>0. p \in Actors /\ cpc \in [Actors -> Labels]
  BY TxConstants DEF TxInv, TxType
<1> DEFINE Places == {"consoleread", "read", "read-empty", "read-sleep", "idle"}
<1>1. /\ UNCHANGED <<txlock, txbuf, tx_w, tx_r, thr, bytes>>
      /\ \/ \E l \in Places : cpc' = [cpc EXCEPT ![p] = l]
         \/ cpc' = cpc
  <2>1. CASE C!Read(p)
    BY <2>1 DEF C!Read, C!Goto, C!txvars
  <2>2. CASE C!ReadLock(p) \/ C!ReadEmpty(p) \/ C!ReadSleep(p)
    BY <2>2 DEF C!ReadLock, C!ReadEmpty, C!ReadSleep, C!Goto, C!txvars, C!bounds
  <2>3. CASE C!ReadKilled(p) \/ C!ReadEof(p) \/ C!ReadBad(p)
    BY <2>3 DEF C!ReadKilled, C!ReadEof, C!ReadBad, C!ReadEnd, C!Goto, C!txvars, C!bounds
  <2>4. CASE C!ReadByte(p)
    BY <2>4 DEF C!ReadByte, C!ReadEnd, C!Goto, C!txvars, C!bounds
  <2>5. CASE C!Kill(p)
    <3>1. cpc' = [cpc EXCEPT ![p] = IF @ = "read-sleep" THEN "consoleread" ELSE @]
      BY <2>5 DEF C!Kill
    <3>2. CASE cpc[p] = "read-sleep"
      BY <2>5, <3>1, <3>2 DEF C!Kill, C!txvars
    <3>3. CASE cpc[p] # "read-sleep"
      <4>1. cpc' = cpc
        BY <1>0, <3>1, <3>3
      <4> QED
        BY <2>5, <4>1 DEF C!Kill, C!txvars
    <3> QED
      BY <3>2, <3>3
  <2> QED
    BY <2>1, <2>2, <2>3, <2>4, <2>5 DEF C!Reading
<1>2. CASE cpc' = cpc
  BY <1>0, <1>1, <1>2, TxFrame
<1>3. CASE \E l \in Places : cpc' = [cpc EXCEPT ![p] = l]
  <2>1. PICK l \in Places : cpc' = [cpc EXCEPT ![p] = l]
    BY <1>3
  <2>2. l \in Labels \ {"uartstart", "uart-put", "echo-put"}
    BY DEF Labels
  <2> QED
    BY <1>0, <1>1, <2>1, <2>2, ElsewhereTx
<1> QED
  BY <1>1, <1>2, <1>3

\* TxInv of the transmit side holds in every behaviour of the console.
THEOREM TxInvariance == C!Spec => []TxInv
<1>1. C!Init => TxInv
  <2> SUFFICES ASSUME C!Init PROVE TxInv
    OBVIOUS
  <2>1. /\ tx_r = 0 /\ tx_w = 0 /\ bytes = 0 /\ thr = <<>>
        /\ txbuf = [i \in 0 .. UART_TX_BUF_SIZE - 1 |-> 0]
        /\ cpc = [x \in Actors |-> "idle"]
    BY DEF C!Init, C!Caller, C!Intr, Actors
  <2>2. TxType
    BY <2>1, TxConstants DEF TxType, Labels
  <2>3. Echoing = 0 /\ Putting = 0 /\ Len(thr) = 0
    BY <2>1, TxConstants DEF Echoing, Putting
  <2> QED
    BY <2>1, <2>2, <2>3 DEF TxInv, TxPlaces
<1>2. TxInv /\ [C!Next]_(C!vars) => TxInv'
  <2> SUFFICES ASSUME TxInv, [C!Next]_(C!vars) PROVE TxInv'
    OBVIOUS
  <2> "intr" \in Actors /\ Writer \subseteq Actors /\ C!Intr = "intr"
    BY TxConstants DEF C!Intr
  <2>1. CASE UNCHANGED C!vars
    <3>1. UNCHANGED <<txlock, txbuf, tx_w, tx_r, thr, bytes>> /\ cpc' = cpc
      BY <2>1 DEF C!vars, C!txvars, C!bounds
    <3> QED
      BY <3>1, TxFrame DEF TxInv, TxType
  <2>2. CASE C!Type
    <3>1. UNCHANGED <<txlock, txbuf, tx_w, tx_r, thr, bytes>> /\ cpc' = cpc
      BY <2>2 DEF C!Type, C!txvars
    <3> QED
      BY <3>1, TxFrame DEF TxInv, TxType
  <2>3. CASE C!Send
    BY <2>3, SendTx
  <2>4. CASE C!Handler
    BY <2>4, HandlerTx, GetcNoneTx, StoreTx, EchoTx, StartTx, PutTx, StartEndTx DEF C!Handler
  <2>5. CASE \E p \in Writer : C!Write(p) \/ C!Writing(p)
    BY <2>5, WriterTx, PutcTx, StartTx, PutTx, StartEndTx DEF C!Writing
  <2>6. CASE \E p \in Reader : C!Read(p) \/ C!Reading(p) \/ C!Kill(p)
    BY <2>6, ReaderTx
  <2> QED
    BY <2>1, <2>2, <2>3, <2>4, <2>5, <2>6 DEF C!Next
<1> QED
  BY <1>1, <1>2, PTL DEF C!Spec

\* uartputc(), uartstart(), uartputc_sync(): for rings of any size and any number
\* of writers, the ring holds exactly the bytes that were put and not sent, in
\* their order, though the indices are never reduced; and the UART never holds
\* more than the two bytes of an echo and of the ring.
THEOREM TxExactHolds == C!Spec => []TxExact
<1>1. TxInv => TxExact
  <2> SUFFICES ASSUME TxInv PROVE C!TxExact
    BY DEF TxExact
  <2>1. Len(thr) <= FIFO
    <3>1. PICK i, j \in Nat : i = Echoing /\ j = Putting
      BY DEF Echoing, Putting
    <3>2. Len(thr) + i + j <= 2 /\ Len(thr) \in Nat
      BY <3>1 DEF TxInv, TxType
    <3> QED
      BY <3>2, TxConstants
  <2>2. tx_w - tx_r \in 0 .. UART_TX_BUF_SIZE /\ tx_w = bytes
    BY DEF TxInv, TxType
  <2> QED
    BY <2>1, <2>2 DEF C!TxExact, TxInv, TxSlot
<1> QED
  BY TxInvariance, <1>1, PTL

----------------------------------------------------------------------------
(***************************************************************************)
(* The buffer cache                                                        *)
(***************************************************************************)
Users(b) == {p \in Proc : buf[p] = b}
Pins(b) == Cardinality(pinned \intersect {blockno[b]})
\* Where a process has no lock of a buffer.
Lockless == {"idle", "acquiresleep", "unref"}

CacheType ==
  /\ machine \in Machines /\ DOMAIN pc = Proc /\ buf \in [Proc -> Buf \union {0}]
  /\ lru \in [Buf -> Buf] /\ blockno \in [Buf -> Block \union {NoBlock}]
  /\ refcnt \in [Buf -> Int] /\ lock \in [Buf -> Proc \union {NoProc}] /\ pinned \subseteq Block

Counted == \A b \in Buf : refcnt[b] = Cardinality(Users(b)) + Pins(b)
OneBuffer == \A b, c \in Buf : blockno[b] = blockno[c] /\ b # c => blockno[b] = NoBlock
LocksHeld == \A p \in Proc : pc[p] \notin Lockless => buf[p] \in Buf /\ lock[buf[p]] = p
BufUsed == ~panic => \A p \in Proc : buf[p] = 0 <=> pc[p] = "idle"
BufNamed == \A p \in Proc : buf[p] \in Buf => blockno[buf[p]] \in Block
PinsCached == \A n \in pinned : \E b \in Buf : blockno[b] = n

CacheInv == CacheType /\ Counted /\ OneBuffer /\ LocksHeld /\ BufUsed /\ BufNamed /\ PinsCached

\* What is assumed of the constants.
LEMMA CacheConstants ==
  /\ IsFiniteSet(Proc) /\ NoProc \notin Proc /\ NoBlock \notin Block
  /\ \A m \in Machines : m.NBUF \in Nat \ {0}
  BY DiskAssumption DEF DiskAssumption

\* A pin counts as one.
LEMMA PinsAre ==
  ASSUME NEW S, NEW x
  PROVE  Cardinality(S \intersect {x}) = IF x \in S THEN 1 ELSE 0
<1>1. CASE x \in S
  <2>1. S \intersect {x} = {x}
    BY <1>1
  <2> QED
    BY <1>1, <2>1, FS_Singleton
<1>2. CASE x \notin S
  <2>1. S \intersect {x} = {}
    BY <1>2
  <2> QED
    BY <1>2, <2>1, FS_EmptySet
<1> QED
  BY <1>1, <1>2

\* A set of positions that is not empty has a last one.
LEMMA LastPosition ==
  ASSUME NEW n \in Nat, NEW S \in SUBSET (1 .. n), S # {}
  PROVE  \E k \in S : \A j \in S : j <= k
<1> DEFINE T == {n - k : k \in S}
<1>1. T \subseteq Nat /\ T # {}
  <2>1. PICK i : i \in S
    OBVIOUS
  <2>2. n - i \in T
    BY <2>1
  <2>3. \A k \in S : n - k \in Nat
    OBVIOUS
  <2> QED
    BY <2>2, <2>3
<1>2. \E x \in T : \A y \in T : ~(<<y, x>> \in OpToRel(<, Nat))
  BY <1>1, WFMin, NatLessThanWellFounded
<1>3. PICK x \in T : \A y \in T : ~(y < x)
  BY <1>1, <1>2 DEF OpToRel
<1>4. PICK k \in S : x = n - k
  BY <1>3
<1>5. ASSUME NEW j \in S PROVE j <= k
  <2>1. n - j \in T
    BY <1>5
  <2> QED
    BY <1>3, <1>4, <2>1
<1> QED
  BY <1>4, <1>5

\* bget() finds the least recently used buffer without users, if there is one.
LEMMA LeastRecentIs ==
  ASSUME CacheType, LeastRecent # 0
  PROVE  LeastRecent \in Buf /\ refcnt[LeastRecent] = 0
<1>1. NBUF \in Nat
  BY CacheConstants DEF CacheType, NBUF
<1>2. Unused # {} /\ Unused \in SUBSET (1 .. NBUF)
  BY DEF LeastRecent, Unused
<1>3. \E k \in Unused : \A j \in Unused : j <= k
  BY <1>1, <1>2, LastPosition
<1>4. PICK k \in Unused : LeastRecent = lru[k]
  BY <1>2, <1>3 DEF LeastRecent
<1> QED
  BY <1>4 DEF Unused, CacheType, Buf

\* brelse() keeps the list a list of buffers.
LEMMA ToFrontIs ==
  ASSUME CacheType, NEW b \in Buf
  PROVE  ToFront(b) \in [Buf -> Buf]
<1>1. NBUF \in Nat \ {0}
  BY CacheConstants DEF CacheType, NBUF
<1>2. PICK k : ToFront(b) = [i \in 1 .. NBUF |-> IF i = 1 THEN b ELSE IF i <= k THEN lru[i - 1] ELSE lru[i]]
  BY DEF ToFront
<1>3. ASSUME NEW i \in 1 .. NBUF PROVE (IF i = 1 THEN b ELSE IF i <= k THEN lru[i - 1] ELSE lru[i]) \in Buf
  <2>1. i \in Buf /\ (i # 1 => i - 1 \in Buf)
    BY <1>1 DEF Buf
  <2> QED
    BY <2>1 DEF CacheType
<1> QED
  BY <1>2, <1>3 DEF Buf

\* The users of a buffer are finitely many.
LEMMA UsersFinite == \A b : IsFiniteSet(Users(b)) /\ Cardinality(Users(b)) \in Nat
<1> TAKE b
<1>1. Users(b) \in SUBSET Proc
  BY DEF Users
<1>2. IsFiniteSet(Users(b))
  BY <1>1, CacheConstants, FS_Subset
<1> QED
  BY <1>2, FS_CardinalityType

\* p becomes a user of b.
LEMMA UserJoins ==
  ASSUME CacheType, NEW p \in Proc, NEW b \in Buf, buf[p] = 0, buf' = [buf EXCEPT ![p] = b],
         NEW c \in Buf
  PROVE  Cardinality(Users(c)') = Cardinality(Users(c)) + (IF c = b THEN 1 ELSE 0)
<1>1. 0 \notin Buf /\ buf'[p] = b /\ \A q \in Proc : q # p => buf'[q] = buf[q]
  BY DEF CacheType, Buf
<1>2. CASE c = b
  <2>1. Users(c)' = Users(c) \union {p} /\ p \notin Users(c)
    BY <1>1, <1>2 DEF Users
  <2> QED
    BY SMTT(30), <1>2, <2>1, UsersFinite, FS_AddElement
<1>3. CASE c # b
  <2>1. Users(c)' = Users(c)
    BY <1>1, <1>3 DEF Users
  <2> QED
    BY <1>3, <2>1, UsersFinite
<1> QED
  BY <1>2, <1>3

\* p stops using its buffer.
LEMMA UserLeaves ==
  ASSUME CacheType, NEW p \in Proc, buf[p] \in Buf, buf' = [buf EXCEPT ![p] = 0], NEW c \in Buf
  PROVE  Cardinality(Users(c)') = Cardinality(Users(c)) - (IF c = buf[p] THEN 1 ELSE 0)
<1>1. 0 \notin Buf /\ buf'[p] = 0 /\ \A q \in Proc : q # p => buf'[q] = buf[q]
  BY DEF CacheType, Buf
<1>2. CASE c = buf[p]
  <2>1. Users(c)' = Users(c) \ {p} /\ p \in Users(c)
    BY <1>1, <1>2 DEF Users
  <2> QED
    BY <1>2, <2>1, UsersFinite, FS_RemoveElement
<1>3. CASE c # buf[p]
  <2>1. Users(c)' = Users(c)
    BY <1>1, <1>3 DEF Users
  <2> QED
    BY <1>3, <2>1, UsersFinite
<1> QED
  BY <1>2, <1>3

\* A step of the driver or of the device: nothing of the cache changes, and who
\* has a lock goes on with it.
LEMMA CacheFrame ==
  ASSUME CacheInv, ~panic, UNCHANGED <<machine, lru, blockno, refcnt, lock, buf, pinned>>,
         DOMAIN pc' = Proc,
         \A p \in Proc : pc'[p] = pc[p] \/ (pc[p] \notin Lockless /\ pc'[p] \notin Lockless)
  PROVE  CacheInv'
<1>1. Buf' = Buf /\ \A b : Users(b)' = Users(b) /\ Pins(b)' = Pins(b)
  BY DEF Buf, NBUF, Users, Pins
<1>2. CacheType'
  BY <1>1 DEF CacheInv, CacheType
<1>3. Counted' /\ OneBuffer'
  BY <1>1 DEF CacheInv, Counted, OneBuffer
<1>4. LocksHeld'
  BY <1>1 DEF CacheInv, LocksHeld
<1>5. BufUsed'
  BY DEF CacheInv, BufUsed, Lockless
<1>6. BufNamed' /\ PinsCached'
  BY <1>1 DEF CacheInv, BufNamed, PinsCached
<1> QED
  BY <1>2, <1>3, <1>4, <1>5, <1>6 DEF CacheInv

\* bread(): the block is cached.
LEMMA HitCache ==
  ASSUME CacheInv, ~panic, NEW p \in Proc, NEW b \in Buf, NEW n \in Block,
         pc[p] = "idle", blockno[b] = n,
         Hit(b), buf' = [buf EXCEPT ![p] = b], Goto(p, "acquiresleep"),
         UNCHANGED <<machine, lru, lock, pinned>>
  PROVE  CacheInv'
<1>1. buf[p] = 0 /\ CacheType /\ 0 \notin Buf
  BY DEF CacheInv, BufUsed, Buf
<1>2. /\ UNCHANGED <<blockno, panic>> /\ refcnt' = [refcnt EXCEPT ![b] = @ + 1]
      /\ pc' = [pc EXCEPT ![p] = "acquiresleep"]
  BY DEF Hit, Goto
<1>3. /\ DOMAIN pc' = Proc /\ pc'[p] = "acquiresleep"
      /\ \A q \in Proc : q # p => pc'[q] = pc[q] /\ buf'[q] = buf[q]
      /\ buf' \in [Proc -> Buf \union {0}] /\ buf'[p] = b
      /\ refcnt' \in [Buf -> Int]
      /\ \A c \in Buf : refcnt'[c] = refcnt[c] + (IF c = b THEN 1 ELSE 0)
  BY <1>1, <1>2 DEF CacheType
<1>4. Buf' = Buf /\ \A c : Pins(c)' = Pins(c)
  BY <1>2 DEF Buf, NBUF, Pins
<1>5. CacheType'
  BY <1>1, <1>2, <1>3, <1>4 DEF CacheType
<1>6. ASSUME NEW c \in Buf PROVE refcnt'[c] = Cardinality(Users(c)') + Pins(c)'
  <2>1. Cardinality(Users(c)') = Cardinality(Users(c)) + (IF c = b THEN 1 ELSE 0)
    BY <1>1, UserJoins
  <2>2. refcnt[c] = Cardinality(Users(c)) + Pins(c)
    BY DEF CacheInv, Counted
  <2>3. Cardinality(Users(c)) \in Nat /\ Pins(c) \in Nat
    BY UsersFinite, PinsAre DEF Pins
  <2> QED
    BY <1>3, <1>4, <2>1, <2>2, <2>3
<1>7. Counted'
  BY <1>4, <1>6 DEF Counted
<1>8. OneBuffer' /\ PinsCached'
  BY <1>2, <1>4 DEF CacheInv, OneBuffer, PinsCached
<1>9. LocksHeld'
  BY <1>3, <1>4 DEF CacheInv, LocksHeld, Lockless
<1>10. BufUsed'
  BY <1>1, <1>3 DEF CacheInv, BufUsed
<1>11. BufNamed'
  BY <1>2, <1>3, <1>4 DEF CacheInv, BufNamed
<1> QED
  BY <1>5, <1>7, <1>8, <1>9, <1>10, <1>11 DEF CacheInv

\* bread(): the least recently used buffer is taken for block n.
LEMMA RecycleCache ==
  ASSUME CacheInv, ~panic, NEW p \in Proc, NEW b \in Buf, NEW n \in Block,
         pc[p] = "idle", Cached(n) = {}, refcnt[b] = 0,
         Recycle(b, n), buf' = [buf EXCEPT ![p] = b], Goto(p, "acquiresleep"),
         UNCHANGED <<machine, lru, lock, pinned>>
  PROVE  CacheInv'
<1>1. buf[p] = 0 /\ CacheType /\ 0 \notin Buf /\ n # NoBlock
  BY CacheConstants DEF CacheInv, BufUsed, Buf
<1>2. /\ blockno' = [blockno EXCEPT ![b] = n] /\ refcnt' = [refcnt EXCEPT ![b] = 1]
      /\ panic' = panic /\ pc' = [pc EXCEPT ![p] = "acquiresleep"]
  BY DEF Recycle, Goto
<1>3. /\ DOMAIN pc' = Proc /\ pc'[p] = "acquiresleep"
      /\ \A q \in Proc : q # p => pc'[q] = pc[q] /\ buf'[q] = buf[q]
      /\ buf' \in [Proc -> Buf \union {0}] /\ buf'[p] = b
      /\ refcnt' \in [Buf -> Int] /\ refcnt'[b] = 1
      /\ blockno' \in [Buf -> Block \union {NoBlock}] /\ blockno'[b] = n
      /\ \A c \in Buf : c # b => refcnt'[c] = refcnt[c] /\ blockno'[c] = blockno[c]
  BY <1>1, <1>2 DEF CacheType
<1>4. Buf' = Buf
  BY DEF Buf, NBUF
<1>5. CacheType'
  BY <1>1, <1>3, <1>4 DEF CacheType
\* Nobody uses b, its block is not pinned, and n is in no other buffer.
<1>6. Cardinality(Users(b)) = 0 /\ Users(b) = {} /\ blockno[b] \notin pinned
  <2>1. 0 = Cardinality(Users(b)) + Pins(b)
    BY DEF CacheInv, Counted
  <2>2. Cardinality(Users(b)) \in Nat /\ Pins(b) = IF blockno[b] \in pinned THEN 1 ELSE 0
    BY UsersFinite, PinsAre DEF Pins
  <2>3. Cardinality(Users(b)) = 0 /\ blockno[b] \notin pinned
    BY <2>1, <2>2
  <2> QED
    BY <2>3, UsersFinite, FS_EmptySet
<1>7. (\A c \in Buf : blockno[c] # n) /\ n \notin pinned
  BY DEF Cached, CacheInv, PinsCached
<1>8. \A q \in Proc : buf[q] # b
  BY <1>6 DEF Users
<1>9. ASSUME NEW c \in Buf PROVE refcnt'[c] = Cardinality(Users(c)') + Pins(c)'
  <2>1. Cardinality(Users(c)') = Cardinality(Users(c)) + (IF c = b THEN 1 ELSE 0)
    BY <1>1, UserJoins
  <2>2. CASE c = b
    <3>1. Pins(c)' = 0
      BY <1>3, <1>7, <2>2, PinsAre DEF Pins
    <3>2. refcnt'[c] = 1 /\ Cardinality(Users(c)) = 0
      BY <1>3, <1>6, <2>2
    <3>3. Cardinality(Users(c)') = 1
      BY <2>1, <2>2, <3>2
    <3> QED
      BY <3>1, <3>2, <3>3
  <2>3. CASE c # b
    <3>1. Pins(c)' = Pins(c) /\ refcnt'[c] = refcnt[c]
      BY <1>3, <2>3 DEF Pins
    <3>2. refcnt[c] = Cardinality(Users(c)) + Pins(c) /\ Cardinality(Users(c)) \in Nat
      BY UsersFinite DEF CacheInv, Counted
    <3> QED
      BY <2>1, <2>3, <3>1, <3>2
  <2> QED
    BY <2>2, <2>3
<1>10. Counted'
  BY <1>4, <1>9 DEF Counted
<1>11. OneBuffer'
  BY <1>3, <1>4, <1>7 DEF CacheInv, OneBuffer
<1>12. PinsCached'
  <2> SUFFICES ASSUME NEW m \in pinned PROVE \E c \in Buf : blockno'[c] = m
    BY <1>4 DEF PinsCached
  <2>1. PICK c \in Buf : blockno[c] = m
    BY DEF CacheInv, PinsCached
  <2> QED
    BY <1>3, <1>6, <2>1
<1>13. LocksHeld'
  BY <1>3, <1>4 DEF CacheInv, LocksHeld, Lockless
<1>14. BufUsed'
  BY <1>1, <1>2, <1>3 DEF CacheInv, BufUsed
<1>15. BufNamed'
  BY <1>3, <1>4, <1>8 DEF CacheInv, BufNamed
<1> QED
  BY <1>5, <1>10, <1>11, <1>12, <1>13, <1>14, <1>15 DEF CacheInv

\* bread(): every buffer is in use, and bget() panics.
LEMMA NoneCache ==
  ASSUME CacheInv, ~panic, NEW p \in Proc, pc[p] = "idle",
         BgetNone, buf' = [buf EXCEPT ![p] = 0], Goto(p, "acquiresleep"),
         UNCHANGED <<machine, lru, lock, pinned>>
  PROVE  CacheInv'
<1>1. buf[p] = 0 /\ CacheType
  BY DEF CacheInv, BufUsed
<1>2. panic' /\ UNCHANGED <<blockno, refcnt>> /\ buf' = buf
      /\ pc' = [pc EXCEPT ![p] = "acquiresleep"]
  BY <1>1 DEF BgetNone, Goto, CacheType
<1>3. /\ DOMAIN pc' = Proc /\ pc'[p] = "acquiresleep"
      /\ \A q \in Proc : q # p => pc'[q] = pc[q]
  BY <1>1, <1>2 DEF CacheType
<1>4. Buf' = Buf /\ \A b : Users(b)' = Users(b) /\ Pins(b)' = Pins(b)
  BY <1>2 DEF Buf, NBUF, Users, Pins
<1>5. CacheType'
  BY <1>1, <1>2, <1>3, <1>4 DEF CacheType
<1>6. Counted' /\ OneBuffer' /\ BufNamed' /\ PinsCached'
  BY <1>2, <1>4 DEF CacheInv, Counted, OneBuffer, BufNamed, PinsCached
<1>7. LocksHeld' /\ BufUsed'
  BY <1>2, <1>3, <1>4 DEF CacheInv, LocksHeld, BufUsed, Lockless
<1> QED
  BY <1>5, <1>6, <1>7 DEF CacheInv

\* bread() as a whole.
LEMMA BreadCache == ASSUME CacheInv, NEW p \in Proc, NEW n \in Block, Bread(p, n) PROVE CacheInv'
<1>1. /\ ~panic /\ pc[p] = "idle" /\ Goto(p, "acquiresleep")
      /\ UNCHANGED <<machine, lru, lock, pinned>>
  BY DEF Bread, At
<1>2. PICK b \in IF Cached(n) # {} THEN Cached(n) ELSE {LeastRecent} :
       /\ \/ Cached(n) # {} /\ Hit(b)
          \/ Cached(n) = {} /\ b # 0 /\ Recycle(b, n)
          \/ b = 0 /\ BgetNone
       /\ buf' = [buf EXCEPT ![p] = b]
  BY DEF Bread
<1>3. CASE Cached(n) # {} /\ Hit(b)
  <2>1. b \in Buf /\ blockno[b] = n
    BY <1>2, <1>3 DEF Cached
  <2> QED
    BY <1>1, <1>2, <1>3, <2>1, HitCache
<1>4. CASE Cached(n) = {} /\ b # 0 /\ Recycle(b, n)
  <2>1. b = LeastRecent /\ b # 0 /\ CacheType
    BY <1>2, <1>4 DEF CacheInv
  <2>2. b \in Buf /\ refcnt[b] = 0
    BY <2>1, LeastRecentIs
  <2> QED
    BY <1>1, <1>2, <1>4, <2>2, RecycleCache
<1>5. CASE b = 0 /\ BgetNone
  BY <1>1, <1>2, <1>5, NoneCache
<1> QED
  BY <1>2, <1>3, <1>4, <1>5

\* acquiresleep().
LEMMA LockedCache == ASSUME CacheInv, NEW p \in Proc, Locked(p) PROVE CacheInv'
<1>1. PICK b, l : /\ ~panic /\ pc[p] = "acquiresleep" /\ b = buf[p] /\ lock[b] = NoProc
                  /\ lock' = [lock EXCEPT ![b] = p] /\ pc' = [pc EXCEPT ![p] = l]
                  /\ l \in {"has", "read"}
                  /\ UNCHANGED <<machine, lru, blockno, refcnt, buf, pinned, panic>>
  BY DEF Locked, At, Goto, bounds
<1>2. CacheType /\ b # 0 /\ b \in Buf
  BY <1>1 DEF CacheInv, BufUsed, CacheType
<1>3. Buf' = Buf /\ \A c : Users(c)' = Users(c) /\ Pins(c)' = Pins(c)
  BY <1>1 DEF Buf, NBUF, Users, Pins
<1>4. /\ DOMAIN pc' = Proc /\ pc'[p] = l /\ lock' \in [Buf -> Proc \union {NoProc}] /\ lock'[b] = p
      /\ \A q \in Proc : q # p => pc'[q] = pc[q]
      /\ \A c \in Buf : c # b => lock'[c] = lock[c]
  BY <1>1, <1>2 DEF CacheType
<1>5. CacheType'
  BY <1>1, <1>2, <1>3, <1>4 DEF CacheType
<1>6. Counted' /\ OneBuffer' /\ BufNamed' /\ PinsCached'
  BY <1>1, <1>3 DEF CacheInv, Counted, OneBuffer, BufNamed, PinsCached
<1>7. LocksHeld'
  <2> SUFFICES ASSUME NEW q \in Proc, pc'[q] \notin Lockless
               PROVE  buf[q] \in Buf /\ lock'[buf[q]] = q
    BY <1>1, <1>3 DEF LocksHeld
  <2>1. CASE q = p
    BY <1>1, <1>2, <1>4, <2>1
  <2>2. CASE q # p
    <3>1. buf[q] \in Buf /\ lock[buf[q]] = q
      BY <1>4, <2>2 DEF CacheInv, LocksHeld
    <3>2. buf[q] # b
      BY <1>1, <3>1, CacheConstants
    <3> QED
      BY <1>4, <3>1, <3>2
  <2> QED
    BY <2>1, <2>2
<1>8. BufUsed'
  BY <1>1, <1>2, <1>4 DEF CacheInv, BufUsed
<1> QED
  BY <1>5, <1>6, <1>7, <1>8 DEF CacheInv

\* brelse(): the lock.
LEMMA BrelseCache == ASSUME CacheInv, NEW p \in Proc, Brelse(p) PROVE CacheInv'
<1>1. PICK b : /\ ~panic /\ pc[p] \in {"has", "brelse"} /\ b = buf[p]
               /\ lock' = [lock EXCEPT ![b] = NoProc] /\ pc' = [pc EXCEPT ![p] = "unref"]
               /\ UNCHANGED <<machine, lru, blockno, refcnt, buf, pinned, panic>>
  BY DEF Brelse, At, Goto, bounds
<1>2. CacheType /\ b \in Buf /\ lock[b] = p /\ 0 \notin Buf
  BY <1>1 DEF CacheInv, LocksHeld, Lockless, Buf
<1>3. Buf' = Buf /\ \A c : Users(c)' = Users(c) /\ Pins(c)' = Pins(c)
  BY <1>1 DEF Buf, NBUF, Users, Pins
<1>4. /\ DOMAIN pc' = Proc /\ pc'[p] = "unref" /\ lock' \in [Buf -> Proc \union {NoProc}]
      /\ \A q \in Proc : q # p => pc'[q] = pc[q]
      /\ \A c \in Buf : c # b => lock'[c] = lock[c]
  BY <1>1, <1>2 DEF CacheType
<1>5. CacheType'
  BY <1>1, <1>2, <1>3, <1>4 DEF CacheType
<1>6. Counted' /\ OneBuffer' /\ BufNamed' /\ PinsCached'
  BY <1>1, <1>3 DEF CacheInv, Counted, OneBuffer, BufNamed, PinsCached
<1>7. LocksHeld'
  <2> SUFFICES ASSUME NEW q \in Proc, pc'[q] \notin Lockless
               PROVE  buf[q] \in Buf /\ lock'[buf[q]] = q
    BY <1>1, <1>3 DEF LocksHeld
  <2>1. q # p
    BY <1>4 DEF Lockless
  <2>2. buf[q] \in Buf /\ lock[buf[q]] = q
    BY <1>4, <2>1 DEF CacheInv, LocksHeld
  <2>3. buf[q] # b
    BY <1>2, <2>1, <2>2
  <2> QED
    BY <1>4, <2>2, <2>3
<1>8. BufUsed'
  BY <1>1, <1>2, <1>4 DEF CacheInv, BufUsed
<1> QED
  BY <1>5, <1>6, <1>7, <1>8 DEF CacheInv

\* brelse(): refcnt and the list.
LEMMA BrelseRefCache == ASSUME CacheInv, NEW p \in Proc, BrelseRef(p) PROVE CacheInv'
<1>1. PICK b : /\ ~panic /\ pc[p] = "unref" /\ b = buf[p]
               /\ refcnt' = [refcnt EXCEPT ![b] = @ - 1] /\ (lru' = ToFront(b) \/ lru' = lru)
               /\ buf' = [buf EXCEPT ![p] = 0] /\ pc' = [pc EXCEPT ![p] = "idle"]
               /\ UNCHANGED <<machine, lock, blockno, pinned, panic>>
  BY DEF BrelseRef, At, Goto, bounds
<1>2. CacheType /\ b # 0 /\ b \in Buf
  BY <1>1 DEF CacheInv, BufUsed, CacheType
<1>3. Buf' = Buf /\ \A c : Pins(c)' = Pins(c)
  BY <1>1 DEF Buf, NBUF, Pins
<1>4. /\ DOMAIN pc' = Proc /\ pc'[p] = "idle" /\ buf'[p] = 0
      /\ buf' \in [Proc -> Buf \union {0}] /\ refcnt' \in [Buf -> Int]
      /\ \A q \in Proc : q # p => pc'[q] = pc[q] /\ buf'[q] = buf[q]
      /\ \A c \in Buf : refcnt'[c] = refcnt[c] - (IF c = b THEN 1 ELSE 0)
  BY <1>1, <1>2 DEF CacheType
<1>5. lru' \in [Buf -> Buf]
  BY <1>1, <1>2, ToFrontIs DEF CacheType
<1>6. CacheType'
  BY <1>1, <1>2, <1>3, <1>4, <1>5 DEF CacheType
<1>7. ASSUME NEW c \in Buf PROVE refcnt'[c] = Cardinality(Users(c)') + Pins(c)'
  <2>1. Cardinality(Users(c)') = Cardinality(Users(c)) - (IF c = b THEN 1 ELSE 0)
    BY <1>1, <1>2, UserLeaves
  <2>2. refcnt[c] = Cardinality(Users(c)) + Pins(c)
    BY DEF CacheInv, Counted
  <2>3. Cardinality(Users(c)) \in Nat /\ Pins(c) \in Nat
    BY UsersFinite, PinsAre DEF Pins
  <2> QED
    BY <1>3, <1>4, <2>1, <2>2, <2>3
<1>8. Counted'
  BY <1>3, <1>7 DEF Counted
<1>9. OneBuffer' /\ PinsCached'
  BY <1>1, <1>3 DEF CacheInv, OneBuffer, PinsCached
<1>10. LocksHeld' /\ BufUsed'
  BY <1>1, <1>3, <1>4 DEF CacheInv, LocksHeld, BufUsed, Lockless
<1>11. BufNamed'
  <2>1. 0 \notin Buf
    BY DEF Buf
  <2> QED
    BY <1>1, <1>3, <1>4, <2>1 DEF CacheInv, BufNamed
<1> QED
  BY <1>6, <1>8, <1>9, <1>10, <1>11 DEF CacheInv

\* bpin() and bunpin(), by a process that has the buffer b: only the count of
\* this buffer changes, with the pin of its block, as no other buffer has it.
LEMMA PinCache ==
  ASSUME CacheInv, ~panic, NEW p \in Proc, NEW b, b = buf[p], pc[p] \notin Lockless,
         pc' = [pc EXCEPT ![p] = "brelse"], UNCHANGED <<machine, lru, blockno, lock, buf, panic>>,
         NEW S, S = pinned \union {blockno[b]} \/ S = pinned \ {blockno[b]}, pinned' = S,
         refcnt' \in [Buf -> Int], \A c \in Buf : c # b => refcnt'[c] = refcnt[c],
         refcnt'[b] = refcnt[b] + (IF blockno[b] \in S THEN 1 ELSE 0)
                                - (IF blockno[b] \in pinned THEN 1 ELSE 0)
  PROVE  CacheInv'
<1>1. CacheType /\ b \in Buf /\ blockno[b] \in Block /\ blockno[b] # NoBlock
  BY CacheConstants DEF CacheInv, LocksHeld, BufNamed
<1>2. Buf' = Buf /\ \A c : Users(c)' = Users(c)
  BY DEF Buf, NBUF, Users
<1>3. /\ DOMAIN pc' = Proc /\ pc'[p] = "brelse"
      /\ \A q \in Proc : q # p => pc'[q] = pc[q]
  BY <1>1 DEF CacheType
<1>4. CacheType'
  BY <1>1, <1>2, <1>3 DEF CacheType
<1>5. ASSUME NEW c \in Buf PROVE refcnt'[c] = Cardinality(Users(c)') + Pins(c)'
  <2>1. /\ Pins(c) = IF blockno[c] \in pinned THEN 1 ELSE 0
        /\ Pins(c)' = IF blockno[c] \in S THEN 1 ELSE 0
    BY PinsAre DEF Pins
  <2>2. refcnt[c] = Cardinality(Users(c)) + Pins(c) /\ Cardinality(Users(c)) \in Nat
    BY UsersFinite DEF CacheInv, Counted
  <2>3. CASE c = b
    BY <1>2, <2>1, <2>2, <2>3
  <2>4. CASE c # b
    <3>1. blockno[c] # blockno[b]
      BY <1>1, <2>4 DEF CacheInv, OneBuffer
    <3> QED
      BY <1>2, <2>1, <2>2, <2>4, <3>1
  <2> QED
    BY <2>3, <2>4
<1>6. Counted'
  BY <1>2, <1>5 DEF Counted
<1>7. OneBuffer' /\ BufNamed'
  BY <1>2 DEF CacheInv, OneBuffer, BufNamed
<1>8. PinsCached'
  BY <1>1, <1>2 DEF CacheInv, PinsCached
<1>9. LocksHeld' /\ BufUsed'
  BY <1>2, <1>3 DEF CacheInv, LocksHeld, BufUsed, Lockless
<1> QED
  BY <1>4, <1>6, <1>7, <1>8, <1>9 DEF CacheInv

\* bpin().
LEMMA BpinCache == ASSUME CacheInv, NEW p \in Proc, NEW v, Bpin(p, v) PROVE CacheInv'
<1>1. PICK b : /\ ~panic /\ pc[p] = "has" /\ b = buf[p]
               /\ refcnt' = [refcnt EXCEPT ![b] = IF blockno[b] \in pinned THEN @ ELSE @ + 1]
               /\ pinned' = pinned \union {blockno[b]} /\ pc' = [pc EXCEPT ![p] = "brelse"]
               /\ UNCHANGED <<machine, lru, blockno, lock, buf, panic>>
  BY DEF Bpin, At, Goto, Change
<1>2. CacheType /\ b \in Buf /\ pc[p] \notin Lockless
  BY <1>1 DEF CacheInv, LocksHeld, Lockless
<1>3. PICK S : S = pinned \union {blockno[b]}
  OBVIOUS
<1>4. /\ refcnt' \in [Buf -> Int] /\ \A c \in Buf : c # b => refcnt'[c] = refcnt[c]
      /\ refcnt'[b] = refcnt[b] + (IF blockno[b] \in S THEN 1 ELSE 0)
                                - (IF blockno[b] \in pinned THEN 1 ELSE 0)
  BY <1>1, <1>2, <1>3 DEF CacheType
<1> QED
  BY <1>1, <1>2, <1>3, <1>4, PinCache

\* bunpin().
LEMMA BunpinCache == ASSUME CacheInv, NEW p \in Proc, Bunpin(p) PROVE CacheInv'
<1>1. PICK b : /\ ~panic /\ pc[p] = "written" /\ b = buf[p]
               /\ refcnt' = [refcnt EXCEPT ![b] = IF blockno[b] \in pinned THEN @ - 1 ELSE @]
               /\ pinned' = pinned \ {blockno[b]} /\ pc' = [pc EXCEPT ![p] = "brelse"]
               /\ UNCHANGED <<machine, lru, blockno, lock, buf, panic>>
  BY DEF Bunpin, At, Goto, bounds
<1>2. CacheType /\ b \in Buf /\ pc[p] \notin Lockless
  BY <1>1 DEF CacheInv, LocksHeld, Lockless
<1>3. PICK S : S = pinned \ {blockno[b]}
  OBVIOUS
<1>4. /\ refcnt' \in [Buf -> Int] /\ \A c \in Buf : c # b => refcnt'[c] = refcnt[c]
      /\ refcnt'[b] = refcnt[b] + (IF blockno[b] \in S THEN 1 ELSE 0)
                                - (IF blockno[b] \in pinned THEN 1 ELSE 0)
  BY <1>1, <1>2, <1>3 DEF CacheType
<1> QED
  BY <1>1, <1>2, <1>3, <1>4, PinCache

\* The steps that a process with a buffer takes on its own, and the driver's.
LEMMA RwCache ==
  ASSUME CacheInv, NEW p \in Proc,
         RwNoDesc(p) \/ RwStart(p) \/ RwDone(p) \/ Install(p) \/ \E v \in Value : Bwrite(p, v)
  PROVE  CacheInv'
<1>0. DOMAIN pc = Proc
  BY DEF CacheInv, CacheType
<1>1. /\ ~panic /\ UNCHANGED <<machine, lru, blockno, refcnt, lock, buf, pinned>>
  BY DEF RwNoDesc, RwStart, RwDone, Install, Bwrite, Change, At, cachevars, bounds
<1>2. /\ DOMAIN pc' = Proc
      /\ \A q \in Proc : pc'[q] = pc[q] \/ (pc[q] \notin Lockless /\ pc'[q] \notin Lockless)
  <2>1. CASE RwNoDesc(p)
    <3>1. PICK l : l = IF Wants(p) = "read" THEN "read-sleep" ELSE "write-sleep"
      OBVIOUS
    <3>2. PICK f : f = IF Lowest(3) = <<>> THEN pc
                       ELSE Awake(Awake(pc, "read-sleep", "readagain"), "write-sleep", "writeagain")
      OBVIOUS
    <3>3. pc' = [f EXCEPT ![p] = l] /\ pc[p] \in Wanting
      BY <2>1, <3>1, <3>2 DEF RwNoDesc
    <3>4. /\ DOMAIN f = Proc
          /\ \A q \in Proc : f[q] = pc[q] \/ (pc[q] \notin Lockless /\ f[q] \notin Lockless)
      BY <1>0, <3>2 DEF Awake, Lockless
    <3> QED
      BY <3>1, <3>3, <3>4 DEF Lockless, Wanting
  <2>2. CASE RwStart(p)
    <3>1. PICK l : /\ pc' = [pc EXCEPT ![p] = l] /\ l \in {"read-wait", "write-wait"}
                   /\ pc[p] \in Wanting
      BY <2>2 DEF RwStart, Goto
    <3> QED
      BY <1>0, <3>1 DEF Lockless, Wanting
  <2>3. CASE RwDone(p)
    <3>1. PICK f, l : /\ f = Awake(Awake(pc, "read-sleep", "readagain"), "write-sleep", "writeagain")
                      /\ pc' = [f EXCEPT ![p] = l] /\ l \in {"has", "written"}
                      /\ pc[p] \in {"read-done", "write-done"}
      BY <2>3 DEF RwDone
    <3>2. /\ DOMAIN f = Proc
          /\ \A q \in Proc : f[q] = pc[q] \/ (pc[q] \notin Lockless /\ f[q] \notin Lockless)
      BY <1>0, <3>1 DEF Awake, Lockless
    <3> QED
      BY <3>1, <3>2 DEF Lockless
  <2>4. CASE Install(p) \/ \E v \in Value : Bwrite(p, v)
    <3>1. pc' = [pc EXCEPT ![p] = "write"] /\ pc[p] = "has"
      BY <2>4 DEF Install, Bwrite, Goto, At
    <3> QED
      BY <1>0, <3>1 DEF Lockless
  <2> QED
    BY <2>1, <2>2, <2>3, <2>4
<1> QED
  BY <1>1, <1>2, CacheFrame

\* virtio_disk_intr() and the device.
LEMMA IntrCache == ASSUME CacheInv, Handler \/ Device PROVE CacheInv'
<1>0. DOMAIN pc = Proc
  BY DEF CacheInv, CacheType
<1>1. ~panic /\ UNCHANGED <<machine, lru, blockno, refcnt, lock, buf, pinned>>
  BY DEF Handler, Device, Intr, IntrUsed, IntrEnd, DevDo, cachevars, bounds
<1>2. /\ DOMAIN pc' = Proc
      /\ \A q \in Proc : pc'[q] = pc[q] \/ (pc[q] \notin Lockless /\ pc'[q] \notin Lockless)
  <2>1. CASE IntrUsed
    <3>1. PICK b : pc' = [q \in Proc |-> IF buf[q] # b THEN pc[q]
                                         ELSE IF pc[q] = "read-wait" THEN "read-done"
                                         ELSE IF pc[q] = "write-wait" THEN "write-done" ELSE pc[q]]
      BY <2>1 DEF IntrUsed
    <3> QED
      BY <3>1 DEF Lockless
  <2>2. CASE Intr \/ IntrEnd \/ Device
    <3>1. pc' = pc
      BY <2>2 DEF Intr, IntrEnd, Device, DevDo
    <3> QED
      BY <1>0, <3>1
  <2> QED
    BY <2>1, <2>2 DEF Handler
<1> QED
  BY <1>1, <1>2, CacheFrame

\* CacheInv holds in every behaviour of the buffer cache and the driver.
THEOREM CacheInvariance == Spec => []CacheInv
<1>1. Init => CacheInv
  <2> SUFFICES ASSUME Init PROVE CacheInv
    OBVIOUS
  <2>1. /\ machine \in Machines /\ NBUF \in Nat \ {0} /\ pinned = {}
        /\ lru = [k \in 1 .. NBUF |-> NBUF + 1 - k] /\ blockno = [b \in Buf |-> NoBlock]
        /\ refcnt = [b \in Buf |-> 0] /\ lock = [b \in Buf |-> NoProc]
        /\ pc = [p \in Proc |-> "idle"] /\ buf = [p \in Proc |-> 0]
    BY CacheConstants DEF Init, NBUF
  <2>2. lru \in [Buf -> Buf]
    BY <2>1 DEF Buf
  <2>3. CacheType
    BY <2>1, <2>2 DEF CacheType
  <2>4. 0 \notin Buf
    BY DEF Buf
  <2>5. ASSUME NEW b \in Buf PROVE refcnt[b] = Cardinality(Users(b)) + Pins(b)
    <3>1. Users(b) = {}
      BY <2>1, <2>4 DEF Users
    <3>2. Cardinality(Users(b)) = 0 /\ Pins(b) = 0
      BY <2>1, <3>1, PinsAre, FS_EmptySet DEF Pins
    <3> QED
      BY <2>1, <3>2
  <2> QED
    BY <2>1, <2>3, <2>4, <2>5
       DEF CacheInv, Counted, OneBuffer, LocksHeld, BufUsed, BufNamed, PinsCached, Lockless
<1>2. CacheInv /\ [Next]_vars => CacheInv'
  <2> SUFFICES ASSUME CacheInv, [Next]_vars PROVE CacheInv'
    OBVIOUS
  <2>1. ASSUME NEW p \in Proc, Step(p) PROVE CacheInv'
    BY <2>1, LockedCache, RwCache, BunpinCache, BrelseCache, BrelseRefCache DEF Step
  <2>2. ASSUME NEW p \in Proc, Calls(p) PROVE CacheInv'
    BY <2>2, BreadCache, BpinCache, RwCache DEF Calls
  <2>3. CASE Handler \/ Device
    BY <2>3, IntrCache
  <2>4. CASE UNCHANGED vars
    <3>1. UNCHANGED <<machine, lru, blockno, refcnt, lock, buf, pinned, pc, panic>>
      BY <2>4 DEF vars, cachevars, bounds
    <3>2. Buf' = Buf /\ \A b : Users(b)' = Users(b) /\ Pins(b)' = Pins(b)
      BY <3>1 DEF Buf, NBUF, Users, Pins
    <3> QED
      BY <3>1, <3>2 DEF CacheInv, CacheType, Counted, OneBuffer, LocksHeld, BufUsed, BufNamed, PinsCached
  <2> QED
    BY <2>1, <2>2, <2>3, <2>4 DEF Next
<1> QED
  BY <1>1, <1>2, PTL DEF Spec

\* bget(), brelse(), bpin(), bunpin(): for any number of processes, buffers and
\* blocks, refcnt counts exactly the users of a buffer and its pin, a block is
\* never in two buffers, and who works on a buffer has its sleep lock.
THEOREM RefcntExactHolds == Spec => []RefcntExact
<1>1. CacheInv => RefcntExact
  BY DEF CacheInv, RefcntExact, Counted, OneBuffer, LocksHeld, Lockless, Users, Pins
<1> QED
  BY CacheInvariance, <1>1, PTL

----------------------------------------------------------------------------
(***************************************************************************)
(* The driver of the disk: DiskInv relates the chains of descriptors to    *)
(* the processes that wait, both rings to the requests that the device or  *)
(* the handler has not seen, and each buffer to its block on the disk      *)
(***************************************************************************)
\* Where a process is in a request that it has made: the device has it or has
\* done it, and the handler has woken the process.
Waits == {"read-wait", "write-wait"}
Dones == {"read-done", "write-done"}
Waiting == {p \in Proc : pc[p] \in Waits \union Dones}
Reading == {"read", "read-sleep", "readagain", "read-wait", "read-done"}
Contents == Value \union {Blank}
Index16 == 0 .. UINT16 - 1

DiskType ==
  /\ free \in [Desc -> BOOLEAN] /\ DOMAIN desc = Desc /\ head \in [Proc -> Desc]
  /\ info \in [Desc -> [b : Buf \union {0}, ok : BOOLEAN]]
  /\ avail \in [idx : Index16, ring : [Desc -> Desc]] /\ last_avail \in Index16
  /\ used \in [idx : Index16, ring : [Desc -> Desc]] /\ used_idx \in Index16
  /\ disk \in [Buf -> BOOLEAN] /\ valid \in [Buf -> BOOLEAN]
  /\ data \in [Buf -> Contents \union {NoValue}] /\ media \in [Block -> Contents]
  /\ \A b \in Buf : \E k \in 1 .. NBUF : lru[k] = b

\* The descriptors of a request, and what they say.
Owned(p) == {head[p], desc[head[p]].next, desc[desc[head[p]].next].next}
Request(p, h, d, s) ==
  /\ d \in Desc /\ s \in Desc /\ h # d /\ h # s /\ d # s
  /\ desc[h].addr = <<"op", IF pc[p] \in {"write-wait", "write-done"} THEN "OUT" ELSE "IN",
                      blockno[buf[p]]>>
  /\ "NEXT" \in desc[h].flags /\ desc[h].next = d
  /\ desc[d].addr = <<"data", buf[p]>> /\ "NEXT" \in desc[d].flags /\ desc[d].next = s
  /\ desc[s].addr = <<"status", h>> /\ "NEXT" \notin desc[s].flags
Requests == \A p \in Waiting : \E d, s \in Desc : Request(p, head[p], d, s)

OwnedApart == \A p, q \in Waiting : p # q => Owned(p) \intersect Owned(q) = {}
OwnedBusy == \A d \in Desc : ~free[d] <=> \E p \in Waiting : d \in Owned(p)
Reported == \A p \in Waiting : info[head[p]].b = buf[p] /\ (disk[buf[p]] <=> pc[p] \in Waits)

\* A ring [idx, ring] and the reader's index i: how far it is behind, and the
\* entries that it has not read.
Behind(j, i) == (j - i) % UINT16
Entry(q, i, k) == q.ring[(i + k) % NUM]
Entries(q, i) == {Entry(q, i, k) : k \in 0 .. Behind(q.idx, i) - 1}
EntriesDiffer(q, i) ==
  \A j, k \in 0 .. Behind(q.idx, i) - 1 : j # k => Entry(q, i, j) # Entry(q, i, k)

\* The requests that the device has not done, and those that the handler has not seen.
Pending == {head[p] : p \in {q \in Proc : pc[q] \in Waits /\ ~info[head[q]].ok}}
Finished == {head[p] : p \in {q \in Proc : pc[q] \in Waits /\ info[head[q]].ok}}
Queues == /\ taken \union Entries(avail, last_avail) = Pending /\ EntriesDiffer(avail, last_avail)
          /\ Entries(used, used_idx) = Finished /\ EntriesDiffer(used, used_idx)

\* The buffers and the disk.
Same(b) == data[b] = media[blockno[b]]
Done(p) == pc[p] \in Dones \/ (pc[p] \in Waits /\ info[head[p]].ok)
Writes(p) == pc[p] \in {"write", "write-sleep", "writeagain", "write-wait"}
Contained == \A b \in Buf : valid[b] => blockno[b] \in Block /\ data[b] \in Contents
HolderValid == \A p \in Proc : (Has(p) => valid[buf[p]]) /\ (pc[p] \in Reading => ~valid[buf[p]])
TransferDone == \A p \in Proc : Done(p) \/ pc[p] = "written" => Same(buf[p])
CleanSame == \A b \in Buf : valid[b] /\ blockno[b] \notin pinned
                            /\ (\A p \in Proc : buf[p] = b => ~Writes(p)) => Same(b)
PinnedValid == \A b \in Buf : blockno[b] \in pinned => valid[b]

GaveUp == panic => \E p \in Proc : pc[p] = "acquiresleep" /\ buf[p] = 0

DiskInv ==
  /\ DiskType /\ Requests /\ OwnedApart /\ OwnedBusy /\ Reported /\ Queues
  /\ Contained /\ HolderValid /\ TransferDone /\ CleanSame /\ PinnedValid /\ GaveUp

\* What is assumed of the constants.
LEMMA DiskConstants ==
  ASSUME machine \in Machines
  PROVE  /\ NUM \in Nat \ {0} /\ NUM >= 3 /\ UINT16 \in Nat \ {0} /\ NUM < UINT16 /\ UINT16 % NUM = 0
         /\ machine.served \in Index16 /\ NBUF \in Nat \ {0}
         /\ Blank \notin Value /\ NoBlock \notin Block
<1>1. /\ machine.NUM \in 3 .. UINT16 - 1 /\ UINT16 % machine.NUM = 0 /\ UINT16 \in Nat
      /\ machine.served \in 0 .. UINT16 - 1 /\ machine.NBUF \in Nat \ {0}
  BY DiskAssumption DEF DiskAssumption
<1> QED
  BY <1>1, DiskAssumption DEF DiskAssumption, NUM, NBUF, Index16

----------------------------------------------------------------------------
(***************************************************************************)
(* The rings of the virtio queue: indices modulo 2^16, slots modulo NUM    *)
(***************************************************************************)
\* An index, one further.
LEMMA IdxNext ==
  ASSUME NEW u \in Nat \ {0}, NEW i \in 0 .. u - 1
  PROVE  (i + 1) % u \in 0 .. u - 1 /\ (i + 1) % u = IF i = u - 1 THEN 0 ELSE i + 1
<1>1. CASE i = u - 1
  <2>1. u % u = 0
    OBVIOUS
  <2> QED
    BY <1>1, <2>1
<1>2. CASE i # u - 1
  <2>1. i + 1 \in 0 .. u - 1
    BY <1>2
  <2>2. (i + 1) % u = i + 1
    BY <2>1
  <2> QED
    BY <1>2, <2>1, <2>2
<1> QED
  BY <1>1, <1>2

\* How far the reader is behind.
LEMMA BehindIs ==
  ASSUME UINT16 \in Nat \ {0}, NEW i \in Index16, NEW j \in Index16
  PROVE  Behind(j, i) \in Index16 /\ Behind(j, i) = IF j >= i THEN j - i ELSE j - i + UINT16
<1>1. CASE j >= i
  <2>1. j - i \in 0 .. UINT16 - 1
    BY <1>1 DEF Index16
  <2>2. (j - i) % UINT16 = j - i
    BY <2>1
  <2> QED
    BY <1>1, <2>1, <2>2 DEF Behind, Index16
<1>2. CASE j < i
  <2>1. j - i + UINT16 \in 0 .. UINT16 - 1 /\ j - i \in Int
    BY <1>2 DEF Index16
  <2>2. (j - i) % UINT16 = j - i + UINT16
    BY <2>1
  <2> QED
    BY <1>2, <2>1, <2>2 DEF Behind, Index16
<1> QED
  BY <1>1, <1>2 DEF Index16

\* Whoever has read everything is not behind.
LEMMA BehindSelf ==
  ASSUME UINT16 \in Nat \ {0}, NEW j, j \in Index16
  PROVE  Behind(j, j) = 0
<1>1. Behind(j, j) = IF j >= j THEN j - j ELSE j - j + UINT16
  BY BehindIs
<1>2. j >= j /\ j - j = 0
  BY DEF Index16
<1> QED
  BY <1>1, <1>2

\* The slot of an index does not change when the index wraps, as NUM divides 2^16.
LEMMA SlotWraps ==
  ASSUME NEW n \in Nat \ {0}, NEW u \in Nat, u % n = 0, NEW i \in Nat
  PROVE  i % n \in 0 .. n - 1 /\ (i + u) % n = i % n
<1> DEFINE a == i % n
           x == i \div n
           c == u \div n
<1>1. a \in 0 .. n - 1 /\ x \in Int /\ i = n * x + a
  OBVIOUS
<1>2. c \in Int /\ u = n * c
  OBVIOUS
<1> HIDE DEF a, x, c
<1>3. (x + c) \in Int /\ i + u = n * (x + c) + a
  BY <1>1, <1>2
<1> DEFINE f == x + c
<1>4. f \in Int /\ i + u = n * f + a
  BY <1>3
<1> HIDE DEF f
<1>5. (n * f + a) % n = a
  BY <1>1, <1>4, SMTT(30)
<1> QED
  BY <1>1, <1>4, <1>5 DEF a

\* The slots of what was read: from one index further, and from the writer's.
LEMMA SlotNext ==
  ASSUME NEW n \in Nat \ {0}, NEW u \in Nat \ {0}, u % n = 0, NEW i \in 0 .. u - 1, NEW k \in Nat
  PROVE  (((i + 1) % u) + k) % n = (i + (k + 1)) % n
<1>1. PICK x, y : x = ((i + 1) % u) + k /\ y = i + (k + 1)
  OBVIOUS
<1>2. CASE i = u - 1
  <2>1. x = k /\ y = k + u
    BY <1>1, <1>2, IdxNext
  <2>2. (k + u) % n = k % n
    BY SlotWraps
  <2> QED
    BY <1>1, <2>1, <2>2
<1>3. CASE i # u - 1
  <2>1. PICK a \in Int : a = (i + 1) % u /\ a = i + 1
    BY <1>3, IdxNext
  <2>2. x = a + k /\ a + k = y
    BY <1>1, <2>1
  <2> QED
    BY <1>1, <2>2
<1> QED
  BY <1>2, <1>3

LEMMA SlotBehind ==
  ASSUME machine \in Machines, NEW i \in Index16, NEW j \in Index16
  PROVE  j % NUM = (i + Behind(j, i)) % NUM /\ j % NUM \in Desc
<1>1. j \in Nat /\ i \in Nat
  BY DiskConstants DEF Index16
<1>2. i + Behind(j, i) = j \/ i + Behind(j, i) = j + UINT16
  BY <1>1, BehindIs, DiskConstants
<1>3. j % NUM \in 0 .. NUM - 1 /\ (j + UINT16) % NUM = j % NUM
  BY <1>1, SlotWraps, DiskConstants
<1> QED
  BY <1>2, <1>3 DEF Desc

Queue == [idx : Index16, ring : [Desc -> Desc]]

\* An entry is a descriptor.
LEMMA EntryIs ==
  ASSUME machine \in Machines, NEW q \in Queue, NEW i \in Index16
  PROVE  /\ \A k \in Nat : (i + k) % NUM \in Desc /\ Entry(q, i, k) \in Desc
         /\ Behind(q.idx, i) \in Nat /\ Entries(q, i) \subseteq Desc
<1>1. q.ring \in [Desc -> Desc] /\ q.idx \in Index16 /\ i \in Nat
  BY DiskConstants DEF Queue, Index16
<1>2. ASSUME NEW k \in Nat PROVE (i + k) % NUM \in Desc
  BY <1>1, DiskConstants DEF Desc
<1>3. Behind(q.idx, i) \in Nat
  BY <1>1, BehindIs, DiskConstants DEF Index16
<1>4. ASSUME NEW k \in Nat PROVE Entry(q, i, k) \in Desc
  BY <1>1, <1>2, <1>4 DEF Entry
<1> QED
  BY <1>2, <1>3, <1>4 DEF Entries

\* As long as its entries differ and some descriptor is not among them, there is
\* room for one more.
LEMMA RoomInRing ==
  ASSUME machine \in Machines, NEW q \in Queue, NEW i \in Index16, EntriesDiffer(q, i),
         NEW x \in Desc, x \notin Entries(q, i)
  PROVE  Behind(q.idx, i) < NUM
<1> DEFINE c == Behind(q.idx, i)
           S == 0 .. NUM - 1
           T == Desc \ {x}
           f == [k \in S |-> Entry(q, i, k)]
<1>1. c \in Nat /\ NUM \in Nat \ {0}
  BY EntryIs, DiskConstants
<1> SUFFICES ASSUME c >= NUM PROVE FALSE
  BY <1>1
<1>2. \A k \in S : k \in 0 .. c - 1
  BY <1>1
<1>3. f \in [S -> T]
  <2>1. ASSUME NEW k \in S PROVE Entry(q, i, k) \in T
    <3>1. Entry(q, i, k) \in Desc /\ Entry(q, i, k) \in Entries(q, i)
      BY <1>1, <1>2, EntryIs DEF Entries
    <3> QED
      BY <3>1
  <2> QED
    BY <2>1
<1>4. /\ IsFiniteSet(S) /\ Cardinality(S) = NUM
      /\ IsFiniteSet(T) /\ Cardinality(T) = NUM - 1
  <2>0. 0 \in Int /\ NUM - 1 \in Int /\ NUM - 1 >= 0
    BY <1>1
  <2>1. IsFiniteSet(S) /\ Cardinality(S) = NUM - 1 - 0 + 1
    BY <2>0, FS_Interval
  <2>2. S = Desc
    BY DEF Desc
  <2> QED
    BY <1>1, <2>1, <2>2, FS_RemoveElement
<1> HIDE DEF f, S, T
<1>5. \E a, b \in S : a # b /\ f[a] = f[b]
  BY <1>1, <1>3, <1>4, FS_PigeonHole
<1> QED
  BY <1>2, <1>5 DEF f, EntriesDiffer, c

\* The writer appends an entry.
LEMMA EntryAdded ==
  ASSUME machine \in Machines, NEW q \in Queue, NEW i \in Index16, EntriesDiffer(q, i),
         NEW x \in Desc, x \notin Entries(q, i), NEW t,
         t = [idx |-> (q.idx + 1) % UINT16, ring |-> [q.ring EXCEPT ![q.idx % NUM] = x]]
  PROVE  t \in Queue /\ Entries(t, i) = Entries(q, i) \union {x} /\ EntriesDiffer(t, i)
<1>1. PICK c \in Nat : c = Behind(q.idx, i) /\ c < NUM
  BY EntryIs, RoomInRing
<1>2. q.ring \in [Desc -> Desc] /\ q.idx \in Index16 /\ i \in Nat /\ NUM \in Nat \ {0}
  BY DiskConstants DEF Queue, Index16
<1>3. t.idx \in Index16 /\ t.idx = IF q.idx = UINT16 - 1 THEN 0 ELSE q.idx + 1
  BY <1>2, IdxNext, DiskConstants DEF Index16
<1>4. Behind(t.idx, i) = c + 1
  <2>1. c = IF q.idx >= i THEN q.idx - i ELSE q.idx - i + UINT16
    BY <1>1, <1>2, BehindIs, DiskConstants
  <2>2. Behind(t.idx, i) = IF t.idx >= i THEN t.idx - i ELSE t.idx - i + UINT16
    BY <1>3, BehindIs, DiskConstants
  <2> QED
    BY <1>1, <1>2, <1>3, <2>1, <2>2, DiskConstants DEF Index16
<1>5. q.idx % NUM = (i + c) % NUM /\ q.idx % NUM \in Desc
  BY <1>1, <1>2, SlotBehind
<1>6. t.ring \in [Desc -> Desc] /\ t.ring[q.idx % NUM] = x
      /\ \A d \in Desc : d # q.idx % NUM => t.ring[d] = q.ring[d]
  BY <1>2, <1>5
<1>7. t \in Queue
  BY <1>3, <1>6 DEF Queue
<1>8. Entry(t, i, c) = x
  BY <1>5, <1>6 DEF Entry
<1>9. ASSUME NEW k \in 0 .. c - 1 PROVE Entry(t, i, k) = Entry(q, i, k)
  <2>1. i + k \in Nat /\ i + c \in Nat /\ i + k < i + c /\ i + c < i + k + NUM
    BY <1>1, <1>2
  <2>2. (i + k) % NUM \in Desc /\ (i + k) % NUM # (i + c) % NUM
    BY <1>2, <2>1, SlotsDistinct DEF SlotIn, Desc
  <2> QED
    BY <1>5, <1>6, <2>2 DEF Entry
<1>10. 0 .. (c + 1) - 1 = (0 .. c - 1) \union {c}
  BY <1>1
<1>11. Entries(t, i) = Entries(q, i) \union {x}
  BY <1>1, <1>4, <1>8, <1>9, <1>10 DEF Entries
<1>12. EntriesDiffer(t, i)
  <2> SUFFICES ASSUME NEW j \in 0 .. c, NEW k \in 0 .. c, j # k PROVE Entry(t, i, j) # Entry(t, i, k)
    BY <1>1, <1>4 DEF EntriesDiffer
  <2>1. \A m \in 0 .. c - 1 : Entry(q, i, m) # x
    BY <1>1 DEF Entries
  <2>2. CASE j # c /\ k # c
    <3>1. j \in 0 .. c - 1 /\ k \in 0 .. c - 1
      BY <1>1, <2>2
    <3> QED
      BY <1>1, <1>9, <3>1 DEF EntriesDiffer
  <2>3. CASE j = c
    <3>1. k \in 0 .. c - 1
      BY <1>1, <2>3
    <3> QED
      BY <1>8, <1>9, <2>1, <2>3, <3>1
  <2>4. CASE k = c
    <3>1. j \in 0 .. c - 1
      BY <1>1, <2>4
    <3> QED
      BY <1>8, <1>9, <2>1, <2>4, <3>1
  <2> QED
    BY <2>2, <2>3, <2>4
<1> QED
  BY <1>7, <1>11, <1>12

\* The reader takes the first entry away.
LEMMA EntryTaken ==
  ASSUME machine \in Machines, NEW q \in Queue, NEW i \in Index16, EntriesDiffer(q, i),
         i # q.idx, NEW x, x = q.ring[i % NUM], NEW i2, i2 = (i + 1) % UINT16
  PROVE  /\ i2 \in Index16 /\ x \in Entries(q, i) /\ x \in Desc
         /\ Entries(q, i2) = Entries(q, i) \ {x} /\ EntriesDiffer(q, i2)
<1>1. PICK c \in Nat : c = Behind(q.idx, i)
  BY EntryIs
<1>2. q.ring \in [Desc -> Desc] /\ q.idx \in Index16 /\ i \in Nat /\ UINT16 \in Nat \ {0}
  BY DiskConstants DEF Queue, Index16
<1>3. i2 \in Index16 /\ i2 = IF i = UINT16 - 1 THEN 0 ELSE i + 1
  BY <1>2, IdxNext DEF Index16
<1>4. c > 0 /\ Behind(q.idx, i2) = c - 1
  <2>1. c = IF q.idx >= i THEN q.idx - i ELSE q.idx - i + UINT16
    BY <1>1, <1>2, BehindIs
  <2>2. Behind(q.idx, i2) = IF q.idx >= i2 THEN q.idx - i2 ELSE q.idx - i2 + UINT16
    BY <1>2, <1>3, BehindIs
  <2> QED
    BY <1>2, <1>3, <2>1, <2>2 DEF Index16
<1>5. ASSUME NEW k \in Nat PROVE Entry(q, i2, k) = Entry(q, i, k + 1)
  <2>1. (((i + 1) % UINT16) + k) % NUM = (i + (k + 1)) % NUM
    BY <1>2, <1>5, SlotNext, DiskConstants DEF Index16
  <2> QED
    BY <2>1 DEF Entry
<1>6. x = Entry(q, i, 0) /\ x \in Desc /\ 0 \in 0 .. c - 1
  <2>1. i + 0 = i
    BY <1>2
  <2> QED
    BY <1>4, <2>1, EntryIs DEF Entry
<1>7. x \in Entries(q, i)
  BY <1>1, <1>6 DEF Entries
<1>8. \A k \in 0 .. (c - 1) - 1 : k \in Nat /\ k + 1 \in 0 .. c - 1 /\ k + 1 # 0
  BY <1>4
<1>9. EntriesDiffer(q, i2)
  <2> SUFFICES ASSUME NEW j \in 0 .. (c - 1) - 1, NEW k \in 0 .. (c - 1) - 1, j # k
               PROVE  Entry(q, i2, j) # Entry(q, i2, k)
    BY <1>4 DEF EntriesDiffer
  <2>1. j + 1 \in 0 .. c - 1 /\ k + 1 \in 0 .. c - 1 /\ j + 1 # k + 1
    BY <1>8
  <2> QED
    BY <1>1, <1>5, <1>8, <2>1 DEF EntriesDiffer
<1>10. ASSUME NEW y \in Entries(q, i2) PROVE y \in Entries(q, i) /\ y # x
  <2>1. PICK k \in 0 .. (c - 1) - 1 : y = Entry(q, i2, k)
    BY <1>4 DEF Entries
  <2>2. y = Entry(q, i, k + 1) /\ k + 1 \in 0 .. c - 1 /\ k + 1 # 0
    BY <1>5, <1>8, <2>1
  <2> QED
    BY <1>1, <1>6, <2>2 DEF Entries, EntriesDiffer
<1>11. ASSUME NEW y \in Entries(q, i), y # x PROVE y \in Entries(q, i2)
  <2>1. PICK k \in 0 .. c - 1 : y = Entry(q, i, k)
    BY <1>1 DEF Entries
  <2>2. k # 0
    BY <1>6, <1>11, <2>1
  <2>3. k - 1 \in 0 .. (c - 1) - 1 /\ k - 1 \in Nat /\ (k - 1) + 1 = k
    BY <2>2
  <2>4. y = Entry(q, i2, k - 1)
    BY <1>5, <2>1, <2>3
  <2> QED
    BY <1>4, <2>3, <2>4 DEF Entries
<1> QED
  BY <1>3, <1>6, <1>7, <1>9, <1>10, <1>11

----------------------------------------------------------------------------
(***************************************************************************)
(* The descriptors                                                         *)
(***************************************************************************)
\* A set of descriptors that is not empty has a lowest one.
LEMMA LowestOf ==
  ASSUME NEW S \in SUBSET Nat, S # {}
  PROVE  \E a \in S : \A x \in S : x # a => a < x
<1>1. \E a \in S : \A x \in S : ~(<<x, a>> \in OpToRel(<, Nat))
  BY WFMin, NatLessThanWellFounded
<1>2. PICK a \in S : \A x \in S : ~(x < a)
  BY <1>1 DEF OpToRel
<1> QED
  BY <1>2

\* How many members of S are below d.
Rank(S, d) == Cardinality({x \in S : x < d})

\* A finite set of three or more numbers has a member of rank 0, 1 and 2.
LEMMA RanksAre ==
  ASSUME NEW S \in SUBSET Nat, IsFiniteSet(S), Cardinality(S) >= 3
  PROVE  \A k \in 1 .. 3 : \E d \in S : Rank(S, d) = k - 1
<1>1. S # {}
  BY FS_EmptySet
<1>2. PICK a \in S : \A x \in S : x # a => a < x
  BY <1>1, LowestOf
<1>3. PICK T : T = S \ {a}
  OBVIOUS
<1>4. IsFiniteSet(T) /\ Cardinality(T) = Cardinality(S) - 1 /\ Cardinality(S) \in Nat
  BY <1>3, FS_RemoveElement, FS_CardinalityType
<1>5. T # {} /\ T \in SUBSET Nat
  BY <1>3, <1>4, FS_EmptySet
<1>6. PICK b \in T : \A x \in T : x # b => b < x
  BY <1>5, LowestOf
<1>7. PICK R : R = T \ {b}
  OBVIOUS
<1>8. Cardinality(R) = Cardinality(T) - 1
  BY <1>4, <1>7, FS_RemoveElement
<1>9. R # {} /\ R \in SUBSET Nat
  BY <1>4, <1>5, <1>7, <1>8, FS_EmptySet
<1>10. PICK c \in R : \A x \in R : x # c => c < x
  BY <1>9, LowestOf
<1>11. a \in Nat /\ b \in Nat /\ c \in Nat /\ a < b /\ b < c /\ a \in S /\ b \in S /\ c \in S
  BY <1>2, <1>3, <1>6, <1>7, <1>10
<1>12. \A x \in S : x = a \/ x = b \/ x = c \/ c < x
  BY <1>3, <1>7, <1>10
<1>13. {x \in S : x < a} = {}
  <2>1. ASSUME NEW x \in S PROVE ~(x < a)
    BY <1>11, <1>12
  <2> QED
    BY <2>1
<1>14. {x \in S : x < b} = {a}
  <2>1. ASSUME NEW x \in S PROVE x < b <=> x = a
    BY <1>11, <1>12
  <2> QED
    BY <1>11, <2>1
<1>15. {x \in S : x < c} = {a, b}
  <2>1. ASSUME NEW x \in S PROVE x < c <=> x = a \/ x = b
    BY <1>11, <1>12
  <2> QED
    BY <1>11, <2>1
<1>16. Rank(S, a) = 0
  BY <1>13, FS_EmptySet DEF Rank
<1>17. Rank(S, b) = 1
  BY <1>14, FS_Singleton DEF Rank
<1>18. Rank(S, c) = 2
  <2>0. a # b
    BY <1>11
  <2>1. IsFiniteSet({a}) /\ Cardinality({a}) = 1 /\ b \notin {a} /\ {a, b} = {a} \union {b}
    BY <2>0, FS_Singleton
  <2>2. Cardinality({a} \union {b}) = Cardinality({a}) + 1
    BY <2>1, FS_AddElement
  <2>3. Cardinality({a, b}) = 2
    BY <2>1, <2>2
  <2> QED
    BY <1>15, <2>3 DEF Rank
<1> SUFFICES ASSUME NEW k \in 1 .. 3 PROVE \E d \in S : Rank(S, d) = k - 1
  OBVIOUS
<1>19. k = 1 \/ k = 2 \/ k = 3
  OBVIOUS
<1> QED
  BY <1>11, <1>16, <1>17, <1>18, <1>19

\* alloc3_desc() succeeds with three different free descriptors.
LEMMA LowestAre ==
  ASSUME machine \in Machines, Len(Lowest(3)) = 3
  PROVE  \E h, d, s \in Desc : /\ h # d /\ h # s /\ d # s /\ free[h] /\ free[d] /\ free[s]
                               /\ Lowest(3)[1] = h /\ Lowest(3)[2] = d /\ Lowest(3)[3] = s
                               /\ Range(Lowest(3)) = {h, d, s}
<1>1. PICK S : S = {d \in Desc : free[d]}
  OBVIOUS
<1>2. S \in SUBSET Nat /\ S \subseteq Desc
  BY <1>1, DiskConstants DEF Desc
<1>3. IsFiniteSet(S)
  <2>1. 0 \in Int /\ NUM - 1 \in Int
    BY DiskConstants
  <2>2. IsFiniteSet(Desc)
    BY <2>1, FS_Interval DEF Desc
  <2> QED
    BY <1>2, <2>2, FS_Subset
<1>4. PICK m \in Nat : m = IF Cardinality(S) < 3 THEN Cardinality(S) ELSE 3
  BY <1>3, FS_CardinalityType
<1>5. PICK f : f = [k \in 1 .. m |-> CHOOSE d \in S : Rank(S, d) = k - 1]
  OBVIOUS
<1>6. Lowest(3) = f
  BY <1>1, <1>4, <1>5 DEF Lowest, Rank
<1>7. Len(f) = m
  BY <1>5
<1>8. m = 3 /\ Cardinality(S) >= 3
  BY <1>3, <1>4, <1>6, <1>7, FS_CardinalityType
<1>9. \A k \in 1 .. 3 : \E d \in S : Rank(S, d) = k - 1
  BY <1>2, <1>3, <1>8, RanksAre
<1>10. \A k \in 1 .. 3 : f[k] \in S /\ Rank(S, f[k]) = k - 1
  BY <1>5, <1>8, <1>9
<1>11. /\ f[1] \in S /\ f[2] \in S /\ f[3] \in S
       /\ Rank(S, f[1]) = 0 /\ Rank(S, f[2]) = 1 /\ Rank(S, f[3]) = 2
  BY <1>10
<1>12. f[1] # f[2] /\ f[1] # f[3] /\ f[2] # f[3]
  BY <1>11
<1>13. Range(f) = {f[1], f[2], f[3]}
  <2>1. DOMAIN f = {1, 2, 3}
    BY <1>5, <1>8
  <2> QED
    BY <2>1 DEF Range
<1> QED
  BY <1>1, <1>2, <1>6, <1>11, <1>12, <1>13

\* free_chain() finds exactly the descriptors of a request.
LEMMA ChainIs ==
  ASSUME NEW p \in Proc, NEW d \in Desc, NEW s \in Desc, Request(p, head[p], d, s)
  PROVE  ChainOf(head[p]) = {head[p], d, s} /\ Owned(p) = {head[p], d, s}
  BY DEF Request, ChainOf, Owned

LEMMA ThreeAre ==
  ASSUME NEW a, NEW b, NEW c, a # b, a # c, b # c
  PROVE  Cardinality({a, b, c}) = 3
<1>1. IsFiniteSet({a}) /\ Cardinality({a}) = 1 /\ b \notin {a} /\ {a, b} = {a} \union {b}
  BY FS_Singleton
<1>2. IsFiniteSet({a} \union {b}) /\ Cardinality({a} \union {b}) = Cardinality({a}) + 1
  BY <1>1, FS_AddElement
<1>3. IsFiniteSet({a, b}) /\ Cardinality({a, b}) = 2 /\ c \notin {a, b} /\ {a, b, c} = {a, b} \union {c}
  BY <1>1, <1>2
<1>4. Cardinality({a, b} \union {c}) = Cardinality({a, b}) + 1
  BY <1>3, FS_AddElement
<1> QED
  BY <1>3, <1>4

\* DescsExact follows from the invariants.
LEMMA DescsFollow == ASSUME CacheInv, DiskInv PROVE DescsExact
<1>1. CacheType /\ DiskType /\ machine \in Machines
  BY DEF CacheInv, DiskInv, CacheType
<1>2. TypeOK
  <2>1. Range(lru) = Buf
    <3>1. lru \in [Buf -> Buf] /\ \A b \in Buf : \E k \in Buf : lru[k] = b
      BY <1>1 DEF CacheType, DiskType, Buf
    <3> QED
      BY <3>1 DEF Range
  <2>2. refcnt \in [Buf -> Nat]
    <3>1. \A b \in Buf : refcnt[b] \in Nat
      <4> TAKE b \in Buf
      <4>1. refcnt[b] = Cardinality(Users(b)) + Pins(b)
        BY DEF CacheInv, Counted
      <4>2. Cardinality(Users(b)) \in Nat /\ Pins(b) \in Nat
        BY UsersFinite, PinsAre DEF Pins
      <4> QED
        BY <4>1, <4>2
    <3> QED
      BY <1>1, <3>1 DEF CacheType
  <2>3. taken \subseteq Desc
    <3>1. Pending \subseteq Desc
      BY <1>1 DEF Pending, DiskType
    <3> QED
      BY <3>1 DEF DiskInv, Queues
  <2> QED
    BY <1>1, <2>1, <2>2, <2>3 DEF TypeOK, CacheType, DiskType, Contents, Index16
<1>3. \A p \in Waiting : /\ ChainOf(head[p]) = Owned(p) /\ Cardinality(Owned(p)) = 3
                         /\ info[head[p]].b = buf[p] /\ (disk[buf[p]] <=> pc[p] \in Waits)
  <2> TAKE p \in Waiting
  <2>1. p \in Proc
    BY DEF Waiting
  <2>2. PICK d, s \in Desc : Request(p, head[p], d, s)
    BY DEF DiskInv, Requests
  <2>3. ChainOf(head[p]) = {head[p], d, s} /\ Owned(p) = {head[p], d, s}
    BY <2>1, <2>2, ChainIs
  <2>4. head[p] # d /\ head[p] # s /\ d # s
    BY <2>2 DEF Request
  <2>5. Cardinality({head[p], d, s}) = 3
    BY <2>4, ThreeAre
  <2> QED
    BY <2>3, <2>5 DEF DiskInv, Reported
<1>4. ASSUME NEW d \in Desc
      PROVE  Cardinality({p \in Waiting : d \in ChainOf(head[p])}) = IF free[d] THEN 0 ELSE 1
  <2>1. CASE free[d]
    <3>1. {p \in Waiting : d \in ChainOf(head[p])} = {}
      BY <1>3, <2>1 DEF DiskInv, OwnedBusy
    <3> QED
      BY <2>1, <3>1, FS_EmptySet
  <2>2. CASE ~free[d]
    <3>1. PICK p \in Waiting : d \in Owned(p)
      BY <2>2 DEF DiskInv, OwnedBusy
    <3>2. \A q \in Waiting : d \in Owned(q) => q = p
      BY <3>1 DEF DiskInv, OwnedApart
    <3>3. {q \in Waiting : d \in ChainOf(head[q])} = {p}
      BY <1>3, <3>1, <3>2
    <3> QED
      BY <2>2, <3>3, FS_Singleton
  <2> QED
    BY <2>1, <2>2
<1>5. Waiting = {p \in Proc : pc[p] \in {"read-wait", "write-wait", "read-done", "write-done"}}
  BY DEF Waiting, Waits, Dones
<1>6. \A p \in Waiting : /\ Cardinality(ChainOf(head[p])) = 3 /\ info[head[p]].b = buf[p]
                         /\ disk[buf[p]] = (pc[p] \in {"read-wait", "write-wait"})
  <2> TAKE p \in Waiting
  <2>1. disk[buf[p]] \in BOOLEAN
    <3>1. buf[p] \in Buf
      BY DEF CacheInv, LocksHeld, Waiting, Waits, Dones, Lockless
    <3> QED
      BY <1>1, <3>1 DEF DiskType
  <2> QED
    BY <1>3, <2>1 DEF Waits
<1> QED
  BY <1>2, <1>4, <1>5, <1>6 DEF DescsExact, DiskInv, GaveUp

----------------------------------------------------------------------------
(***************************************************************************)
(* DiskInv: steps that leave the queue alone                               *)
(***************************************************************************)
\* Two processes with locks have different buffers, with different blocks.
LEMMA HoldersDiffer ==
  ASSUME CacheInv, NEW p \in Proc, pc[p] \notin Lockless
  PROVE  /\ buf[p] \in Buf /\ blockno[buf[p]] \in Block
         /\ \A q \in Proc : q # p /\ pc[q] \notin Lockless => buf[q] \in Buf /\ buf[q] # buf[p]
         /\ \A c \in Buf : c # buf[p] => blockno[c] # blockno[buf[p]]
<1>1. buf[p] \in Buf /\ lock[buf[p]] = p /\ blockno[buf[p]] \in Block
  BY DEF CacheInv, LocksHeld, BufNamed
<1>2. \A q \in Proc : q # p /\ pc[q] \notin Lockless => buf[q] \in Buf /\ buf[q] # buf[p]
  BY <1>1 DEF CacheInv, LocksHeld
<1>3. \A c \in Buf : c # buf[p] => blockno[c] # blockno[buf[p]]
  BY <1>1, CacheConstants DEF CacheInv, OneBuffer
<1> QED
  BY <1>1, <1>2, <1>3

\* Which places are under the lock of a buffer.
LEMMA PlacesLocked ==
  ASSUME NEW p \in Proc
  PROVE  /\ pc[p] \in Waits \union Dones \union Reading \union {"written"} => pc[p] \notin Lockless
         /\ Has(p) \/ Writes(p) \/ Done(p) \/ p \in Waiting => pc[p] \notin Lockless
  BY DEF Waits, Dones, Reading, Lockless, Has, Writes, Done, Waiting

\* No request is made or ends.
LEMMA QueueFrame ==
  ASSUME CacheInv, DiskInv,
         UNCHANGED <<machine, free, desc, avail, info, used_idx, taken, last_avail, used, head, disk>>,
         \A p \in Proc :
           \/ pc'[p] \notin Waits \union Dones /\ pc[p] \notin Waits \union Dones
           \/ pc'[p] = pc[p] /\ buf'[p] = buf[p] /\ blockno'[buf[p]] = blockno[buf[p]]
  PROVE  Requests' /\ OwnedApart' /\ OwnedBusy' /\ Reported' /\ Queues'
<1>1. Desc' = Desc /\ NUM' = NUM
  BY DEF Desc, NUM
<1>2. Waiting' = Waiting
  BY DEF Waiting
<1>3. \A p \in Waiting : /\ pc'[p] = pc[p] /\ buf'[p] = buf[p] /\ blockno'[buf[p]] = blockno[buf[p]]
                         /\ p \in Proc
  BY DEF Waiting
<1>4. \A p : Owned(p)' = Owned(p)
  BY DEF Owned
<1>5. Requests'
  <2> SUFFICES ASSUME NEW p \in Waiting PROVE \E d, s \in Desc : Request(p, head[p], d, s)'
    BY <1>1, <1>2 DEF Requests
  <2>1. PICK d, s \in Desc : Request(p, head[p], d, s)
    BY DEF DiskInv, Requests
  <2>2. Request(p, head[p], d, s)'
    BY <1>1, <1>3, <2>1 DEF Request
  <2> QED
    BY <2>2
<1>6. OwnedApart' /\ OwnedBusy'
  BY <1>1, <1>2, <1>4 DEF DiskInv, OwnedApart, OwnedBusy
<1>7. Reported'
  BY <1>2, <1>3 DEF DiskInv, Reported
<1>8. Pending' = Pending /\ Finished' = Finished
  <2>1. \A p \in Proc : pc'[p] \in Waits <=> pc[p] \in Waits
    BY DEF Waits, Dones
  <2> QED
    BY <2>1 DEF Pending, Finished
<1>9. /\ Entries(avail, last_avail)' = Entries(avail, last_avail)
      /\ EntriesDiffer(avail, last_avail)' = EntriesDiffer(avail, last_avail)
      /\ Entries(used, used_idx)' = Entries(used, used_idx)
      /\ EntriesDiffer(used, used_idx)' = EntriesDiffer(used, used_idx)
  BY <1>1 DEF Entries, EntriesDiffer, Entry, Behind
<1>10. Queues'
  BY <1>8, <1>9 DEF DiskInv, Queues
<1> QED
  BY <1>5, <1>6, <1>7, <1>10

\* No content changes.
LEMMA ContentsFrame ==
  ASSUME CacheInv, DiskInv, UNCHANGED <<machine, blockno, valid, data, media, pinned>>,
         \A p \in Proc : pc'[p] \notin Lockless => buf'[p] = buf[p],
         \A p \in Proc : Has(p)' => valid[buf[p]],
         \A p \in Proc : pc'[p] \in Reading => ~valid[buf[p]],
         \A p \in Proc : Done(p)' \/ pc'[p] = "written" => Same(buf[p]),
         \A p \in Proc : Writes(p) => Writes(p)' \/ Same(buf[p])
  PROVE  Contained' /\ HolderValid' /\ TransferDone' /\ CleanSame' /\ PinnedValid'
<1>1. Buf' = Buf /\ \A b : Same(b)' = Same(b)
  BY DEF Buf, NBUF, Same
<1>2. Contained' /\ PinnedValid'
  BY <1>1 DEF DiskInv, Contained, PinnedValid
<1>3. \A p \in Proc : /\ Has(p)' \/ Writes(p)' \/ Done(p)' => buf'[p] = buf[p]
                      /\ pc'[p] \in Reading \union {"written"} => buf'[p] = buf[p]
  BY DEF Waits, Dones, Reading, Lockless, Has, Writes, Done
<1>4. HolderValid'
  BY <1>3 DEF HolderValid
<1>5. TransferDone'
  <2>1. ASSUME NEW p \in Proc, Done(p)' \/ pc'[p] = "written"
        PROVE  data'[buf'[p]] = media'[blockno'[buf'[p]]]
    <3>1. Same(buf[p]) /\ buf'[p] = buf[p]
      BY <1>3, <2>1
    <3> QED
      BY <3>1 DEF Same
  <2> QED
    BY <2>1 DEF TransferDone, Same
<1>6. CleanSame'
  <2> SUFFICES ASSUME NEW b \in Buf, valid[b], blockno[b] \notin pinned,
                      \A p \in Proc : buf'[p] = b => ~Writes(p)'
               PROVE  Same(b)
    BY <1>1 DEF CleanSame
  <2>1. CASE \A p \in Proc : buf[p] = b => ~Writes(p)
    BY <2>1 DEF DiskInv, CleanSame
  <2>2. CASE \E p \in Proc : buf[p] = b /\ Writes(p)
    BY <1>3, <2>2
  <2> QED
    BY <2>1, <2>2
<1> QED
  BY <1>2, <1>4, <1>5, <1>6

\* What a step that leaves the queue alone still has to keep.
LEMMA TypeFrame ==
  ASSUME DiskInv, UNCHANGED <<machine, free, desc, avail, info, used_idx, last_avail, used, head, disk, media>>,
         valid' \in [Buf -> BOOLEAN], data' \in [Buf -> Contents \union {NoValue}],
         \A b \in Buf : \E k \in 1 .. NBUF : lru'[k] = b
  PROVE  DiskType'
<1>1. Buf' = Buf /\ Desc' = Desc /\ NBUF' = NBUF
  BY DEF Buf, Desc, NBUF, NUM
<1> QED
  BY <1>1 DEF DiskInv, DiskType

\* A step at which only places change, or the buffer of a process without a lock.
LEMMA PlaceDisk ==
  ASSUME CacheInv, DiskInv, ~panic, panic' => \E p \in Proc : pc'[p] = "acquiresleep" /\ buf'[p] = 0,
         UNCHANGED <<machine, free, desc, avail, info, used_idx, taken, last_avail, used, head, disk,
                     blockno, valid, data, media, pinned>>,
         \A b \in Buf : \E k \in 1 .. NBUF : lru'[k] = b,
         \A p \in Proc : pc'[p] = pc[p] \/ (/\ pc'[p] \notin Waits \union Dones \union {"written"}
                                            /\ pc[p] \notin Waits \union Dones),
         \A p \in Proc : pc'[p] \notin Lockless \/ pc[p] \notin Lockless => buf'[p] = buf[p],
         \A p \in Proc : Has(p)' => valid[buf[p]],
         \A p \in Proc : pc'[p] \in Reading => ~valid[buf[p]],
         \A p \in Proc : Writes(p) => Writes(p)'
  PROVE  DiskInv'
<1>1. DiskType'
  BY TypeFrame DEF DiskInv, DiskType
<1>2. \A p \in Proc :
         \/ pc'[p] \notin Waits \union Dones /\ pc[p] \notin Waits \union Dones
         \/ pc'[p] = pc[p] /\ buf'[p] = buf[p] /\ blockno'[buf[p]] = blockno[buf[p]]
  BY PlacesLocked
<1>3. Requests' /\ OwnedApart' /\ OwnedBusy' /\ Reported' /\ Queues'
  BY <1>2, QueueFrame
<1>4. \A p \in Proc : Done(p)' \/ pc'[p] = "written" => Same(buf[p])
  <2> SUFFICES ASSUME NEW p \in Proc, Done(p)' \/ pc'[p] = "written" PROVE Same(buf[p])
    OBVIOUS
  <2>1. pc'[p] = pc[p]
    BY DEF Done
  <2>2. Done(p) \/ pc[p] = "written"
    BY <2>1 DEF Done
  <2> QED
    BY <2>2 DEF DiskInv, TransferDone
<1>5. Contained' /\ HolderValid' /\ TransferDone' /\ CleanSame' /\ PinnedValid'
  BY <1>4, ContentsFrame
<1>6. GaveUp'
  BY DEF GaveUp
<1> QED
  BY <1>1, <1>3, <1>5, <1>6 DEF DiskInv

\* brelse() loses no buffer from the list.
LEMMA ToFrontKeeps ==
  ASSUME CacheInv, DiskInv, NEW b \in Buf
  PROVE  \A c \in Buf : \E k \in 1 .. NBUF : ToFront(b)[k] = c
<1>1. CacheType /\ NBUF \in Nat \ {0}
  BY DiskConstants DEF CacheInv, CacheType
<1>2. \A c \in Buf : \E k \in 1 .. NBUF : lru[k] = c
  BY DEF DiskInv, DiskType
<1>3. PICK k : k \in 1 .. NBUF /\ lru[k] = b
               /\ ToFront(b) = [i \in 1 .. NBUF |-> IF i = 1 THEN b
                                                   ELSE IF i <= k THEN lru[i - 1] ELSE lru[i]]
  <2>1. \E i \in 1 .. NBUF : lru[i] = b
    BY <1>2
  <2> QED
    BY <2>1 DEF ToFront
<1> SUFFICES ASSUME NEW c \in Buf PROVE \E j \in 1 .. NBUF : ToFront(b)[j] = c
  OBVIOUS
<1>4. PICK i \in 1 .. NBUF : lru[i] = c
  BY <1>2
<1>5. CASE c = b
  <2>1. 1 \in 1 .. NBUF
    BY <1>1
  <2>2. ToFront(b)[1] = c
    BY <1>3, <1>5, <2>1
  <2> QED
    BY <2>1, <2>2
<1>6. CASE c # b /\ i < k
  <2>1. i + 1 \in 1 .. NBUF /\ i + 1 # 1 /\ i + 1 <= k /\ (i + 1) - 1 = i
    BY <1>1, <1>3, <1>6
  <2>2. ToFront(b)[i + 1] = c
    BY <1>3, <1>4, <2>1
  <2> QED
    BY <2>1, <2>2
<1>7. CASE c # b /\ i > k
  <2>1. ToFront(b)[i] = c
    BY <1>3, <1>4, <1>7
  <2> QED
    BY <2>1
<1>8. c # b => i # k
  BY <1>3, <1>4
<1> QED
  BY <1>3, <1>5, <1>6, <1>7, <1>8

\* The list and the types of the rest, where a step leaves them alone.
LEMMA ListKept == ASSUME DiskInv, lru' = lru PROVE \A b \in Buf : \E k \in 1 .. NBUF : lru'[k] = b
  BY DEF DiskInv, DiskType

\* A process goes on at l, and keeps its lock.
LEMMA StepDisk ==
  ASSUME CacheInv, DiskInv, ~panic, ~panic',
         UNCHANGED <<machine, free, desc, avail, info, used_idx, taken, last_avail, used, head, disk,
                     blockno, valid, data, media, pinned, lru, buf>>,
         NEW p \in Proc, NEW l, pc' = [pc EXCEPT ![p] = l],
         pc[p] \notin Waits \union Dones, l \notin Waits \union Dones \union {"written"},
         l \in {"has", "write", "write-sleep", "writeagain", "brelse"} => valid[buf[p]],
         l \in Reading => ~valid[buf[p]],
         Writes(p) => l \in {"write", "write-sleep", "writeagain"}
  PROVE  DiskInv'
<1>1. DOMAIN pc = Proc
  BY DEF CacheInv, CacheType
<1>2. pc'[p] = l /\ \A q \in Proc : q # p => pc'[q] = pc[q]
  BY <1>1
<1>3. \A q \in Proc : Has(q) => valid[buf[q]]
  BY DEF DiskInv, HolderValid
<1>4. \A q \in Proc : pc[q] \in Reading => ~valid[buf[q]]
  BY DEF DiskInv, HolderValid
<1>5. \A q \in Proc : Has(q)' => valid[buf[q]]
  BY <1>2, <1>3 DEF Has, Waits, Dones
<1>6. \A q \in Proc : pc'[q] \in Reading => ~valid[buf[q]]
  BY <1>2, <1>4
<1>7. \A q \in Proc : Writes(q) => Writes(q)'
  BY <1>2 DEF Writes
<1> QED
  BY <1>2, <1>5, <1>6, <1>7, ListKept, PlaceDisk

\* acquiresleep(), brelse() and the steps that start a write.
LEMMA LockedDisk == ASSUME CacheInv, DiskInv, NEW p \in Proc, Locked(p) PROVE DiskInv'
<1>1. /\ ~panic /\ ~panic' /\ pc[p] = "acquiresleep"
      /\ UNCHANGED <<machine, free, desc, avail, info, used_idx, taken, last_avail, used, head, disk,
                     blockno, valid, data, media, pinned, lru, buf>>
  BY DEF Locked, At, queuevars, devvars, bounds
<1>2. PICK l : l = IF valid[buf[p]] THEN "has" ELSE "read"
  OBVIOUS
<1>3. pc' = [pc EXCEPT ![p] = l]
  BY <1>2 DEF Locked, Goto
<1>4. /\ pc[p] \notin Waits \union Dones /\ l \notin Waits \union Dones \union {"written"} /\ ~Writes(p)
      /\ l \in {"has", "write", "write-sleep", "writeagain", "brelse"} => valid[buf[p]]
      /\ l \in Reading => ~valid[buf[p]]
  BY <1>1, <1>2 DEF Waits, Dones, Writes, Reading
<1> QED
  BY <1>1, <1>3, <1>4, StepDisk

LEMMA InstallDisk == ASSUME CacheInv, DiskInv, NEW p \in Proc, Install(p) PROVE DiskInv'
<1>1. /\ ~panic /\ ~panic' /\ pc[p] = "has" /\ pc' = [pc EXCEPT ![p] = "write"]
      /\ UNCHANGED <<machine, free, desc, avail, info, used_idx, taken, last_avail, used, head, disk,
                     blockno, valid, data, media, pinned, lru, buf>>
  BY DEF Install, At, Goto, queuevars, devvars, bounds, cachevars
<1>2. valid[buf[p]]
  BY <1>1 DEF DiskInv, HolderValid, Has
<1>3. /\ pc[p] \notin Waits \union Dones /\ "write" \notin Waits \union Dones \union {"written"}
      /\ ~Writes(p) /\ "write" \notin Reading
  BY <1>1 DEF Waits, Dones, Writes, Reading
<1> QED
  BY <1>1, <1>2, <1>3, StepDisk

LEMMA BrelseDisk == ASSUME CacheInv, DiskInv, NEW p \in Proc, Brelse(p) PROVE DiskInv'
<1>1. /\ ~panic /\ ~panic' /\ pc[p] \in {"has", "brelse"} /\ pc' = [pc EXCEPT ![p] = "unref"]
      /\ UNCHANGED <<machine, free, desc, avail, info, used_idx, taken, last_avail, used, head, disk,
                     blockno, valid, data, media, pinned, lru, buf>>
  BY DEF Brelse, At, Goto, queuevars, devvars, bounds
<1>2. /\ pc[p] \notin Waits \union Dones /\ "unref" \notin Waits \union Dones \union {"written"}
      /\ ~Writes(p) /\ "unref" \notin Reading
      /\ "unref" \notin {"has", "write", "write-sleep", "writeagain", "brelse"}
  BY <1>1 DEF Waits, Dones, Writes, Reading
<1> QED
  BY <1>1, <1>2, StepDisk

\* brelse(): refcnt and the list.
LEMMA BrelseRefDisk == ASSUME CacheInv, DiskInv, NEW p \in Proc, BrelseRef(p) PROVE DiskInv'
<1>1. /\ ~panic /\ ~panic' /\ pc[p] = "unref" /\ pc' = [pc EXCEPT ![p] = "idle"]
      /\ buf' = [buf EXCEPT ![p] = 0] /\ (lru' = ToFront(buf[p]) \/ lru' = lru)
      /\ UNCHANGED <<machine, free, desc, avail, info, used_idx, taken, last_avail, used, head, disk,
                     blockno, valid, data, media, pinned>>
  BY DEF BrelseRef, At, Goto, queuevars, devvars, bounds
<1>2. DOMAIN pc = Proc /\ DOMAIN buf = Proc /\ buf[p] \in Buf
  BY <1>1 DEF CacheInv, CacheType, BufUsed
<1>3. /\ pc'[p] = "idle"
      /\ \A q \in Proc : q # p => pc'[q] = pc[q] /\ buf'[q] = buf[q]
  BY <1>1, <1>2
<1>4. \A c \in Buf : \E k \in 1 .. NBUF : lru'[k] = c
  BY <1>1, <1>2, ToFrontKeeps, ListKept
<1>5. \A q \in Proc : pc'[q] = pc[q] \/ (/\ pc'[q] \notin Waits \union Dones \union {"written"}
                                         /\ pc[q] \notin Waits \union Dones)
  BY <1>1, <1>3 DEF Waits, Dones
<1>6. \A q \in Proc : pc'[q] \notin Lockless \/ pc[q] \notin Lockless => buf'[q] = buf[q]
  BY <1>1, <1>3 DEF Lockless
<1>7. \A q \in Proc : (Has(q) => valid[buf[q]]) /\ (pc[q] \in Reading => ~valid[buf[q]])
  BY DEF DiskInv, HolderValid
<1>8. \A q \in Proc : /\ Has(q)' => valid[buf[q]]
                      /\ pc'[q] \in Reading => ~valid[buf[q]]
                      /\ Writes(q) => Writes(q)'
  BY <1>1, <1>3, <1>7 DEF Has, Reading, Writes
<1> QED
  BY <1>1, <1>4, <1>5, <1>6, <1>8, PlaceDisk

\* virtio_disk_rw() without descriptors: p sleeps, others may wake.
LEMMA RwNoDescDisk == ASSUME CacheInv, DiskInv, NEW p \in Proc, RwNoDesc(p) PROVE DiskInv'
<1>1. /\ ~panic /\ ~panic' /\ pc[p] \in Wanting
      /\ UNCHANGED <<machine, free, desc, avail, info, used_idx, taken, last_avail, used, head, disk,
                     blockno, valid, data, media, pinned, lru, buf>>
  BY DEF RwNoDesc, At, queuevars, devvars, bounds, cachevars
<1>2. PICK l : l = IF Wants(p) = "read" THEN "read-sleep" ELSE "write-sleep"
  OBVIOUS
<1>3. PICK f : f = IF Lowest(3) = <<>> THEN pc
                   ELSE Awake(Awake(pc, "read-sleep", "readagain"), "write-sleep", "writeagain")
  OBVIOUS
<1>4. pc' = [f EXCEPT ![p] = l]
  BY <1>2, <1>3 DEF RwNoDesc
<1>5. DOMAIN pc = Proc
  BY DEF CacheInv, CacheType
<1>6. /\ DOMAIN f = Proc
      /\ \A q \in Proc : \/ f[q] = pc[q]
                         \/ pc[q] = "read-sleep" /\ f[q] = "readagain"
                         \/ pc[q] = "write-sleep" /\ f[q] = "writeagain"
  BY <1>3, <1>5 DEF Awake
<1>7. pc'[p] = l /\ \A q \in Proc : q # p => pc'[q] = f[q]
  BY <1>4, <1>6
<1>8. \/ pc[p] \in {"read", "readagain"} /\ l = "read-sleep"
      \/ pc[p] \in {"write", "writeagain"} /\ l = "write-sleep"
  BY <1>1, <1>2 DEF Wanting, Wants
<1>9. \A q \in Proc : pc'[q] = pc[q] \/ (/\ pc'[q] \notin Waits \union Dones \union {"written"}
                                         /\ pc[q] \notin Waits \union Dones)
  BY <1>6, <1>7, <1>8 DEF Waits, Dones
<1>10. \A q \in Proc : (Has(q) => valid[buf[q]]) /\ (pc[q] \in Reading => ~valid[buf[q]])
  BY DEF DiskInv, HolderValid
<1>11. \A q \in Proc : /\ Has(q)' => Has(q)
                       /\ pc'[q] \in Reading => pc[q] \in Reading
                       /\ Writes(q) => Writes(q)'
  BY <1>6, <1>7, <1>8 DEF Has, Reading, Writes
<1>12. \A q \in Proc : pc'[q] \notin Lockless \/ pc[q] \notin Lockless => buf'[q] = buf[q]
  BY <1>1
<1> QED
  BY <1>1, <1>9, <1>10, <1>11, <1>12, ListKept, PlaceDisk

\* virtio_disk_intr() begins and ends.
LEMMA IntrDisk == ASSUME CacheInv, DiskInv, Intr \/ IntrEnd PROVE DiskInv'
<1>1. /\ ~panic /\ ~panic' /\ pc' = pc
      /\ UNCHANGED <<machine, free, desc, avail, info, used_idx, taken, last_avail, used, head, disk,
                     blockno, valid, data, media, pinned, lru, buf>>
  BY DEF Intr, IntrEnd, queuevars, devvars, bounds, cachevars
<1>2. \A q \in Proc : (Has(q)' => valid[buf[q]]) /\ (pc'[q] \in Reading => ~valid[buf[q]])
                      /\ (Writes(q) => Writes(q)')
  BY <1>1 DEF DiskInv, HolderValid, Has, Writes
<1> QED
  BY <1>1, <1>2, ListKept, PlaceDisk

\* bread(): a hit, or bget() gives up.
LEMMA JoinDisk ==
  ASSUME CacheInv, DiskInv, ~panic, NEW p \in Proc, NEW b, pc[p] = "idle",
         buf' = [buf EXCEPT ![p] = b], Goto(p, "acquiresleep"), panic' => b = 0,
         UNCHANGED <<machine, free, desc, avail, info, used_idx, taken, last_avail, used, head, disk,
                     blockno, valid, data, media, pinned, lru>>
  PROVE  DiskInv'
<1>1. DOMAIN pc = Proc /\ DOMAIN buf = Proc
  BY DEF CacheInv, CacheType
<1>2. /\ pc'[p] = "acquiresleep" /\ buf'[p] = b
      /\ \A q \in Proc : q # p => pc'[q] = pc[q] /\ buf'[q] = buf[q]
  BY <1>1 DEF Goto
<1>3. \A q \in Proc : pc'[q] = pc[q] \/ (/\ pc'[q] \notin Waits \union Dones \union {"written"}
                                         /\ pc[q] \notin Waits \union Dones)
  BY <1>2 DEF Waits, Dones
<1>4. \A q \in Proc : pc'[q] \notin Lockless \/ pc[q] \notin Lockless => buf'[q] = buf[q]
  BY <1>2 DEF Lockless
<1>5. \A q \in Proc : (Has(q) => valid[buf[q]]) /\ (pc[q] \in Reading => ~valid[buf[q]])
  BY DEF DiskInv, HolderValid
<1>6. \A q \in Proc : /\ Has(q)' => valid[buf[q]]
                      /\ pc'[q] \in Reading => ~valid[buf[q]]
                      /\ Writes(q) => Writes(q)'
  BY <1>2, <1>5 DEF Has, Reading, Writes
<1>7. panic' => \E q \in Proc : pc'[q] = "acquiresleep" /\ buf'[q] = 0
  BY <1>2
<1> QED
  BY <1>3, <1>4, <1>6, <1>7, ListKept, PlaceDisk

\* A buffer without references.
LEMMA NobodyUses ==
  ASSUME CacheInv, NEW b \in Buf, refcnt[b] = 0
  PROVE  (\A q \in Proc : buf[q] # b) /\ blockno[b] \notin pinned
<1>1. 0 = Cardinality(Users(b)) + Pins(b)
  BY DEF CacheInv, Counted
<1>2. Cardinality(Users(b)) \in Nat /\ Pins(b) = IF blockno[b] \in pinned THEN 1 ELSE 0
  BY UsersFinite, PinsAre DEF Pins
<1>3. Cardinality(Users(b)) = 0 /\ blockno[b] \notin pinned
  BY <1>1, <1>2
<1>4. Users(b) = {}
  BY <1>3, UsersFinite, FS_EmptySet
<1> QED
  BY <1>3, <1>4 DEF Users

\* bread(): a buffer that nobody uses gets block n.
LEMMA RecycleDisk ==
  ASSUME CacheInv, DiskInv, ~panic, NEW p \in Proc, NEW b \in Buf, NEW n \in Block,
         pc[p] = "idle", Cached(n) = {}, refcnt[b] = 0,
         Recycle(b, n), buf' = [buf EXCEPT ![p] = b], Goto(p, "acquiresleep"),
         UNCHANGED <<machine, free, desc, avail, info, used_idx, taken, last_avail, used, head, disk,
                     data, media, pinned, lru>>
  PROVE  DiskInv'
<1>1. CacheType /\ DOMAIN pc = Proc /\ DOMAIN buf = Proc /\ valid \in [Buf -> BOOLEAN]
      /\ data \in [Buf -> Contents \union {NoValue}]
  BY DEF CacheInv, CacheType, DiskInv, DiskType
<1>2. /\ blockno' = [blockno EXCEPT ![b] = n] /\ valid' = [valid EXCEPT ![b] = FALSE]
      /\ panic' = panic /\ pc' = [pc EXCEPT ![p] = "acquiresleep"]
  BY DEF Recycle, Goto
<1>3. /\ pc'[p] = "acquiresleep" /\ buf'[p] = b
      /\ \A q \in Proc : q # p => pc'[q] = pc[q] /\ buf'[q] = buf[q]
      /\ valid' \in [Buf -> BOOLEAN] /\ valid'[b] = FALSE /\ blockno'[b] = n
      /\ \A c \in Buf : c # b => valid'[c] = valid[c] /\ blockno'[c] = blockno[c]
  BY <1>1, <1>2 DEF CacheType
<1>4. (\A q \in Proc : buf[q] # b) /\ blockno[b] \notin pinned
  BY NobodyUses
<1>5. n \notin pinned
  BY DEF Cached, CacheInv, PinsCached
<1>6. Buf' = Buf
  BY DEF Buf, NBUF
<1>7. DiskType'
  BY <1>1, <1>3, ListKept, TypeFrame
\* Whoever has a buffer has another one than b.
<1>8. \A q \in Proc : pc'[q] \notin Lockless =>
        /\ q # p /\ pc'[q] = pc[q] /\ buf'[q] = buf[q] /\ buf[q] \in Buf /\ buf[q] # b
        /\ valid'[buf[q]] = valid[buf[q]] /\ blockno'[buf[q]] = blockno[buf[q]]
  BY <1>3, <1>4 DEF CacheInv, LocksHeld, Lockless
<1>9. Requests' /\ OwnedApart' /\ OwnedBusy' /\ Reported' /\ Queues'
  <2>1. \A q \in Proc :
         \/ pc'[q] \notin Waits \union Dones /\ pc[q] \notin Waits \union Dones
         \/ pc'[q] = pc[q] /\ buf'[q] = buf[q] /\ blockno'[buf[q]] = blockno[buf[q]]
    BY <1>3, <1>8 DEF Waits, Dones, Lockless
  <2> QED
    BY <2>1, QueueFrame
<1>10. Contained'
  BY <1>3, <1>6 DEF DiskInv, Contained
<1>11. HolderValid'
  BY <1>8 DEF DiskInv, HolderValid, Has, Reading, Lockless
<1>12. TransferDone'
  <2>1. ASSUME NEW q \in Proc, Done(q)' \/ pc'[q] = "written"
        PROVE  data'[buf'[q]] = media'[blockno'[buf'[q]]]
    <3>1. pc'[q] \notin Lockless
      BY <2>1 DEF Done, Waits, Dones, Lockless
    <3>2. Done(q) \/ pc[q] = "written"
      BY <1>8, <2>1, <3>1 DEF Done
    <3>3. Same(buf[q])
      BY <3>2 DEF DiskInv, TransferDone
    <3> QED
      BY <1>8, <3>1, <3>3 DEF Same
  <2> QED
    BY <2>1 DEF TransferDone, Same
<1>13. CleanSame'
  <2>1. ASSUME NEW c \in Buf, valid'[c], blockno'[c] \notin pinned,
               \A q \in Proc : buf'[q] = c => ~Writes(q)'
        PROVE  data[c] = media[blockno'[c]]
    <3>1. c # b /\ valid[c] /\ blockno'[c] = blockno[c]
      BY <1>3, <2>1
    <3>2. \A q \in Proc : buf[q] = c => ~Writes(q)
      <4>1. ASSUME NEW q \in Proc, buf[q] = c, Writes(q) PROVE FALSE
        <5>1. q # p
          BY <4>1 DEF Writes
        <5> QED
          BY <1>3, <2>1, <4>1, <5>1 DEF Writes
      <4> QED
        BY <4>1
    <3> QED
      BY <2>1, <3>1, <3>2 DEF DiskInv, CleanSame, Same
  <2> QED
    BY <1>6, <2>1 DEF CleanSame, Same
<1>14. PinnedValid'
  BY <1>3, <1>5, <1>6 DEF DiskInv, PinnedValid
<1>15. GaveUp'
  BY <1>2 DEF GaveUp
<1> QED
  BY <1>7, <1>9, <1>10, <1>11, <1>12, <1>13, <1>14, <1>15 DEF DiskInv

\* bread() as a whole.
LEMMA BreadDisk == ASSUME CacheInv, DiskInv, NEW p \in Proc, NEW n \in Block, Bread(p, n) PROVE DiskInv'
<1>1. /\ ~panic /\ pc[p] = "idle" /\ Goto(p, "acquiresleep")
      /\ UNCHANGED <<machine, free, desc, avail, info, used_idx, taken, last_avail, used, head, disk,
                     data, media, pinned, lru>>
  BY DEF Bread, At, queuevars, devvars
<1>2. PICK b \in IF Cached(n) # {} THEN Cached(n) ELSE {LeastRecent} :
       /\ \/ Cached(n) # {} /\ Hit(b)
          \/ Cached(n) = {} /\ b # 0 /\ Recycle(b, n)
          \/ b = 0 /\ BgetNone
       /\ buf' = [buf EXCEPT ![p] = b]
  BY DEF Bread
<1>3. CASE Cached(n) # {} /\ Hit(b)
  <2>1. UNCHANGED <<blockno, valid>> /\ (panic' => b = 0)
    BY <1>1, <1>3 DEF Hit
  <2> QED
    BY <1>1, <1>2, <2>1, JoinDisk
<1>4. CASE Cached(n) = {} /\ b # 0 /\ Recycle(b, n)
  <2>1. b = LeastRecent /\ b # 0 /\ CacheType
    BY <1>2, <1>4 DEF CacheInv
  <2>2. b \in Buf /\ refcnt[b] = 0
    BY <2>1, LeastRecentIs
  <2> QED
    BY <1>1, <1>2, <1>4, <2>2, RecycleDisk
<1>5. CASE b = 0 /\ BgetNone
  <2>1. UNCHANGED <<blockno, valid>> /\ (panic' => b = 0)
    BY <1>1, <1>5 DEF BgetNone
  <2> QED
    BY <1>1, <1>2, <2>1, JoinDisk
<1> QED
  BY <1>2, <1>3, <1>4, <1>5

\* A process changes its buffer, for bwrite() or for the log.
LEMMA ChangeDisk ==
  ASSUME CacheInv, DiskInv, ~panic, ~panic', NEW p \in Proc, pc[p] = "has", NEW v \in Value,
         NEW b, b = buf[p], data' = [data EXCEPT ![b] = v], NEW l, pc' = [pc EXCEPT ![p] = l],
         \/ l = "write" /\ pinned' = pinned
         \/ l = "brelse" /\ pinned' = pinned \union {blockno[b]},
         UNCHANGED <<machine, free, desc, avail, info, used_idx, taken, last_avail, used, head, disk,
                     media, lru, buf, blockno, valid>>
  PROVE  DiskInv'
<1>1. /\ CacheType /\ DOMAIN pc = Proc /\ b \in Buf /\ blockno[b] \in Block /\ valid[b]
      /\ valid \in [Buf -> BOOLEAN] /\ data \in [Buf -> Contents \union {NoValue}] /\ v \in Contents
      /\ \A q \in Proc : q # p /\ pc[q] \notin Lockless => buf[q] \in Buf /\ buf[q] # b
      /\ \A c \in Buf : c # b => blockno[c] # blockno[b]
  BY HoldersDiffer DEF CacheInv, CacheType, DiskInv, DiskType, HolderValid, Has, Lockless, Contents
<1>2. /\ pc'[p] = l /\ \A q \in Proc : q # p => pc'[q] = pc[q]
      /\ data' \in [Buf -> Contents \union {NoValue}] /\ data'[b] = v
      /\ \A c \in Buf : c # b => data'[c] = data[c]
  BY <1>1
<1>3. Buf' = Buf
  BY DEF Buf, NBUF
<1>4. DiskType'
  BY <1>1, <1>2, ListKept, TypeFrame
<1>5. Requests' /\ OwnedApart' /\ OwnedBusy' /\ Reported' /\ Queues'
  <2>1. \A q \in Proc :
         \/ pc'[q] \notin Waits \union Dones /\ pc[q] \notin Waits \union Dones
         \/ pc'[q] = pc[q] /\ buf'[q] = buf[q] /\ blockno'[buf[q]] = blockno[buf[q]]
    BY <1>2 DEF Waits, Dones
  <2> QED
    BY <2>1, QueueFrame
<1>6. Contained'
  BY <1>1, <1>2, <1>3 DEF DiskInv, Contained
<1>7. HolderValid'
  BY <1>1, <1>2 DEF DiskInv, HolderValid, Has, Reading
<1>8. TransferDone'
  <2>1. ASSUME NEW q \in Proc, Done(q)' \/ pc'[q] = "written"
        PROVE  data'[buf[q]] = media[blockno[buf[q]]]
    <3>1. q # p
      BY <1>2, <2>1 DEF Done, Waits, Dones
    <3>2. pc'[q] = pc[q] /\ (Done(q) \/ pc[q] = "written")
      BY <1>2, <2>1, <3>1 DEF Done
    <3>3. pc[q] \notin Lockless /\ Same(buf[q])
      BY <3>2, PlacesLocked DEF DiskInv, TransferDone
    <3> QED
      BY <1>1, <1>2, <3>1, <3>3 DEF Same
  <2> QED
    BY <2>1 DEF TransferDone, Same
<1>9. CleanSame'
  <2>1. ASSUME NEW c \in Buf, valid[c], blockno[c] \notin pinned',
               \A q \in Proc : buf[q] = c => ~Writes(q)'
        PROVE  data'[c] = media[blockno[c]]
    <3>1. c # b
      BY <1>2, <2>1 DEF Writes
    <3>2. \A q \in Proc : buf[q] = c => ~Writes(q)
      BY <1>2, <2>1, <3>1 DEF Writes
    <3>3. blockno[c] \notin pinned
      BY <2>1
    <3> QED
      BY <1>2, <2>1, <3>1, <3>2, <3>3 DEF DiskInv, CleanSame, Same
  <2> QED
    BY <1>3, <2>1 DEF CleanSame, Same
<1>10. PinnedValid'
  BY <1>1, <1>3 DEF DiskInv, PinnedValid
<1>11. GaveUp'
  BY DEF GaveUp
<1> QED
  BY <1>4, <1>5, <1>6, <1>7, <1>8, <1>9, <1>10, <1>11 DEF DiskInv

LEMMA WriteDisk ==
  ASSUME CacheInv, DiskInv, NEW p \in Proc, NEW v \in Value, Bwrite(p, v) \/ Bpin(p, v)
  PROVE  DiskInv'
<1>1. PICK l : /\ ~panic /\ ~panic' /\ pc[p] = "has" /\ pc' = [pc EXCEPT ![p] = l]
               /\ data' = [data EXCEPT ![buf[p]] = v]
               /\ \/ l = "write" /\ pinned' = pinned
                  \/ l = "brelse" /\ pinned' = pinned \union {blockno[buf[p]]}
               /\ UNCHANGED <<machine, free, desc, avail, info, used_idx, taken, last_avail, used, head,
                              disk, media, lru, buf, blockno, valid>>
  BY DEF Bwrite, Bpin, At, Goto, Change, cachevars, queuevars, devvars
<1>2. PICK b : b = buf[p]
  OBVIOUS
<1>3. /\ data' = [data EXCEPT ![b] = v]
      /\ \/ l = "write" /\ pinned' = pinned
         \/ l = "brelse" /\ pinned' = pinned \union {blockno[b]}
  BY <1>1, <1>2
<1> QED
  BY <1>1, <1>2, <1>3, ChangeDisk

\* bunpin(): the block is on the disk.
LEMMA BunpinDisk == ASSUME CacheInv, DiskInv, NEW p \in Proc, Bunpin(p) PROVE DiskInv'
<1>1. /\ ~panic /\ ~panic' /\ pc[p] = "written" /\ pc' = [pc EXCEPT ![p] = "brelse"]
      /\ pinned' = pinned \ {blockno[buf[p]]}
      /\ UNCHANGED <<machine, free, desc, avail, info, used_idx, taken, last_avail, used, head, disk,
                     blockno, valid, data, media, lru, buf>>
  BY DEF Bunpin, At, Goto, queuevars, devvars, bounds
<1>2. /\ DOMAIN pc = Proc /\ Same(buf[p]) /\ valid[buf[p]]
      /\ valid \in [Buf -> BOOLEAN] /\ data \in [Buf -> Contents \union {NoValue}]
      /\ \A c \in Buf : c # buf[p] => blockno[c] # blockno[buf[p]]
  BY <1>1, HoldersDiffer DEF CacheInv, CacheType, DiskInv, DiskType, TransferDone, HolderValid, Has, Lockless
<1>3. pc'[p] = "brelse" /\ \A q \in Proc : q # p => pc'[q] = pc[q]
  BY <1>1, <1>2
<1>4. Buf' = Buf
  BY <1>1 DEF Buf, NBUF
<1>5. DiskType'
  BY <1>1, <1>2, ListKept, TypeFrame
<1>6. Requests' /\ OwnedApart' /\ OwnedBusy' /\ Reported' /\ Queues'
  <2>1. \A q \in Proc :
         \/ pc'[q] \notin Waits \union Dones /\ pc[q] \notin Waits \union Dones
         \/ pc'[q] = pc[q] /\ buf'[q] = buf[q] /\ blockno'[buf[q]] = blockno[buf[q]]
    BY <1>1, <1>3 DEF Waits, Dones
  <2> QED
    BY <1>1, <2>1, QueueFrame
<1>7. Contained' /\ PinnedValid'
  BY <1>1, <1>4 DEF DiskInv, Contained, PinnedValid
<1>8. HolderValid'
  BY <1>1, <1>3 DEF DiskInv, HolderValid, Has, Reading
<1>9. TransferDone'
  <2>1. ASSUME NEW q \in Proc, Done(q)' \/ pc'[q] = "written"
        PROVE  data[buf[q]] = media[blockno[buf[q]]]
    <3>1. pc'[q] = pc[q]
      BY <1>3, <2>1 DEF Done, Waits, Dones
    <3> QED
      BY <1>1, <2>1, <3>1 DEF DiskInv, TransferDone, Same, Done
  <2> QED
    BY <1>1, <2>1 DEF TransferDone, Same
<1>10. CleanSame'
  <2>1. ASSUME NEW c \in Buf, valid[c], blockno[c] \notin pinned',
               \A q \in Proc : buf[q] = c => ~Writes(q)'
        PROVE  data[c] = media[blockno[c]]
    <3>1. CASE c = buf[p]
      BY <1>2, <3>1 DEF Same
    <3>2. CASE c # buf[p]
      <4>1. blockno[c] \notin pinned
        BY <1>1, <1>2, <2>1, <3>2
      <4>2. \A q \in Proc : buf[q] = c => ~Writes(q)
        BY <1>1, <1>3, <2>1, <3>2 DEF Writes
      <4> QED
        BY <2>1, <4>1, <4>2 DEF DiskInv, CleanSame, Same
    <3> QED
      BY <3>1, <3>2
  <2> QED
    BY <1>1, <1>4, <2>1 DEF CleanSame, Same
<1>11. GaveUp'
  BY <1>1 DEF GaveUp
<1> QED
  BY <1>5, <1>6, <1>7, <1>8, <1>9, <1>10, <1>11 DEF DiskInv

----------------------------------------------------------------------------
(***************************************************************************)
(* DiskInv: the requests                                                   *)
(***************************************************************************)
\* What DiskInv says of a process with a request.
LEMMA RequestIs ==
  ASSUME CacheInv, DiskInv, NEW p \in Waiting
  PROVE  /\ p \in Proc /\ pc[p] \notin Lockless /\ buf[p] \in Buf /\ blockno[buf[p]] \in Block
         /\ head[p] \in Desc /\ head[p] \in Owned(p)
         /\ \E d, s \in Desc : /\ Request(p, head[p], d, s)
                               /\ Owned(p) = {head[p], d, s} /\ ChainOf(head[p]) = {head[p], d, s}
         /\ \A x \in Owned(p) : x \in Desc /\ ~free[x]
         /\ \A q \in Waiting : q # p => Owned(p) \intersect Owned(q) = {} /\ head[q] # head[p]
                                        /\ buf[q] # buf[p]
<1>1. p \in Proc /\ pc[p] \notin Lockless /\ head[p] \in Desc
  BY DEF Waiting, Waits, Dones, Lockless, DiskInv, DiskType
<1>2. /\ buf[p] \in Buf /\ blockno[buf[p]] \in Block
      /\ \A q \in Proc : q # p /\ pc[q] \notin Lockless => buf[q] # buf[p]
  BY <1>1, HoldersDiffer
<1>3. PICK d, s \in Desc : Request(p, head[p], d, s)
  BY DEF DiskInv, Requests
<1>4. Owned(p) = {head[p], d, s} /\ ChainOf(head[p]) = {head[p], d, s}
  BY <1>1, <1>3, ChainIs
<1>5. \A x \in Owned(p) : x \in Desc /\ ~free[x]
  BY <1>1, <1>4 DEF DiskInv, OwnedBusy
<1>6. \A q \in Waiting : q # p => Owned(p) \intersect Owned(q) = {} /\ head[q] # head[p]
  BY DEF DiskInv, OwnedApart, Owned
<1>7. \A q \in Waiting : q # p => buf[q] # buf[p]
  BY <1>2, PlacesLocked DEF Waiting
<1> QED
  BY <1>1, <1>2, <1>3, <1>4, <1>5, <1>6, <1>7

\* virtio_disk_rw() writes three descriptors and leaves the others alone.
LEMMA ChainWritten ==
  ASSUME NEW h \in Desc, NEW d \in Desc, NEW s \in Desc, h # d, h # s, d # s, DOMAIN desc = Desc,
         NEW idx, idx[1] = h, idx[2] = d, idx[3] = s, NEW b, NEW out \in BOOLEAN,
         NEW f, f = Chain(idx, b, out)
  PROVE  /\ DOMAIN f = Desc /\ \A x \in Desc : x \notin {h, d, s} => f[x] = desc[x]
         /\ f[h].addr = <<"op", IF out THEN "OUT" ELSE "IN", blockno[b]>>
         /\ "NEXT" \in f[h].flags /\ f[h].next = d
         /\ f[d].addr = <<"data", b>> /\ "NEXT" \in f[d].flags /\ f[d].next = s
         /\ f[s].addr = <<"status", h>> /\ "NEXT" \notin f[s].flags
<1>1. /\ DOMAIN f = Desc /\ \A x \in Desc : x \notin {h, d, s} => f[x] = desc[x]
      /\ f[h] = [addr |-> <<"op", IF out THEN "OUT" ELSE "IN", blockno[b]>>, flags |-> {"NEXT"}, next |-> d]
      /\ f[d] = [addr |-> <<"data", b>>, next |-> s, flags |-> {"NEXT"} \union IF out THEN {} ELSE {"WRITE"}]
      /\ f[s] = [addr |-> <<"status", h>>, flags |-> {"WRITE"}, next |-> 0]
  BY DEF Chain
<1> QED
  BY <1>1

\* virtio_disk_rw() makes a request.
LEMMA RwStartDisk == ASSUME CacheInv, DiskInv, NEW p \in Proc, RwStart(p) PROVE DiskInv'
<1>1. /\ CacheType /\ DiskType /\ machine \in Machines /\ DOMAIN pc = Proc
      /\ free \in [Desc -> BOOLEAN] /\ DOMAIN desc = Desc /\ head \in [Proc -> Desc]
      /\ info \in [Desc -> [b : Buf \union {0}, ok : BOOLEAN]] /\ disk \in [Buf -> BOOLEAN]
      /\ avail \in Queue /\ last_avail \in Index16
  BY DEF CacheInv, CacheType, DiskInv, DiskType, Queue
<1>2. /\ ~panic /\ ~panic' /\ pc[p] \in Wanting /\ Len(Lowest(3)) = 3
      /\ UNCHANGED <<machine, used_idx, taken, last_avail, used, blockno, valid, data, media, pinned, lru, buf>>
  BY DEF RwStart, At, devvars, bounds, cachevars
<1>3. PICK h, d, s \in Desc : /\ h # d /\ h # s /\ d # s /\ free[h] /\ free[d] /\ free[s]
                              /\ Lowest(3)[1] = h /\ Lowest(3)[2] = d /\ Lowest(3)[3] = s
                              /\ Range(Lowest(3)) = {h, d, s}
  BY <1>1, <1>2, LowestAre
<1>4. PICK b, out, l : /\ b = buf[p] /\ out = (Wants(p) = "write")
                       /\ l = IF Wants(p) = "read" THEN "read-wait" ELSE "write-wait"
  OBVIOUS
<1>5. /\ out \in BOOLEAN
      /\ \/ pc[p] \in {"read", "readagain"} /\ l = "read-wait" /\ ~out
         \/ pc[p] \in {"write", "writeagain"} /\ l = "write-wait" /\ out
  BY <1>2, <1>4 DEF Wanting, Wants
<1>6. PICK f : f = Chain(Lowest(3), b, out)
  OBVIOUS
<1>7. /\ free' = [x \in Desc |-> free[x] /\ x \notin {h, d, s}] /\ desc' = f
      /\ disk' = [disk EXCEPT ![b] = TRUE] /\ info' = [info EXCEPT ![h] = [b |-> b, ok |-> FALSE]]
      /\ avail' = [idx |-> (avail.idx + 1) % UINT16, ring |-> [avail.ring EXCEPT ![avail.idx % NUM] = h]]
      /\ head' = [head EXCEPT ![p] = h] /\ pc' = [pc EXCEPT ![p] = l]
  BY <1>3, <1>4, <1>6 DEF RwStart, Goto
<1>8. /\ DOMAIN f = Desc /\ \A x \in Desc : x \notin {h, d, s} => f[x] = desc[x]
      /\ f[h].addr = <<"op", IF out THEN "OUT" ELSE "IN", blockno[b]>>
      /\ "NEXT" \in f[h].flags /\ f[h].next = d
      /\ f[d].addr = <<"data", b>> /\ "NEXT" \in f[d].flags /\ f[d].next = s
      /\ f[s].addr = <<"status", h>> /\ "NEXT" \notin f[s].flags
  BY <1>1, <1>3, <1>5, <1>6, ChainWritten
<1>9. pc[p] \notin Lockless /\ p \notin Waiting /\ b \in Buf /\ \A q \in Waiting : q # p /\ buf[q] # b
  <2>1. pc[p] \notin Lockless /\ p \notin Waiting
    BY <1>2 DEF Lockless, Wanting, Waiting, Waits, Dones
  <2> QED
    BY <1>4, <2>1, HoldersDiffer, RequestIs
<1>10. /\ pc'[p] = l /\ head'[p] = h /\ disk'[b] = TRUE /\ info'[h].b = b /\ info'[h].ok = FALSE
       /\ \A q \in Proc : q # p => pc'[q] = pc[q] /\ head'[q] = head[q]
       /\ \A c \in Buf : c # b => disk'[c] = disk[c]
       /\ \A x \in Desc : x # h => info'[x] = info[x]
       /\ head' \in [Proc -> Desc] /\ disk' \in [Buf -> BOOLEAN]
       /\ info' \in [Desc -> [b : Buf \union {0}, ok : BOOLEAN]]
       /\ free' \in [Desc -> BOOLEAN]
  <2>1. [b |-> b, ok |-> FALSE] \in [b : Buf \union {0}, ok : BOOLEAN]
    BY <1>9
  <2>2. info' \in [Desc -> [b : Buf \union {0}, ok : BOOLEAN]] /\ info'[h] = [b |-> b, ok |-> FALSE]
    BY <1>1, <1>7, <2>1
  <2>3. free' \in [Desc -> BOOLEAN]
    BY <1>7
  <2> QED
    BY <1>1, <1>7, <1>9, <2>2, <2>3
<1>11. Buf' = Buf /\ Desc' = Desc /\ NUM' = NUM /\ NBUF' = NBUF
  BY <1>2 DEF Buf, Desc, NUM, NBUF
<1>12. Waiting' = Waiting \union {p}
  BY <1>5, <1>10 DEF Waiting, Waits, Dones
\* The others keep their descriptors, and p has three that were free.
<1>13. \A q \in Waiting : /\ q \in Proc /\ q # p /\ pc'[q] = pc[q] /\ head'[q] = head[q] /\ head[q] \in Desc
                          /\ head[q] # h /\ info'[head[q]] = info[head[q]]
                          /\ h \notin Owned(q) /\ d \notin Owned(q) /\ s \notin Owned(q)
                          /\ disk'[buf[q]] = disk[buf[q]]
  <2> TAKE q \in Waiting
  <2>1. /\ q \in Proc /\ head[q] \in Desc /\ head[q] \in Owned(q) /\ buf[q] \in Buf
        /\ \A x \in Owned(q) : ~free[x]
    BY RequestIs
  <2> QED
    BY <1>3, <1>9, <1>10, <2>1
<1>14. ASSUME NEW q \in Waiting
       PROVE  \E x, y \in Desc : Request(q, head[q], x, y)' /\ Owned(q)' = Owned(q) /\ head'[q] = head[q]
  <2>1. PICK x, y \in Desc : Request(q, head[q], x, y) /\ Owned(q) = {head[q], x, y}
    BY RequestIs
  <2>2. /\ head[q] \notin {h, d, s} /\ x \notin {h, d, s} /\ y \notin {h, d, s} /\ head[q] \in Desc
        /\ desc'[head[q]] = desc[head[q]] /\ desc'[x] = desc[x] /\ desc'[y] = desc[y]
    BY <1>7, <1>8, <1>13, <2>1
  <2>3. Request(q, head[q], x, y)'
    BY <1>2, <1>11, <1>13, <2>1, <2>2 DEF Request
  <2>4. Owned(q)' = Owned(q)
    BY <1>13, <2>1, <2>2 DEF Owned, Request
  <2> QED
    BY <1>13, <2>3, <2>4
<1>15. Request(p, head[p], d, s)' /\ Owned(p)' = {h, d, s}
  <2>1. Request(p, head[p], d, s)'
    BY <1>2, <1>3, <1>4, <1>5, <1>7, <1>8, <1>10, <1>11 DEF Request
  <2>2. Owned(p)' = {h, d, s}
    BY <1>7, <1>8, <1>10 DEF Owned
  <2> QED
    BY <2>1, <2>2
<1>16. Requests'
  BY <1>11, <1>12, <1>14, <1>15 DEF Requests
<1>17. OwnedApart'
  <2>1. ASSUME NEW q \in Waiting', NEW m \in Waiting', q # m PROVE Owned(q)' \intersect Owned(m)' = {}
    BY <1>12, <1>13, <1>14, <1>15, <2>1 DEF DiskInv, OwnedApart
  <2> QED
    BY <2>1 DEF OwnedApart
<1>18. OwnedBusy'
  <2>1. ASSUME NEW x \in Desc PROVE ~free'[x] <=> \E q \in Waiting' : x \in Owned(q)'
    <3>1. ~free[x] <=> \E q \in Waiting : x \in Owned(q)
      BY DEF DiskInv, OwnedBusy
    <3>2. ~free'[x] <=> (~free[x] \/ x \in {h, d, s})
      BY <1>7
    <3>3. (\E q \in Waiting' : x \in Owned(q)') <=> ((\E q \in Waiting : x \in Owned(q)) \/ x \in {h, d, s})
      BY <1>12, <1>14, <1>15
    <3> QED
      BY <3>1, <3>2, <3>3
  <2> QED
    BY <1>11, <2>1 DEF OwnedBusy
<1>19. Reported'
  <2>1. ASSUME NEW q \in Waiting'
        PROVE  info'[head'[q]].b = buf'[q] /\ (disk'[buf'[q]] <=> pc'[q] \in Waits)
    <3>1. CASE q = p
      BY <1>2, <1>4, <1>5, <1>10, <3>1 DEF Waits
    <3>2. CASE q \in Waiting
      BY <1>2, <1>13, <3>2 DEF DiskInv, Reported
    <3> QED
      BY <1>12, <3>1, <3>2
  <2> QED
    BY <2>1 DEF Reported
<1>20. Pending' = Pending \union {h} /\ Finished' = Finished /\ h \notin Pending
  <2>1. \A q \in Proc : pc[q] \in Waits => q \in Waiting
    BY DEF Waiting
  <2>2. \A q \in Proc : q # p => (pc'[q] \in Waits <=> pc[q] \in Waits)
    BY <1>10
  <2>3. pc'[p] \in Waits /\ pc[p] \notin Waits
    BY <1>5, <1>10 DEF Waits
  <2>4. \A q \in Proc : pc[q] \in Waits => head'[q] = head[q] /\ info'[head[q]] = info[head[q]] /\ head[q] # h
    BY <1>13, <2>1
  <2>5. Finished' = Finished
    BY <1>10, <2>2, <2>3, <2>4 DEF Finished
  <2>6. Pending' = Pending \union {h}
    BY <1>10, <2>2, <2>3, <2>4 DEF Pending
  <2> QED
    BY <2>4, <2>5, <2>6 DEF Pending
<1>21. PICK a : a = avail'
  OBVIOUS
<1>22. /\ a \in Queue /\ Entries(a, last_avail) = Entries(avail, last_avail) \union {h}
       /\ EntriesDiffer(a, last_avail)
  <2>1. h \notin Entries(avail, last_avail) /\ EntriesDiffer(avail, last_avail)
    BY <1>20 DEF DiskInv, Queues
  <2>2. a = [idx |-> (avail.idx + 1) % UINT16, ring |-> [avail.ring EXCEPT ![avail.idx % NUM] = h]]
    BY <1>7, <1>21
  <2>3. PICK t : t = avail
    OBVIOUS
  <2>4. /\ t \in Queue /\ EntriesDiffer(t, last_avail) /\ h \notin Entries(t, last_avail)
        /\ a = [idx |-> (t.idx + 1) % UINT16, ring |-> [t.ring EXCEPT ![t.idx % NUM] = h]]
    BY <1>1, <2>1, <2>2, <2>3
  <2> QED
    BY <1>1, <2>3, <2>4, EntryAdded
<1>23. Queues'
  <2>1. /\ Entries(avail, last_avail)' = Entries(a, last_avail)
        /\ EntriesDiffer(avail, last_avail)' = EntriesDiffer(a, last_avail)
        /\ Entries(used, used_idx)' = Entries(used, used_idx)
        /\ EntriesDiffer(used, used_idx)' = EntriesDiffer(used, used_idx)
    BY <1>2, <1>11, <1>21 DEF Entries, EntriesDiffer, Entry, Behind
  <2> QED
    BY <1>2, <1>20, <1>22, <2>1 DEF DiskInv, Queues
<1>24. DiskType'
  <2>1. avail' \in [idx : Index16, ring : [Desc -> Desc]]
    BY <1>21, <1>22 DEF Queue
  <2> QED
    BY <1>1, <1>2, <1>7, <1>8, <1>10, <1>11, <2>1 DEF DiskType
<1>25. Contained' /\ HolderValid' /\ TransferDone' /\ CleanSame' /\ PinnedValid'
  <2>1. \A q \in Proc : (Has(q) => valid[buf[q]]) /\ (pc[q] \in Reading => ~valid[buf[q]])
    BY DEF DiskInv, HolderValid
  <2>2. \A q \in Proc : Has(q)' => Has(q)
    BY <1>5, <1>10 DEF Has
  <2>3. \A q \in Proc : pc'[q] \in Reading => pc[q] \in Reading
    BY <1>5, <1>10 DEF Reading
  <2>4. \A q \in Proc : Writes(q) => Writes(q)'
    BY <1>5, <1>10 DEF Writes
  <2>5. \A q \in Proc : Done(q)' \/ pc'[q] = "written" => Same(buf[q])
    <3>1. ASSUME NEW q \in Proc, Done(q)' \/ pc'[q] = "written" PROVE Done(q) \/ pc[q] = "written"
      <4>1. q # p
        BY <1>5, <1>10, <3>1 DEF Done, Waits, Dones
      <4>2. pc'[q] = pc[q]
        BY <1>10, <4>1
      <4>3. pc[q] \in Waits => head'[q] = head[q] /\ info'[head[q]] = info[head[q]]
        BY <1>13 DEF Waiting
      <4> QED
        BY <3>1, <4>2, <4>3 DEF Done
    <3> QED
      BY <3>1 DEF DiskInv, TransferDone
  <2> QED
    BY <1>2, <2>1, <2>2, <2>3, <2>4, <2>5, ContentsFrame
<1>26. GaveUp'
  BY <1>2 DEF GaveUp
<1> QED
  BY <1>16, <1>17, <1>18, <1>19, <1>23, <1>24, <1>25, <1>26 DEF DiskInv

\* virtio_disk_rw() ends: the chain is freed.
LEMMA RwDoneDisk == ASSUME CacheInv, DiskInv, NEW p \in Proc, RwDone(p) PROVE DiskInv'
<1>1. /\ CacheType /\ DiskType /\ DOMAIN pc = Proc
      /\ free \in [Desc -> BOOLEAN] /\ DOMAIN desc = Desc /\ head \in [Proc -> Desc]
      /\ info \in [Desc -> [b : Buf \union {0}, ok : BOOLEAN]] /\ valid \in [Buf -> BOOLEAN]
  BY DEF CacheInv, CacheType, DiskInv, DiskType
<1>2. PICK b, h : b = buf[p] /\ h = head[p]
  OBVIOUS
<1>3. /\ ~panic /\ pc[p] \in Dones /\ p \in Waiting
      /\ UNCHANGED <<machine, avail, used_idx, taken, last_avail, used, disk, head, blockno, data, media,
                     pinned, lru, buf>>
  BY DEF RwDone, At, devvars, bounds, Dones, Waiting
<1>4. PICK d, s \in Desc : /\ Request(p, h, d, s) /\ Owned(p) = {h, d, s} /\ ChainOf(h) = {h, d, s}
                           /\ b \in Buf /\ blockno[b] \in Block /\ h \in Desc
  BY <1>2, <1>3, RequestIs
<1>5. /\ free' = [x \in Desc |-> free[x] \/ x \in {h, d, s}]
      /\ desc' = [x \in Desc |-> IF x \in {h, d, s} THEN NoDesc ELSE desc[x]]
      /\ info' = [info EXCEPT ![h].b = 0] /\ panic' = \E x \in {h, d, s} : free[x]
      /\ valid' = [valid EXCEPT ![b] = @ \/ pc[p] = "read-done"]
  BY <1>2, <1>3, <1>4 DEF RwDone
<1>6. ~panic'
  <2>1. \A x \in {h, d, s} : ~free[x]
    BY <1>3, <1>4, RequestIs
  <2> QED
    BY <1>5, <2>1
<1>7. PICK l : /\ \/ pc[p] = "read-done" /\ l = "has"
                  \/ pc[p] = "write-done" /\ l = "written"
               /\ l = IF pc[p] = "read-done" THEN "has" ELSE "written"
  BY <1>3 DEF Dones
<1>8. PICK g : g = Awake(Awake(pc, "read-sleep", "readagain"), "write-sleep", "writeagain")
  OBVIOUS
<1>9. /\ DOMAIN g = Proc
      /\ \A q \in Proc : \/ g[q] = pc[q]
                         \/ pc[q] = "read-sleep" /\ g[q] = "readagain"
                         \/ pc[q] = "write-sleep" /\ g[q] = "writeagain"
  BY <1>1, <1>8 DEF Awake
<1>10. pc' = [g EXCEPT ![p] = l]
  BY <1>7, <1>8 DEF RwDone
<1>11. pc'[p] = l /\ \A q \in Proc : q # p => pc'[q] = g[q]
  BY <1>9, <1>10
<1>12. Waiting' = Waiting \ {p} /\ \A q \in Waiting : q # p => pc'[q] = pc[q]
  BY <1>7, <1>9, <1>11 DEF Waiting, Waits, Dones
<1>13. /\ valid' \in [Buf -> BOOLEAN] /\ (\A c \in Buf : c # b => valid'[c] = valid[c])
       /\ (valid[b] => valid'[b]) /\ (pc[p] = "read-done" => valid'[b])
       /\ (pc[p] = "write-done" => valid'[b] = valid[b])
  BY <1>1, <1>4, <1>5, <1>7
<1>14. /\ info' \in [Desc -> [b : Buf \union {0}, ok : BOOLEAN]]
       /\ \A x \in Desc : info'[x].ok = info[x].ok /\ (x # h => info'[x] = info[x])
  BY <1>1, <1>4, <1>5
<1>15. Buf' = Buf /\ Desc' = Desc /\ NUM' = NUM /\ NBUF' = NBUF
  BY <1>3 DEF Buf, Desc, NUM, NBUF
<1>16. ASSUME NEW q \in Waiting, q # p
       PROVE  /\ \E x, y \in Desc : Request(q, head[q], x, y)' /\ Owned(q)' = Owned(q)
              /\ head[q] \in Desc /\ head[q] # h
  <2>1. PICK x, y \in Desc : Request(q, head[q], x, y) /\ Owned(q) = {head[q], x, y}
    BY <1>16, RequestIs
  <2>2. Owned(q) \intersect {h, d, s} = {} /\ head[q] \in Desc /\ head[q] # h
    BY <1>2, <1>3, <1>4, <1>16, RequestIs
  <2>3. desc'[head[q]] = desc[head[q]] /\ desc'[x] = desc[x] /\ desc'[y] = desc[y]
    BY <1>5, <2>1, <2>2
  <2>4. Request(q, head[q], x, y)'
    BY <1>3, <1>12, <1>15, <1>16, <2>1, <2>3 DEF Request
  <2>5. Owned(q)' = Owned(q)
    BY <1>3, <2>1, <2>3 DEF Owned, Request
  <2> QED
    BY <2>2, <2>4, <2>5
<1>17. Requests'
  BY <1>3, <1>12, <1>15, <1>16 DEF Requests
<1>18. OwnedApart'
  BY <1>12, <1>16 DEF DiskInv, OwnedApart
<1>19. OwnedBusy'
  <2>1. ASSUME NEW x \in Desc PROVE ~free'[x] <=> \E q \in Waiting' : x \in Owned(q)'
    <3>1. ~free[x] <=> \E q \in Waiting : x \in Owned(q)
      BY DEF DiskInv, OwnedBusy
    <3>2. ~free'[x] <=> (~free[x] /\ x \notin Owned(p))
      BY <1>4, <1>5
    <3>3. (\E q \in Waiting' : x \in Owned(q)') <=> (\E q \in Waiting : q # p /\ x \in Owned(q))
      BY <1>12, <1>16
    <3>4. x \in Owned(p) => \A q \in Waiting : q # p => x \notin Owned(q)
      BY <1>3, RequestIs
    <3> QED
      BY <3>1, <3>2, <3>3, <3>4
  <2> QED
    BY <1>15, <2>1 DEF OwnedBusy
<1>20. Reported'
  <2>1. ASSUME NEW q \in Waiting, q # p
        PROVE  info'[head[q]].b = buf[q] /\ (disk[buf[q]] <=> pc'[q] \in Waits)
    BY <1>12, <1>14, <1>16, <2>1 DEF DiskInv, Reported
  <2> QED
    BY <1>3, <1>12, <2>1 DEF Reported
<1>21. Pending' = Pending /\ Finished' = Finished
  <2>1. \A q \in Proc : pc'[q] \in Waits <=> pc[q] \in Waits
    BY <1>7, <1>9, <1>11 DEF Waits
  <2>2. \A q \in Proc : info'[head[q]].ok = info[head[q]].ok
    BY <1>1, <1>14
  <2> QED
    BY <1>3, <2>1, <2>2 DEF Pending, Finished
<1>22. Queues'
  <2>1. /\ Entries(avail, last_avail)' = Entries(avail, last_avail)
        /\ EntriesDiffer(avail, last_avail)' = EntriesDiffer(avail, last_avail)
        /\ Entries(used, used_idx)' = Entries(used, used_idx)
        /\ EntriesDiffer(used, used_idx)' = EntriesDiffer(used, used_idx)
    BY <1>3, <1>15 DEF Entries, EntriesDiffer, Entry, Behind
  <2> QED
    BY <1>3, <1>21, <2>1 DEF DiskInv, Queues
<1>23. DiskType'
  <2>1. free' \in [Desc -> BOOLEAN] /\ DOMAIN desc' = Desc
    BY <1>1, <1>5
  <2> QED
    BY <1>1, <1>3, <1>13, <1>14, <1>15, <2>1 DEF DiskType
\* The buffer has the content of the block, and is valid now.
<1>24. Same(b)
  BY <1>2, <1>3 DEF DiskInv, TransferDone, Done
<1>25. Contained'
  <2>1. data[b] \in Contents
    BY <1>1, <1>4, <1>24 DEF Same, DiskType
  <2> QED
    BY <1>3, <1>4, <1>13, <1>15, <2>1 DEF DiskInv, Contained
<1>26. HolderValid'
  <2>1. \A q \in Proc : (Has(q) => valid[buf[q]]) /\ (pc[q] \in Reading => ~valid[buf[q]])
    BY DEF DiskInv, HolderValid
  <2>2. \A q \in Proc : q # p /\ pc[q] \notin Lockless => buf[q] \in Buf /\ buf[q] # b
    BY <1>2, <1>3, HoldersDiffer, PlacesLocked
  <2>3. \A q \in Proc : q # p => (Has(q)' => Has(q)) /\ (pc'[q] \in Reading => pc[q] \in Reading)
    BY <1>9, <1>11 DEF Has, Reading
  <2>4. \A q \in Proc : q # p => (Has(q)' => valid'[buf[q]]) /\ (pc'[q] \in Reading => ~valid'[buf[q]])
    BY <1>13, <2>1, <2>2, <2>3, PlacesLocked
  <2>5. pc'[p] \notin Reading /\ valid'[b]
    BY <1>2, <1>7, <1>11, <1>13, <2>1 DEF Reading, Has
  <2> QED
    BY <1>2, <1>3, <2>4, <2>5 DEF HolderValid
<1>27. TransferDone'
  <2>1. ASSUME NEW q \in Proc, Done(q)' \/ pc'[q] = "written" PROVE Same(buf[q])
    <3>1. CASE q = p
      BY <1>2, <1>24, <3>1
    <3>2. CASE q # p
      <4>1. pc'[q] = pc[q]
        BY <1>9, <1>11, <2>1, <3>2 DEF Done, Waits, Dones
      <4>2. Done(q) \/ pc[q] = "written"
        BY <1>1, <1>3, <1>14, <2>1, <4>1 DEF Done
      <4> QED
        BY <4>2 DEF DiskInv, TransferDone
    <3> QED
      BY <3>1, <3>2
  <2> QED
    BY <1>3, <2>1 DEF TransferDone, Same
<1>28. CleanSame'
  <2>1. ASSUME NEW c \in Buf, valid'[c], blockno[c] \notin pinned, \A q \in Proc : buf[q] = c => ~Writes(q)'
        PROVE  Same(c)
    <3>1. CASE c = b
      BY <1>24, <3>1
    <3>2. CASE c # b
      <4>1. \A q \in Proc : buf[q] = c => ~Writes(q)
        BY <1>2, <1>9, <1>11, <2>1, <3>2 DEF Writes
      <4> QED
        BY <1>13, <2>1, <3>2, <4>1 DEF DiskInv, CleanSame
    <3> QED
      BY <3>1, <3>2
  <2> QED
    BY <1>3, <1>15, <2>1 DEF CleanSame, Same
<1>29. PinnedValid'
  BY <1>3, <1>13, <1>15 DEF DiskInv, PinnedValid
<1>30. GaveUp'
  BY <1>6 DEF GaveUp
<1> QED
  BY <1>17, <1>18, <1>19, <1>20, <1>22, <1>23, <1>25, <1>26, <1>27, <1>28, <1>29, <1>30 DEF DiskInv

\* virtio_disk_intr() handles a completion: it wakes exactly the process whose
\* request it is.
LEMMA IntrUsedDisk == ASSUME CacheInv, DiskInv, IntrUsed PROVE DiskInv'
<1>1. /\ CacheType /\ DiskType /\ DOMAIN pc = Proc /\ machine \in Machines
      /\ used \in Queue /\ used_idx \in Index16 /\ disk \in [Buf -> BOOLEAN]
  BY DEF CacheInv, CacheType, DiskInv, DiskType, Queue
<1>2. PICK h, b : h = used.ring[used_idx % NUM] /\ b = info[h].b
  OBVIOUS
<1>3. /\ ~panic /\ used_idx # used.idx /\ panic' = (~info[h].ok \/ b = 0)
      /\ disk' = [c \in Buf |-> disk[c] /\ c # b]
      /\ pc' = [q \in Proc |-> IF buf[q] # b THEN pc[q]
                               ELSE IF pc[q] = "read-wait" THEN "read-done"
                               ELSE IF pc[q] = "write-wait" THEN "write-done" ELSE pc[q]]
      /\ used_idx' = (used_idx + 1) % UINT16
      /\ UNCHANGED <<machine, free, desc, avail, info, taken, last_avail, used, head, blockno, valid, data,
                     media, pinned, lru, buf>>
  BY <1>2 DEF IntrUsed, cachevars, queuevars, devvars, bounds
<1>4. PICK t, u : t = used /\ u = used_idx'
  OBVIOUS
<1>5. /\ u \in Index16 /\ h \in Entries(used, used_idx)
      /\ Entries(used, u) = Entries(used, used_idx) \ {h} /\ EntriesDiffer(used, u)
  <2>1. /\ t \in Queue /\ EntriesDiffer(t, used_idx) /\ used_idx # t.idx /\ h = t.ring[used_idx % NUM]
        /\ u = (used_idx + 1) % UINT16
    BY <1>1, <1>2, <1>3, <1>4 DEF DiskInv, Queues
  <2>2. /\ u \in Index16 /\ h \in Entries(t, used_idx)
        /\ Entries(t, u) = Entries(t, used_idx) \ {h} /\ EntriesDiffer(t, u)
    BY <1>1, <2>1, EntryTaken
  <2> QED
    BY <1>4, <2>2
<1>6. h \in Finished
  BY <1>5 DEF DiskInv, Queues
<1>7. PICK p \in Proc : h = head[p] /\ pc[p] \in Waits /\ info[h].ok
  BY <1>6 DEF Finished
<1>8. /\ p \in Waiting /\ b = buf[p] /\ b \in Buf /\ b # 0 /\ ~panic'
  <2>1. p \in Waiting
    BY <1>7 DEF Waiting
  <2>2. b = buf[p] /\ b \in Buf
    BY <1>2, <1>7, <2>1, RequestIs DEF DiskInv, Reported
  <2>3. 0 \notin Buf
    BY DEF Buf
  <2> QED
    BY <1>3, <1>7, <2>1, <2>2, <2>3
<1>9. PICK l : \/ pc[p] = "read-wait" /\ l = "read-done"
               \/ pc[p] = "write-wait" /\ l = "write-done"
  BY <1>7 DEF Waits
<1>10. pc'[p] = l /\ \A q \in Proc : q # p => pc'[q] = pc[q]
  <2>1. pc'[p] = l
    BY <1>3, <1>8, <1>9
  <2>2. ASSUME NEW q \in Proc, q # p PROVE pc'[q] = pc[q]
    <3>1. buf[q] = b => q \notin Waiting
      BY <1>8, <2>2, RequestIs
    <3>2. buf[q] = b => pc[q] \notin {"read-wait", "write-wait"}
      BY <3>1 DEF Waiting, Waits
    <3> QED
      BY <1>3, <3>2
  <2> QED
    BY <2>1, <2>2
<1>11. Waiting' = Waiting
  BY <1>9, <1>10 DEF Waiting, Waits, Dones
<1>12. Buf' = Buf /\ Desc' = Desc /\ NUM' = NUM /\ NBUF' = NBUF
  BY <1>3 DEF Buf, Desc, NUM, NBUF
<1>13. \A q : Owned(q)' = Owned(q)
  BY <1>3 DEF Owned
<1>14. Requests'
  <2>1. ASSUME NEW q \in Waiting PROVE \E x, y \in Desc : Request(q, head[q], x, y)'
    <3>1. PICK x, y \in Desc : Request(q, head[q], x, y) /\ q \in Proc
      BY RequestIs
    <3>2. Request(q, head[q], x, y)'
      BY <1>3, <1>9, <1>10, <1>12, <3>1 DEF Request
    <3> QED
      BY <3>2
  <2> QED
    BY <1>3, <1>11, <1>12, <2>1 DEF Requests
<1>15. OwnedApart' /\ OwnedBusy'
  BY <1>3, <1>11, <1>12, <1>13 DEF DiskInv, OwnedApart, OwnedBusy
<1>16. Reported'
  <2>1. ASSUME NEW q \in Waiting PROVE info[head[q]].b = buf[q] /\ (disk'[buf[q]] <=> pc'[q] \in Waits)
    <3>1. info[head[q]].b = buf[q] /\ (disk[buf[q]] <=> pc[q] \in Waits) /\ buf[q] \in Buf /\ q \in Proc
      BY RequestIs DEF DiskInv, Reported
    <3>2. CASE q = p
      <4>1. ~disk'[buf[q]]
        BY <1>3, <1>8, <3>2
      <4>2. pc'[q] \notin Waits
        BY <1>9, <1>10, <3>2 DEF Waits
      <4> QED
        BY <3>1, <4>1, <4>2
    <3>3. CASE q # p
      <4>1. buf[q] # b
        BY <1>8, <3>3, RequestIs
      <4> QED
        BY <1>3, <1>10, <3>1, <3>3, <4>1
    <3> QED
      BY <3>2, <3>3
  <2> QED
    BY <1>3, <1>11, <2>1 DEF Reported
<1>17. Pending' = Pending /\ Finished' = Finished \ {h}
  <2>1. \A q \in Proc : pc'[q] \in Waits <=> (pc[q] \in Waits /\ q # p)
    BY <1>9, <1>10 DEF Waits
  <2>2. \A q \in Proc : pc[q] \in Waits /\ q # p => head[q] # h
    BY <1>7, <1>8, RequestIs DEF Waiting
  <2>3. Pending' = Pending
    BY <1>3, <1>7, <2>1 DEF Pending
  <2>4. Finished' = Finished \ {h}
    BY <1>3, <1>7, <2>1, <2>2 DEF Finished
  <2> QED
    BY <2>3, <2>4
<1>18. Queues'
  <2>1. /\ Entries(avail, last_avail)' = Entries(avail, last_avail)
        /\ EntriesDiffer(avail, last_avail)' = EntriesDiffer(avail, last_avail)
        /\ Entries(used, used_idx)' = Entries(used, u)
        /\ EntriesDiffer(used, used_idx)' = EntriesDiffer(used, u)
    BY <1>3, <1>4, <1>12 DEF Entries, EntriesDiffer, Entry, Behind
  <2> QED
    BY <1>3, <1>5, <1>17, <2>1 DEF DiskInv, Queues
<1>19. DiskType'
  <2>1. disk' \in [Buf -> BOOLEAN]
    BY <1>1, <1>3
  <2> QED
    BY <1>1, <1>3, <1>4, <1>5, <1>12, <2>1 DEF DiskType
<1>20. Contained' /\ HolderValid' /\ TransferDone' /\ CleanSame' /\ PinnedValid'
  <2>1. \A q \in Proc : (Has(q) => valid[buf[q]]) /\ (pc[q] \in Reading => ~valid[buf[q]])
    BY DEF DiskInv, HolderValid
  <2>2. \A q \in Proc : Has(q)' => Has(q)
    BY <1>9, <1>10 DEF Has
  <2>3. \A q \in Proc : pc'[q] \in Reading => pc[q] \in Reading
    BY <1>9, <1>10 DEF Reading
  <2>4. Same(buf[p])
    BY <1>7 DEF DiskInv, TransferDone, Done
  <2>5. \A q \in Proc : Writes(q) => Writes(q)' \/ Same(buf[q])
    BY <1>10, <2>4 DEF Writes
  <2>6. \A q \in Proc : Done(q)' \/ pc'[q] = "written" => Same(buf[q])
    <3>1. ASSUME NEW q \in Proc, q # p, Done(q)' \/ pc'[q] = "written" PROVE Same(buf[q])
      <4>1. Done(q) \/ pc[q] = "written"
        BY <1>3, <1>10, <3>1 DEF Done
      <4> QED
        BY <4>1 DEF DiskInv, TransferDone
    <3> QED
      BY <2>4, <3>1
  <2> QED
    BY <1>3, <2>1, <2>2, <2>3, <2>5, <2>6, ContentsFrame
<1>21. GaveUp'
  BY <1>8 DEF GaveUp
<1> QED
  BY <1>14, <1>15, <1>16, <1>18, <1>19, <1>20, <1>21 DEF DiskInv

\* What the device does, whatever the request that it has taken.
LEMMA DevDoIs ==
  ASSUME CacheInv, DiskInv, NEW h \in taken \union New, DevDo(h)
  PROVE  \E p \in Proc, b \in Buf, n \in Block :
           /\ h = head[p] /\ pc[p] \in Waits /\ ~info[h].ok /\ h \in Desc
           /\ b = buf[p] /\ n = blockno[b]
           /\ ~panic /\ ~panic'
           /\ \/ pc[p] = "write-wait" /\ media' = [media EXCEPT ![n] = data[b]] /\ data' = data
              \/ pc[p] = "read-wait" /\ data' = [data EXCEPT ![b] = media[n]] /\ media' = media
           /\ info' = [info EXCEPT ![h].ok = TRUE]
           /\ used' = [idx |-> (used.idx + 1) % UINT16, ring |-> [used.ring EXCEPT ![used.idx % NUM] = h]]
           /\ taken' = (taken \union New) \ {h} /\ last_avail' = avail.idx
           /\ UNCHANGED <<machine, lru, blockno, valid, disk, free, desc, avail, used_idx, pc, buf, head, pinned>>
<1>1. New = Entries(avail, last_avail)
  BY DEF New, Entries, Entry, Behind
<1>2. h \in Pending
  BY <1>1 DEF DiskInv, Queues
<1>3. PICK p \in Proc : h = head[p] /\ pc[p] \in Waits /\ ~info[h].ok
  BY <1>2 DEF Pending
<1>4. p \in Waiting
  BY <1>3 DEF Waiting
<1>5. PICK b, n : b = buf[p] /\ n = blockno[buf[p]]
  OBVIOUS
<1>6. PICK d, s \in Desc : Request(p, h, d, s) /\ h \in Desc /\ b \in Buf /\ n \in Block
  BY <1>3, <1>4, <1>5, RequestIs
<1>7. /\ desc[h].addr[2] = (IF pc[p] = "write-wait" THEN "OUT" ELSE "IN") /\ desc[h].addr[3] = n
      /\ desc[h].next = d /\ desc[d].addr[2] = b /\ desc[d].next = s /\ desc[s].addr[2] = h
  BY <1>3, <1>5, <1>6 DEF Request, Waits
<1>8. /\ ~panic /\ ~panic'
      /\ \/ pc[p] = "write-wait" /\ media' = [media EXCEPT ![n] = data[b]] /\ data' = data
         \/ pc[p] = "read-wait" /\ data' = [data EXCEPT ![b] = media[n]] /\ media' = media
      /\ info' = [info EXCEPT ![h].ok = TRUE]
      /\ used' = [idx |-> (used.idx + 1) % UINT16, ring |-> [used.ring EXCEPT ![used.idx % NUM] = h]]
      /\ taken' = (taken \union New) \ {h} /\ last_avail' = avail.idx
      /\ UNCHANGED <<machine, lru, blockno, valid, disk, free, desc, avail, used_idx, pc, buf, head, pinned>>
  <2>1. pc[p] = "write-wait" \/ pc[p] = "read-wait"
    BY <1>3 DEF Waits
  <2> QED
    BY <1>7, <2>1 DEF DevDo, cachevars, bounds
<1> QED
  BY <1>3, <1>5, <1>6, <1>8

\* The device carries out a request and reports it.
LEMMA DevDoDisk == ASSUME CacheInv, DiskInv, NEW h \in taken \union New, DevDo(h) PROVE DiskInv'
<1>1. /\ CacheType /\ DiskType /\ machine \in Machines
      /\ used \in Queue /\ used_idx \in Index16 /\ avail \in Queue /\ last_avail \in Index16
      /\ info \in [Desc -> [b : Buf \union {0}, ok : BOOLEAN]] /\ valid \in [Buf -> BOOLEAN]
      /\ data \in [Buf -> Contents \union {NoValue}] /\ media \in [Block -> Contents]
  BY DEF CacheInv, CacheType, DiskInv, DiskType, Queue
<1>2. New = Entries(avail, last_avail)
  BY DEF New, Entries, Entry, Behind
<1>3. PICK p \in Proc, b \in Buf, n \in Block :
        /\ h = head[p] /\ pc[p] \in Waits /\ ~info[h].ok /\ h \in Desc
        /\ b = buf[p] /\ n = blockno[b]
        /\ ~panic /\ ~panic'
        /\ \/ pc[p] = "write-wait" /\ media' = [media EXCEPT ![n] = data[b]] /\ data' = data
           \/ pc[p] = "read-wait" /\ data' = [data EXCEPT ![b] = media[n]] /\ media' = media
        /\ info' = [info EXCEPT ![h].ok = TRUE]
        /\ used' = [idx |-> (used.idx + 1) % UINT16, ring |-> [used.ring EXCEPT ![used.idx % NUM] = h]]
        /\ taken' = (taken \union New) \ {h} /\ last_avail' = avail.idx
        /\ UNCHANGED <<machine, lru, blockno, valid, disk, free, desc, avail, used_idx, pc, buf, head, pinned>>
  BY DevDoIs
<1>4. h = head[p] /\ pc[p] \in Waits /\ ~info[h].ok
  BY <1>3
<1>5. p \in Waiting
  BY <1>4 DEF Waiting
<1>6. b = buf[p] /\ n = blockno[buf[p]]
  BY <1>3
<1>7. h \in Desc /\ b \in Buf /\ n \in Block
  BY <1>3
<1>9. /\ ~panic /\ ~panic'
      /\ \/ pc[p] = "write-wait" /\ media' = [media EXCEPT ![n] = data[b]] /\ data' = data
         \/ pc[p] = "read-wait" /\ data' = [data EXCEPT ![b] = media[n]] /\ media' = media
      /\ info' = [info EXCEPT ![h].ok = TRUE]
      /\ used' = [idx |-> (used.idx + 1) % UINT16, ring |-> [used.ring EXCEPT ![used.idx % NUM] = h]]
      /\ taken' = (taken \union New) \ {h} /\ last_avail' = avail.idx
      /\ UNCHANGED <<machine, lru, blockno, valid, disk, free, desc, avail, used_idx, pc, buf, head, pinned>>
  BY <1>3
<1>10. Buf' = Buf /\ Desc' = Desc /\ NUM' = NUM /\ NBUF' = NBUF
  BY <1>9 DEF Buf, Desc, NUM, NBUF
<1>11. Waiting' = Waiting /\ \A q : Owned(q)' = Owned(q)
  BY <1>9 DEF Waiting, Owned
<1>12. /\ info' \in [Desc -> [b : Buf \union {0}, ok : BOOLEAN]] /\ info'[h].ok
       /\ \A x \in Desc : info'[x].b = info[x].b /\ (x # h => info'[x] = info[x])
  BY <1>1, <1>7, <1>9
<1>13. Requests'
  <2>1. ASSUME NEW q \in Waiting PROVE \E x, y \in Desc : Request(q, head[q], x, y)'
    <3>1. PICK x, y \in Desc : Request(q, head[q], x, y) /\ q \in Proc
      BY RequestIs
    <3>2. Request(q, head[q], x, y)'
      BY <1>9, <1>10, <3>1 DEF Request
    <3> QED
      BY <3>2
  <2> QED
    BY <1>9, <1>10, <1>11, <2>1 DEF Requests
<1>14. OwnedApart' /\ OwnedBusy'
  BY <1>9, <1>10, <1>11 DEF DiskInv, OwnedApart, OwnedBusy
<1>15. Reported'
  <2>1. ASSUME NEW q \in Waiting PROVE info'[head[q]].b = buf[q] /\ (disk[buf[q]] <=> pc[q] \in Waits)
    BY <1>12, RequestIs DEF DiskInv, Reported
  <2> QED
    BY <1>9, <1>11, <2>1 DEF Reported
\* No other request is at h.
<1>16. \A q \in Proc : pc[q] \in Waits /\ q # p => head[q] # h /\ info'[head[q]] = info[head[q]]
  <2>1. \A q \in Waiting : q # p => head[q] # h /\ head[q] \in Desc
    BY <1>4, <1>5, RequestIs
  <2> QED
    BY <1>12, <2>1 DEF Waiting
<1>17. Pending' = Pending \ {h} /\ Finished' = Finished \union {h} /\ h \notin Finished
  <2>1. Pending' = Pending \ {h}
    BY <1>4, <1>9, <1>12, <1>16 DEF Pending
  <2>2. Finished' = Finished \union {h}
    BY <1>4, <1>9, <1>12, <1>16 DEF Finished
  <2>3. h \notin Finished
    BY <1>4, <1>16 DEF Finished
  <2> QED
    BY <2>1, <2>2, <2>3
<1>18. PICK a, t, i : a = used' /\ t = used /\ i = last_avail'
  OBVIOUS
<1>19. /\ a \in Queue /\ Entries(a, used_idx) = Entries(used, used_idx) \union {h}
       /\ EntriesDiffer(a, used_idx)
  <2>1. /\ t \in Queue /\ EntriesDiffer(t, used_idx) /\ h \notin Entries(t, used_idx)
        /\ a = [idx |-> (t.idx + 1) % UINT16, ring |-> [t.ring EXCEPT ![t.idx % NUM] = h]]
    BY <1>1, <1>9, <1>17, <1>18 DEF DiskInv, Queues
  <2>2. /\ a \in Queue /\ Entries(a, used_idx) = Entries(t, used_idx) \union {h}
        /\ EntriesDiffer(a, used_idx)
    BY <1>1, <1>7, <2>1, EntryAdded
  <2> QED
    BY <1>18, <2>2
<1>20. i \in Index16 /\ Entries(avail, i) = {} /\ EntriesDiffer(avail, i)
  <2>1. i = avail.idx /\ i \in Index16
    BY <1>1, <1>9, <1>18 DEF Queue
  <2>2. Behind(avail.idx, i) = 0
    BY <1>1, <2>1, DiskConstants, BehindSelf
  <2>3. 0 .. Behind(avail.idx, i) - 1 = {}
    BY <2>2
  <2> QED
    BY <2>1, <2>3 DEF Entries, EntriesDiffer
<1>21. Queues'
  <2>1. /\ Entries(avail, last_avail)' = Entries(avail, i)
        /\ EntriesDiffer(avail, last_avail)' = EntriesDiffer(avail, i)
        /\ Entries(used, used_idx)' = Entries(a, used_idx)
        /\ EntriesDiffer(used, used_idx)' = EntriesDiffer(a, used_idx)
    BY <1>9, <1>10, <1>18 DEF Entries, EntriesDiffer, Entry, Behind
  <2>2. taken' = Pending \ {h}
    BY <1>2, <1>9 DEF DiskInv, Queues
  <2> QED
    BY <1>17, <1>19, <1>20, <2>1, <2>2 DEF DiskInv, Queues
\* The contents of the block and of the buffer are the same now, and nothing
\* else has changed.
<1>22. /\ \A q \in Proc : q # p /\ pc[q] \notin Lockless => buf[q] \in Buf /\ buf[q] # b
       /\ \A c \in Buf : c # b => blockno[c] # n
  BY <1>5, <1>6, HoldersDiffer, RequestIs
<1>23. /\ data' \in [Buf -> Contents \union {NoValue}] /\ media' \in [Block -> Contents]
       /\ data'[b] = media'[n]
       /\ \A c \in Buf : c # b => data'[c] = data[c]
       /\ \A m \in Block : m # n => media'[m] = media[m]
       /\ (valid[b] => data'[b] = data[b])
  <2>1. CASE pc[p] = "write-wait"
    <3>1. valid[b]
      BY <1>6, <2>1 DEF DiskInv, HolderValid, Has
    <3>2. data[b] \in Contents
      BY <1>7, <3>1 DEF DiskInv, Contained
    <3> QED
      BY <1>1, <1>7, <1>9, <2>1, <3>2
  <2>2. CASE pc[p] = "read-wait"
    <3>1. ~valid[b]
      BY <1>6, <2>2 DEF DiskInv, HolderValid, Reading
    <3>2. media[n] \in Contents
      BY <1>1, <1>7
    <3> QED
      BY <1>1, <1>7, <1>9, <2>2, <3>1, <3>2
  <2> QED
    BY <1>4, <2>1, <2>2 DEF Waits
<1>24. DiskType'
  <2>1. used' \in [idx : Index16, ring : [Desc -> Desc]]
    BY <1>18, <1>19 DEF Queue
  <2>2. last_avail' \in Index16
    BY <1>18, <1>20
  <2> QED
    BY <1>1, <1>9, <1>10, <1>12, <1>23, <2>1, <2>2 DEF DiskType
<1>25. Contained'
  <2>1. ASSUME NEW c \in Buf, valid[c] PROVE blockno[c] \in Block /\ data'[c] \in Contents
    BY <1>23, <2>1 DEF DiskInv, Contained
  <2> QED
    BY <1>9, <1>10, <2>1 DEF Contained
<1>26. HolderValid' /\ PinnedValid'
  BY <1>9, <1>10 DEF DiskInv, HolderValid, PinnedValid, Has
<1>27. \A c \in Buf : c # b => (blockno[c] \in Block /\ Same(c) => data'[c] = media'[blockno[c]])
  BY <1>22, <1>23 DEF Same
<1>28. TransferDone'
  <2>1. ASSUME NEW q \in Proc, Done(q)' \/ pc[q] = "written" PROVE data'[buf[q]] = media'[blockno[buf[q]]]
    <3>1. CASE q = p
      BY <1>6, <1>23, <3>1
    <3>2. CASE q # p
      <4>1. Done(q) \/ pc[q] = "written"
        BY <1>9, <1>16, <2>1, <3>2 DEF Done
      <4>2. Same(buf[q]) /\ pc[q] \notin Lockless
        BY <4>1, PlacesLocked DEF DiskInv, TransferDone
      <4>3. buf[q] \in Buf /\ buf[q] # b /\ blockno[buf[q]] \in Block
        BY <1>22, <3>2, <4>2, HoldersDiffer
      <4> QED
        BY <1>27, <4>2, <4>3
    <3> QED
      BY <3>1, <3>2
  <2> QED
    BY <1>9, <2>1 DEF TransferDone, Same
<1>29. CleanSame'
  <2>1. ASSUME NEW c \in Buf, valid[c], blockno[c] \notin pinned, \A q \in Proc : buf[q] = c => ~Writes(q)
        PROVE  data'[c] = media'[blockno[c]]
    <3>1. CASE c = b
      BY <1>6, <1>23, <3>1
    <3>2. CASE c # b
      BY <1>27, <2>1, <3>2 DEF DiskInv, CleanSame, Contained
    <3> QED
      BY <3>1, <3>2
  <2> QED
    BY <1>9, <1>10, <2>1 DEF CleanSame, Same, Writes
<1>30. GaveUp'
  BY <1>9 DEF GaveUp
<1> QED
  BY <1>13, <1>14, <1>15, <1>21, <1>24, <1>25, <1>26, <1>28, <1>29, <1>30 DEF DiskInv

\* binit() and virtio_disk_init().
LEMMA InitDisk == ASSUME Init PROVE DiskInv
<1>1. /\ machine \in Machines /\ lru = [k \in 1 .. NBUF |-> NBUF + 1 - k]
      /\ blockno = [b \in Buf |-> NoBlock] /\ valid = [b \in Buf |-> FALSE]
      /\ data = [b \in Buf |-> NoValue] /\ disk = [b \in Buf |-> FALSE]
      /\ free = [d \in Desc |-> TRUE] /\ desc = [d \in Desc |-> NoDesc]
      /\ info = [d \in Desc |-> [b |-> 0, ok |-> FALSE]]
      /\ avail = [idx |-> machine.served, ring |-> [k \in Desc |-> 0]] /\ used = avail
      /\ used_idx = machine.served /\ last_avail = machine.served
      /\ media = [n \in Block |-> Blank] /\ taken = {} /\ ~panic /\ pinned = {}
      /\ pc = [p \in Proc |-> "idle"] /\ buf = [p \in Proc |-> 0] /\ head = [p \in Proc |-> 0]
  BY DEF Init
<1>2. /\ NUM \in Nat \ {0} /\ UINT16 \in Nat \ {0} /\ machine.served \in Index16 /\ NBUF \in Nat \ {0}
      /\ 0 \in Desc
  BY <1>1, DiskConstants DEF Desc
<1>3. \A b \in Buf : \E k \in 1 .. NBUF : lru[k] = b
  <2> TAKE b \in Buf
  <2>1. NBUF + 1 - b \in 1 .. NBUF /\ NBUF + 1 - (NBUF + 1 - b) = b
    BY <1>2 DEF Buf
  <2>2. lru[NBUF + 1 - b] = b
    BY <1>1, <2>1
  <2> QED
    BY <2>1, <2>2
<1>4. DiskType
  <2>1. avail \in [idx : Index16, ring : [Desc -> Desc]]
    BY <1>1, <1>2
  <2>2. info \in [Desc -> [b : Buf \union {0}, ok : BOOLEAN]]
    BY <1>1
  <2> QED
    BY <1>1, <1>2, <1>3, <2>1, <2>2 DEF DiskType, Contents
<1>5. Waiting = {} /\ Pending = {} /\ Finished = {}
  BY <1>1 DEF Waiting, Pending, Finished, Waits, Dones
<1>6. Queues
  <2>1. Behind(machine.served, machine.served) = 0
    BY <1>2, BehindSelf
  <2>2. avail.idx = machine.served /\ used.idx = machine.served
    BY <1>1
  <2>3. /\ 0 .. Behind(avail.idx, last_avail) - 1 = {} /\ 0 .. Behind(used.idx, used_idx) - 1 = {}
    BY <1>1, <2>1, <2>2
  <2> QED
    BY <1>1, <1>5, <2>3 DEF Queues, Entries, EntriesDiffer
<1>7. \A p \in Proc : ~Has(p) /\ ~Done(p) /\ pc[p] \notin Reading \union {"written"}
  BY <1>1 DEF Has, Done, Reading, Waits, Dones
<1>8. Requests /\ OwnedApart /\ OwnedBusy /\ Reported
  BY <1>1, <1>5 DEF Requests, OwnedApart, OwnedBusy, Reported
<1>9. Contained /\ HolderValid /\ TransferDone /\ CleanSame /\ PinnedValid /\ GaveUp
  BY <1>1, <1>7 DEF Contained, HolderValid, TransferDone, CleanSame, PinnedValid, GaveUp
<1> QED
  BY <1>4, <1>6, <1>8, <1>9 DEF DiskInv

\* Nothing happens.
LEMMA StutterDisk == ASSUME CacheInv, DiskInv, UNCHANGED vars PROVE DiskInv'
<1>1. UNCHANGED <<machine, free, desc, avail, info, used_idx, taken, last_avail, used, head, disk,
                  blockno, valid, data, media, pinned, lru, buf, pc, panic>>
  BY DEF vars, cachevars, queuevars, devvars, bounds
<1>2. Requests' /\ OwnedApart' /\ OwnedBusy' /\ Reported' /\ Queues'
  BY <1>1, QueueFrame
<1>3. DiskType'
  BY <1>1, ListKept, TypeFrame DEF DiskInv, DiskType
<1>4. Contained' /\ HolderValid' /\ TransferDone' /\ CleanSame' /\ PinnedValid'
  <2>1. \A q \in Proc : (Has(q)' => valid[buf[q]]) /\ (pc'[q] \in Reading => ~valid[buf[q]])
    BY <1>1 DEF DiskInv, HolderValid, Has
  <2>2. \A q \in Proc : Done(q)' \/ pc'[q] = "written" => Same(buf[q])
    BY <1>1 DEF DiskInv, TransferDone, Done
  <2>3. \A q \in Proc : Writes(q) => Writes(q)' \/ Same(buf[q])
    BY <1>1 DEF Writes
  <2> QED
    BY <1>1, <2>1, <2>2, <2>3, ContentsFrame
<1>5. GaveUp'
  BY <1>1 DEF DiskInv, GaveUp
<1> QED
  BY <1>2, <1>3, <1>4, <1>5 DEF DiskInv

\* DiskInv holds in every behaviour of the buffer cache, the driver and the device.
THEOREM DiskInvariance == Spec => []DiskInv
<1>1. CacheInv /\ DiskInv /\ [Next]_vars => DiskInv'
  <2> SUFFICES ASSUME CacheInv, DiskInv, [Next]_vars PROVE DiskInv'
    OBVIOUS
  <2>1. ASSUME NEW p \in Proc, Step(p) PROVE DiskInv'
    BY <2>1, LockedDisk, RwNoDescDisk, RwStartDisk, RwDoneDisk, BunpinDisk, BrelseDisk, BrelseRefDisk DEF Step
  <2>2. ASSUME NEW p \in Proc, Calls(p) PROVE DiskInv'
    BY <2>2, BreadDisk, WriteDisk, InstallDisk DEF Calls
  <2>3. CASE Handler \/ Device
    BY <2>3, IntrDisk, IntrUsedDisk, DevDoDisk DEF Handler, Device
  <2>4. CASE UNCHANGED vars
    BY <2>4, StutterDisk
  <2> QED
    BY <2>1, <2>2, <2>3, <2>4 DEF Next
<1> QED
  BY CacheInvariance, InitDisk, <1>1, PTL DEF Spec

\* virtio_disk_rw(), virtio_disk_intr(): for any number of processes, buffers
\* and descriptors, wherever the 16 bit indices start, a descriptor is free or in
\* the chain of exactly one request, the device owns a buffer from the request
\* until its completion is handled, and the driver does not panic.
THEOREM DescsExactHolds == Spec => []DescsExact
  BY CacheInvariance, DiskInvariance, DescsFollow, PTL

----------------------------------------------------------------------------
(***************************************************************************)
(* The buffer cache implements BlockStore                                  *)
(***************************************************************************)
\* The content of a block is in its buffer, if that is valid, or on the disk.
LEMMA ContentIs ==
  ASSUME CacheInv, NEW n \in Block
  PROVE  /\ \A b \in Buf : blockno[b] = n /\ valid[b] => Content(n) = data[b]
         /\ (\A b \in Buf : blockno[b] = n => ~valid[b]) => Content(n) = media[n]
<1>1. ASSUME NEW b \in Buf, blockno[b] = n, valid[b] PROVE Content(n) = data[b]
  <2>1. \A c \in Buf : blockno[c] = n => c = b
    BY <1>1, CacheConstants DEF CacheInv, OneBuffer
  <2>2. {c \in Cached(n) : valid[c]} = {b}
    BY <1>1, <2>1 DEF Cached
  <2>3. (CHOOSE c \in {b} : TRUE) = b
    OBVIOUS
  <2> QED
    BY <2>2, <2>3 DEF Content
<1>2. ASSUME \A b \in Buf : blockno[b] = n => ~valid[b] PROVE Content(n) = media[n]
  <2>1. {c \in Cached(n) : valid[c]} = {}
    BY <1>2 DEF Cached
  <2> QED
    BY <2>1 DEF Content
<1> QED
  BY <1>1, <1>2

LEMMA ContentNext ==
  ASSUME OneBuffer', NEW n \in Block, Buf' = Buf
  PROVE  /\ \A b \in Buf : blockno'[b] = n /\ valid'[b] => Content(n)' = data'[b]
         /\ (\A b \in Buf : blockno'[b] = n => ~valid'[b]) => Content(n)' = media'[n]
<1>1. ASSUME NEW b \in Buf, blockno'[b] = n, valid'[b] PROVE Content(n)' = data'[b]
  <2>1. \A c \in Buf : blockno'[c] = n => c = b
    BY <1>1, CacheConstants DEF OneBuffer
  <2>2. {c \in Cached(n) : valid[c]}' = {b}
    BY <1>1, <2>1 DEF Cached
  <2>3. (CHOOSE c \in {b} : TRUE) = b
    OBVIOUS
  <2> QED
    BY <2>2, <2>3 DEF Content
<1>2. ASSUME \A b \in Buf : blockno'[b] = n => ~valid'[b] PROVE Content(n)' = media'[n]
  <2>1. {c \in Cached(n) : valid[c]}' = {}
    BY <1>2 DEF Cached
  <2> QED
    BY <2>1 DEF Content
<1> QED
  BY <1>1, <1>2

\* Nobody gets, gives back or changes a block.
LEMMA StoreFrame ==
  ASSUME \A n \in Block : Content(n)' = Content(n),
         \A p \in Proc : /\ Has(p)' <=> Has(p)
                         /\ Has(p) => /\ blockno'[buf'[p]] = blockno[buf[p]]
                                      /\ data'[buf'[p]] = data[buf[p]]
  PROVE  UNCHANGED BS!vars
<1>1. [n \in Block |-> Content(n)]' = [n \in Block |-> Content(n)]
  OBVIOUS
<1>2. [p \in Proc |-> IF Has(p) THEN blockno[buf[p]] ELSE NoBlock]'
      = [p \in Proc |-> IF Has(p) THEN blockno[buf[p]] ELSE NoBlock]
  OBVIOUS
<1>3. [p \in Proc |-> IF Has(p) THEN data[buf[p]] ELSE NoValue]'
      = [p \in Proc |-> IF Has(p) THEN data[buf[p]] ELSE NoValue]
  OBVIOUS
<1> QED
  BY <1>1, <1>2, <1>3 DEF BS!vars

\* A step that touches neither the valid buffers nor the blocks without one.
LEMMA ContentKept ==
  ASSUME CacheInv, UNCHANGED <<machine, blockno, valid>>,
         \A b \in Buf : valid[b] => data'[b] = data[b],
         \A n \in Block : media'[n] = media[n] \/ \E b \in Buf : blockno[b] = n /\ valid[b]
  PROVE  \A n \in Block : Content(n)' = Content(n)
<1> SUFFICES ASSUME NEW n \in Block PROVE Content(n)' = Content(n)
  OBVIOUS
<1>1. Buf' = Buf
  BY DEF Buf, NBUF
<1>2. OneBuffer'
  BY <1>1 DEF CacheInv, OneBuffer
<1>3. CASE \E b \in Buf : blockno[b] = n /\ valid[b]
  <2>1. PICK b \in Buf : blockno[b] = n /\ valid[b]
    BY <1>3
  <2>2. Content(n) = data[b] /\ Content(n)' = data'[b]
    BY <1>1, <1>2, <2>1, ContentIs, ContentNext
  <2> QED
    BY <2>1, <2>2
<1>4. CASE \A b \in Buf : blockno[b] = n => ~valid[b]
  <2>1. Content(n) = media[n] /\ Content(n)' = media'[n]
    BY <1>1, <1>2, <1>4, ContentIs, ContentNext
  <2> QED
    BY <1>4, <2>1
<1> QED
  BY <1>3, <1>4

\* A process goes on without a block, or with the one that it has.
LEMMA MoveStore ==
  ASSUME CacheInv, UNCHANGED <<machine, blockno, valid, data, media>>,
         \A p \in Proc : Has(p)' <=> Has(p),
         \A p \in Proc : Has(p) => buf'[p] = buf[p]
  PROVE  UNCHANGED BS!vars
<1>1. \A n \in Block : Content(n)' = Content(n)
  BY ContentKept
<1> QED
  BY <1>1, StoreFrame

\* bread() returns: p sees the content of a block that nobody else has.
LEMMA ReadStore ==
  ASSUME CacheInv, CacheInv', NEW p \in Proc, ~Has(p), pc'[p] = "has",
         \A q \in Proc : q # p => (Has(q)' <=> Has(q)),
         UNCHANGED <<machine, blockno, data, media, buf>>,
         buf[p] \in Buf, valid'[buf[p]], lock'[buf[p]] = p, data[buf[p]] = Content(blockno[buf[p]]),
         \A n \in Block : Content(n)' = Content(n)
  PROVE  \E n \in Block : BS!Bread(p, n)
<1>1. PICK b, n : b = buf[p] /\ n = blockno[b]
  OBVIOUS
<1>2. n \in Block /\ Has(p)'
  BY <1>1 DEF CacheInv, BufNamed, Has
<1>3. \A q \in Proc : Has(q) => blockno[buf[q]] # n
  <2> SUFFICES ASSUME NEW q \in Proc, Has(q), blockno[buf[q]] = n PROVE FALSE
    OBVIOUS
  <2>1. q # p /\ Has(q)'
    OBVIOUS
  <2>2. pc'[q] \notin Lockless
    BY <2>1 DEF Has, Lockless
  <2>3. lock'[buf[q]] = q /\ buf[q] \in Buf'
    BY <2>2 DEF CacheInv, LocksHeld
  <2>4. buf[q] # b /\ buf[q] \in Buf
    BY <1>1, <2>1, <2>3 DEF Buf, NBUF
  <2> QED
    BY <1>1, <1>2, <2>4, CacheConstants DEF CacheInv, OneBuffer
<1>4. PICK f, g, c : /\ f = [q \in Proc |-> IF Has(q) THEN blockno[buf[q]] ELSE NoBlock]
                     /\ g = [q \in Proc |-> IF Has(q) THEN data[buf[q]] ELSE NoValue]
                     /\ c = [m \in Block |-> Content(m)]
  OBVIOUS
<1>5. [m \in Block |-> Content(m)]' = c
  BY <1>4
<1>6. [q \in Proc |-> IF Has(q) THEN blockno[buf[q]] ELSE NoBlock]' = [f EXCEPT ![p] = n]
  BY <1>1, <1>2, <1>4
<1>7. [q \in Proc |-> IF Has(q) THEN data[buf[q]] ELSE NoValue]' = [g EXCEPT ![p] = c[n]]
  BY <1>1, <1>2, <1>4
<1>8. f[p] = NoBlock /\ \A q \in Proc : f[q] # n
  BY <1>2, <1>3, <1>4, CacheConstants
<1>9. BS!Bread(p, n)
  BY <1>4, <1>5, <1>6, <1>7, <1>8 DEF BS!Bread
<1> QED
  BY <1>2, <1>9

LEMMA LockedStore ==
  ASSUME CacheInv, CacheInv', DiskInv, NEW p \in Proc, Locked(p)
  PROVE  [\E n \in Block : BS!Bread(p, n)]_(BS!vars)
<1>1. /\ pc[p] = "acquiresleep" /\ DOMAIN pc = Proc /\ ~panic /\ ~Has(p)
      /\ pc' = [pc EXCEPT ![p] = IF valid[buf[p]] THEN "has" ELSE "read"]
      /\ lock' = [lock EXCEPT ![buf[p]] = p]
      /\ UNCHANGED <<machine, blockno, valid, data, media, buf>>
  BY DEF Locked, At, Goto, CacheInv, CacheType, Has, devvars, bounds
<1>2. pc'[p] = (IF valid[buf[p]] THEN "has" ELSE "read") /\ \A q \in Proc : q # p => pc'[q] = pc[q]
  BY <1>1
<1>3. \A q \in Proc : q # p => (Has(q)' <=> Has(q))
  BY <1>2 DEF Has
<1>4. CASE valid[buf[p]]
  <2>1. buf[p] \in Buf /\ lock'[buf[p]] = p
    BY <1>1 DEF CacheInv, CacheType, BufUsed
  <2>2. data[buf[p]] = Content(blockno[buf[p]])
    BY <1>4, <2>1, ContentIs DEF CacheInv, BufNamed
  <2>3. \A n \in Block : Content(n)' = Content(n)
    BY <1>1, ContentKept
  <2>4. pc'[p] = "has" /\ valid'[buf[p]]
    BY <1>1, <1>2, <1>4
  <2> QED
    BY <1>1, <1>3, <2>1, <2>2, <2>3, <2>4, ReadStore
<1>5. CASE ~valid[buf[p]]
  <2>1. ~Has(p)'
    BY <1>2, <1>5 DEF Has
  <2> QED
    BY <1>1, <1>3, <2>1, MoveStore
<1> QED
  BY <1>4, <1>5

\* bread() after virtio_disk_rw().
LEMMA RwDoneStore ==
  ASSUME CacheInv, CacheInv', DiskInv, NEW p \in Proc, RwDone(p)
  PROVE  [\E n \in Block : BS!Bread(p, n)]_(BS!vars)
<1>1. PICK b : b = buf[p]
  OBVIOUS
<1>2. PICK l, g : /\ l = (IF pc[p] = "read-done" THEN "has" ELSE "written")
                  /\ g = Awake(Awake(pc, "read-sleep", "readagain"), "write-sleep", "writeagain")
  OBVIOUS
<1>3. /\ pc[p] \in Dones /\ pc' = [g EXCEPT ![p] = l] /\ DOMAIN pc = Proc
      /\ valid' = [valid EXCEPT ![b] = @ \/ pc[p] = "read-done"]
      /\ UNCHANGED <<machine, blockno, lock, data, media, buf>>
  BY <1>1, <1>2 DEF RwDone, At, CacheInv, CacheType, Dones, devvars, bounds
<1>4. /\ DOMAIN g = Proc
      /\ \A q \in Proc : \/ g[q] = pc[q]
                         \/ pc[q] = "read-sleep" /\ g[q] = "readagain"
                         \/ pc[q] = "write-sleep" /\ g[q] = "writeagain"
  BY <1>2, <1>3 DEF Awake
<1>5. pc'[p] = l /\ \A q \in Proc : q # p => pc'[q] = g[q]
  BY <1>3, <1>4
<1>6. \A q \in Proc : q # p => (Has(q)' <=> Has(q))
  BY <1>4, <1>5 DEF Has
<1>7. /\ b \in Buf /\ lock[b] = p /\ blockno[b] \in Block /\ Same(b) /\ valid \in [Buf -> BOOLEAN]
      /\ \A c \in Buf : c # b => blockno[c] # blockno[b]
  BY <1>1, <1>3, PlacesLocked, HoldersDiffer DEF CacheInv, LocksHeld, DiskInv, DiskType, TransferDone, Done, Dones
<1>8. \A c \in Buf : c # b => valid'[c] = valid[c]
  BY <1>3, <1>7
<1>9. Buf' = Buf
  BY <1>3 DEF Buf, NBUF
<1>10. CASE pc[p] = "read-done"
  <2>1. ~valid[b] /\ valid'[b]
    BY <1>1, <1>3, <1>7, <1>10 DEF DiskInv, HolderValid, Reading
  <2>2. ~Has(p) /\ pc'[p] = "has"
    BY <1>2, <1>5, <1>10 DEF Has
  \* The block has the content of the disk before, and of the buffer now.
  <2>3. Content(blockno[b]) = data[b]
    <3>1. \A c \in Buf : blockno[c] = blockno[b] => ~valid[c]
      BY <1>7, <2>1
    <3> QED
      BY <1>7, <3>1, ContentIs DEF Same
  <2>4. ASSUME NEW n \in Block PROVE Content(n)' = Content(n)
    <3>1. CASE n = blockno[b]
      <4>1. Content(n)' = data'[b]
        BY <1>3, <1>7, <1>9, <2>1, <3>1, ContentNext DEF CacheInv
      <4> QED
        BY <1>3, <2>3, <3>1, <4>1
    <3>2. CASE n # blockno[b]
      <4>1. CASE \E c \in Buf : blockno[c] = n /\ valid[c]
        <5>1. PICK c \in Buf : blockno[c] = n /\ valid[c]
          BY <4>1
        <5>2. blockno'[c] = n /\ valid'[c]
          BY <1>3, <1>8, <3>2, <5>1
        <5>3. Content(n) = data[c] /\ Content(n)' = data'[c]
          BY <1>9, <5>1, <5>2, ContentIs, ContentNext DEF CacheInv
        <5> QED
          BY <1>3, <5>3
      <4>2. CASE \A c \in Buf : blockno[c] = n => ~valid[c]
        <5>1. \A c \in Buf : blockno'[c] = n => ~valid'[c]
          BY <1>3, <1>8, <3>2, <4>2
        <5>2. Content(n) = media[n] /\ Content(n)' = media'[n]
          BY <1>9, <4>2, <5>1, ContentIs, ContentNext DEF CacheInv
        <5> QED
          BY <1>3, <5>2
      <4> QED
        BY <4>1, <4>2
    <3> QED
      BY <3>1, <3>2
  <2> QED
    BY <1>1, <1>3, <1>6, <1>7, <2>1, <2>2, <2>3, <2>4, ReadStore
<1>11. CASE pc[p] = "write-done"
  <2>1. valid' = valid
    <3>1. valid'[b] = valid[b]
      BY <1>3, <1>7, <1>11
    <3> QED
      BY <1>3, <1>7, <1>8, <3>1
  <2>2. Has(p)' /\ Has(p)
    BY <1>2, <1>5, <1>11 DEF Has
  <2> QED
    BY <1>3, <1>6, <2>1, <2>2, MoveStore
<1> QED
  BY <1>3, <1>10, <1>11 DEF Dones

\* A process changes the block that it has.
LEMMA ChangeStore ==
  ASSUME CacheInv, CacheInv', DiskInv, NEW p \in Proc, NEW v \in Value, Bwrite(p, v) \/ Bpin(p, v)
  PROVE  BS!Change(p, v)
<1>1. PICK l : /\ l \in {"write", "brelse"} /\ pc[p] = "has" /\ pc' = [pc EXCEPT ![p] = l] /\ DOMAIN pc = Proc
               /\ data' = [data EXCEPT ![buf[p]] = v]
               /\ UNCHANGED <<machine, blockno, valid, media, buf>>
  BY DEF Bwrite, Bpin, At, Goto, Change, cachevars, devvars, CacheInv, CacheType
<1>2. PICK b, n : b = buf[p] /\ n = blockno[b]
  OBVIOUS
<1>3. /\ b \in Buf /\ n \in Block /\ valid[b] /\ Has(p) /\ data \in [Buf -> Contents \union {NoValue}]
      /\ \A q \in Proc : q # p /\ pc[q] \notin Lockless => buf[q] \in Buf /\ buf[q] # b
      /\ \A c \in Buf : c # b => blockno[c] # n
  BY <1>1, <1>2, HoldersDiffer DEF DiskInv, DiskType, HolderValid, Has, Lockless
<1>4. pc'[p] = l /\ \A q \in Proc : q # p => pc'[q] = pc[q]
  BY <1>1
<1>5. \A q \in Proc : Has(q)' <=> Has(q)
  BY <1>1, <1>4 DEF Has
<1>6. data'[b] = v /\ \A c \in Buf : c # b => data'[c] = data[c]
  BY <1>1, <1>2, <1>3
<1>7. Buf' = Buf
  BY <1>1 DEF Buf, NBUF
<1>8. Content(n)' = v
  BY <1>1, <1>2, <1>3, <1>6, <1>7, ContentNext DEF CacheInv
<1>9. ASSUME NEW m \in Block, m # n PROVE Content(m)' = Content(m)
  <2>1. CASE \E c \in Buf : blockno[c] = m /\ valid[c]
    <3>1. PICK c \in Buf : blockno[c] = m /\ valid[c]
      BY <2>1
    <3>2. blockno'[c] = m /\ valid'[c] /\ data'[c] = data[c]
      BY <1>1, <1>2, <1>6, <1>9, <3>1
    <3>3. Content(m) = data[c] /\ Content(m)' = data'[c]
      BY <1>7, <3>1, <3>2, ContentIs, ContentNext DEF CacheInv
    <3> QED
      BY <3>2, <3>3
  <2>2. CASE \A c \in Buf : blockno[c] = m => ~valid[c]
    <3>1. \A c \in Buf : blockno'[c] = m => ~valid'[c]
      BY <1>1, <2>2
    <3>2. Content(m) = media[m] /\ Content(m)' = media'[m]
      BY <1>7, <2>2, <3>1, ContentIs, ContentNext DEF CacheInv
    <3> QED
      BY <1>1, <3>2
  <2> QED
    BY <2>1, <2>2
<1>10. PICK f, g, c : /\ f = [q \in Proc |-> IF Has(q) THEN blockno[buf[q]] ELSE NoBlock]
                      /\ g = [q \in Proc |-> IF Has(q) THEN data[buf[q]] ELSE NoValue]
                      /\ c = [m \in Block |-> Content(m)]
  OBVIOUS
<1>11. [m \in Block |-> Content(m)]' = [c EXCEPT ![n] = v]
  BY <1>3, <1>8, <1>9, <1>10
<1>12. [q \in Proc |-> IF Has(q) THEN blockno[buf[q]] ELSE NoBlock]' = f
  BY <1>1, <1>5, <1>10
<1>13. [q \in Proc |-> IF Has(q) THEN data[buf[q]] ELSE NoValue]' = [g EXCEPT ![p] = v]
  <2>1. \A q \in Proc : q # p /\ Has(q) => data'[buf[q]] = data[buf[q]]
    BY <1>3, <1>6, PlacesLocked
  <2>2. data'[buf[p]] = v
    BY <1>2, <1>6
  <2> QED
    BY <1>1, <1>3, <1>5, <1>10, <2>1, <2>2
<1>14. f[p] = n /\ n # NoBlock
  BY <1>2, <1>3, <1>10, CacheConstants
<1> QED
  BY <1>10, <1>11, <1>12, <1>13, <1>14 DEF BS!Change

\* A process gives its block back.
LEMMA BrelseStore ==
  ASSUME CacheInv, DiskInv, NEW p \in Proc, Brelse(p)
  PROVE  BS!Brelse(p)
<1>1. /\ pc[p] \in {"has", "brelse"} /\ pc' = [pc EXCEPT ![p] = "unref"] /\ DOMAIN pc = Proc
      /\ UNCHANGED <<machine, blockno, valid, data, media, buf>>
  BY DEF Brelse, At, Goto, devvars, bounds, CacheInv, CacheType
<1>2. pc'[p] = "unref" /\ \A q \in Proc : q # p => pc'[q] = pc[q]
  BY <1>1
<1>3. Has(p) /\ ~Has(p)' /\ \A q \in Proc : q # p => (Has(q)' <=> Has(q))
  BY <1>1, <1>2 DEF Has
<1>4. \A n \in Block : Content(n)' = Content(n)
  BY <1>1, ContentKept
<1>5. PICK f, g, c : /\ f = [q \in Proc |-> IF Has(q) THEN blockno[buf[q]] ELSE NoBlock]
                     /\ g = [q \in Proc |-> IF Has(q) THEN data[buf[q]] ELSE NoValue]
                     /\ c = [m \in Block |-> Content(m)]
  OBVIOUS
<1>6. [m \in Block |-> Content(m)]' = c
  BY <1>4, <1>5
<1>7. [q \in Proc |-> IF Has(q) THEN blockno[buf[q]] ELSE NoBlock]' = [f EXCEPT ![p] = NoBlock]
  BY <1>1, <1>3, <1>5
<1>8. [q \in Proc |-> IF Has(q) THEN data[buf[q]] ELSE NoValue]' = [g EXCEPT ![p] = NoValue]
  BY <1>1, <1>3, <1>5
<1>9. f[p] # NoBlock
  BY <1>1, <1>3, <1>5, CacheConstants, HoldersDiffer DEF Lockless
<1> QED
  BY <1>5, <1>6, <1>7, <1>8, <1>9 DEF BS!Brelse

\* bread() until it has its buffer.
LEMMA BreadStore ==
  ASSUME CacheInv, CacheInv', DiskInv, NEW p \in Proc, NEW n \in Block, Bread(p, n)
  PROVE  UNCHANGED BS!vars
<1>1. /\ pc[p] = "idle" /\ pc' = [pc EXCEPT ![p] = "acquiresleep"] /\ DOMAIN pc = Proc /\ DOMAIN buf = Proc
      /\ UNCHANGED <<machine, data, media>>
  BY DEF Bread, At, Goto, devvars, CacheInv, CacheType
<1>2. PICK b \in IF Cached(n) # {} THEN Cached(n) ELSE {LeastRecent} :
       /\ \/ Cached(n) # {} /\ Hit(b)
          \/ Cached(n) = {} /\ b # 0 /\ Recycle(b, n)
          \/ b = 0 /\ BgetNone
       /\ buf' = [buf EXCEPT ![p] = b]
  BY DEF Bread
<1>3. pc'[p] = "acquiresleep" /\ \A q \in Proc : q # p => pc'[q] = pc[q] /\ buf'[q] = buf[q]
  BY <1>1, <1>2
<1>4. ~Has(p) /\ \A q \in Proc : Has(q)' <=> Has(q)
  BY <1>1, <1>3 DEF Has
<1>5. CASE UNCHANGED <<blockno, valid>>
  <2>1. \A q \in Proc : Has(q) => buf'[q] = buf[q]
    BY <1>3, <1>4
  <2> QED
    BY <1>1, <1>4, <1>5, <2>1, MoveStore
\* A buffer that nobody uses has the content of its block on the disk.
<1>6. CASE Cached(n) = {} /\ b # 0 /\ Recycle(b, n)
  <2>1. b = LeastRecent /\ CacheType
    BY <1>2, <1>6 DEF CacheInv
  <2>2. b \in Buf /\ refcnt[b] = 0
    BY <1>6, <2>1, LeastRecentIs
  <2>3. /\ blockno' = [blockno EXCEPT ![b] = n] /\ valid' = [valid EXCEPT ![b] = FALSE]
        /\ DOMAIN blockno = Buf /\ DOMAIN valid = Buf
    BY <1>6, <2>1 DEF Recycle, CacheType, DiskInv, DiskType
  <2>4. (\A q \in Proc : buf[q] # b) /\ blockno[b] \notin pinned
    BY <2>2, NobodyUses
  <2>5. valid[b] => Same(b) /\ blockno[b] \in Block
    BY <2>2, <2>4 DEF DiskInv, CleanSame, Contained
  <2>6. /\ valid'[b] = FALSE /\ blockno'[b] = n
        /\ \A c \in Buf : c # b => valid'[c] = valid[c] /\ blockno'[c] = blockno[c]
    BY <2>2, <2>3
  <2>7. Buf' = Buf
    BY <1>1 DEF Buf, NBUF
  <2>8. \A c \in Buf : blockno[c] # n
    BY <1>6 DEF Cached
  <2>9. ASSUME NEW m \in Block PROVE Content(m)' = Content(m)
    <3>1. CASE \E c \in Buf : c # b /\ blockno[c] = m /\ valid[c]
      <4>1. PICK c \in Buf : c # b /\ blockno[c] = m /\ valid[c]
        BY <3>1
      <4>2. Content(m) = data[c] /\ Content(m)' = data'[c]
        BY <2>6, <2>7, <4>1, ContentIs, ContentNext DEF CacheInv
      <4> QED
        BY <1>1, <4>2
    <3>2. CASE \A c \in Buf : c # b /\ blockno[c] = m => ~valid[c]
      <4>1. Content(m)' = media'[m]
        <5>1. \A c \in Buf : blockno'[c] = m => ~valid'[c]
          BY <2>6, <3>2
        <5> QED
          BY <2>7, <5>1, ContentNext DEF CacheInv
      <4>2. Content(m) = media[m]
        <5>1. CASE blockno[b] = m /\ valid[b]
          BY <2>2, <2>5, <5>1, ContentIs DEF Same
        <5>2. CASE ~(blockno[b] = m /\ valid[b])
          BY <3>2, <5>2, ContentIs
        <5> QED
          BY <5>1, <5>2
      <4> QED
        BY <1>1, <4>1, <4>2
    <3> QED
      BY <3>1, <3>2
  <2>10. \A q \in Proc : Has(q) => blockno'[buf'[q]] = blockno[buf[q]] /\ data'[buf'[q]] = data[buf[q]]
    <3>1. ASSUME NEW q \in Proc, Has(q) PROVE q # p /\ buf[q] \in Buf /\ buf[q] # b
      BY <1>4, <2>4, <3>1, PlacesLocked DEF CacheInv, LocksHeld
    <3> QED
      BY <1>1, <1>3, <2>6, <3>1
  <2> QED
    BY <1>4, <2>9, <2>10, StoreFrame
<1> QED
  BY <1>2, <1>5, <1>6 DEF Hit, BgetNone

\* The device carries out a request.
LEMMA DevDoStore ==
  ASSUME CacheInv, DiskInv, NEW h \in taken \union New, DevDo(h)
  PROVE  UNCHANGED BS!vars
<1>1. PICK p \in Proc, b \in Buf, n \in Block :
        /\ pc[p] \in Waits /\ b = buf[p] /\ n = blockno[b]
        /\ \/ pc[p] = "write-wait" /\ media' = [media EXCEPT ![n] = data[b]] /\ data' = data
           \/ pc[p] = "read-wait" /\ data' = [data EXCEPT ![b] = media[n]] /\ media' = media
        /\ UNCHANGED <<machine, blockno, valid, pc, buf>>
  BY DevDoIs
<1>2. data \in [Buf -> Contents \union {NoValue}] /\ media \in [Block -> Contents]
  BY DEF DiskInv, DiskType
<1>3. /\ pc[p] = "write-wait" => valid[b]
      /\ pc[p] = "read-wait" => ~valid[b]
  BY <1>1 DEF DiskInv, HolderValid, Has, Reading
<1>4. \A c \in Buf : valid[c] => data'[c] = data[c]
  BY <1>1, <1>2, <1>3
<1>5. \A m \in Block : media'[m] = media[m] \/ \E c \in Buf : blockno[c] = m /\ valid[c]
  BY <1>1, <1>2, <1>3
<1>6. \A m \in Block : Content(m)' = Content(m)
  BY <1>1, <1>4, <1>5, ContentKept
<1>7. \A q \in Proc : (Has(q)' <=> Has(q)) /\ (Has(q) => valid[buf[q]] /\ buf[q] \in Buf)
  BY <1>1, PlacesLocked DEF Has, DiskInv, HolderValid, CacheInv, LocksHeld
<1> QED
  BY <1>1, <1>4, <1>6, <1>7, StoreFrame

\* The other steps are not seen.
LEMMA RestStore ==
  ASSUME CacheInv, DiskInv, NEW p \in Proc,
         RwNoDesc(p) \/ RwStart(p) \/ Install(p) \/ Bunpin(p) \/ BrelseRef(p)
  PROVE  UNCHANGED BS!vars
<1>1. DOMAIN pc = Proc /\ DOMAIN buf = Proc
  BY DEF CacheInv, CacheType
<1>2. UNCHANGED <<machine, blockno, valid, data, media>>
  BY DEF RwNoDesc, RwStart, Install, Bunpin, BrelseRef, bounds, devvars, cachevars
<1>3. CASE RwNoDesc(p)
  <2>1. PICK f, l : /\ f = (IF Lowest(3) = <<>> THEN pc
                            ELSE Awake(Awake(pc, "read-sleep", "readagain"), "write-sleep", "writeagain"))
                    /\ l = IF Wants(p) = "read" THEN "read-sleep" ELSE "write-sleep"
    OBVIOUS
  <2>2. pc' = [f EXCEPT ![p] = l] /\ pc[p] \in Wanting /\ buf' = buf
    BY <1>3, <2>1 DEF RwNoDesc
  <2>3. /\ DOMAIN f = Proc
        /\ \A q \in Proc : \/ f[q] = pc[q]
                           \/ pc[q] = "read-sleep" /\ f[q] = "readagain"
                           \/ pc[q] = "write-sleep" /\ f[q] = "writeagain"
    BY <1>1, <2>1 DEF Awake
  <2>4. \/ pc[p] \in {"read", "readagain"} /\ l = "read-sleep"
        \/ pc[p] \in {"write", "writeagain"} /\ l = "write-sleep"
    BY <2>1, <2>2 DEF Wanting, Wants
  <2>5. pc'[p] = l /\ \A q \in Proc : q # p => pc'[q] = f[q]
    BY <2>2, <2>3
  <2>6. \A q \in Proc : Has(q)' <=> Has(q)
    BY <2>3, <2>4, <2>5 DEF Has
  <2> QED
    BY <1>2, <2>2, <2>6, MoveStore
<1>4. CASE RwStart(p)
  <2>1. PICK l : l = IF Wants(p) = "read" THEN "read-wait" ELSE "write-wait"
    OBVIOUS
  <2>2. pc' = [pc EXCEPT ![p] = l] /\ pc[p] \in Wanting /\ buf' = buf
    BY <1>4, <2>1 DEF RwStart, Goto
  <2>3. \/ pc[p] \in {"read", "readagain"} /\ l = "read-wait"
        \/ pc[p] \in {"write", "writeagain"} /\ l = "write-wait"
    BY <2>1, <2>2 DEF Wanting, Wants
  <2>4. pc'[p] = l /\ \A q \in Proc : q # p => pc'[q] = pc[q]
    BY <1>1, <2>2
  <2>5. \A q \in Proc : Has(q)' <=> Has(q)
    BY <2>3, <2>4 DEF Has
  <2> QED
    BY <1>2, <2>2, <2>5, MoveStore
<1>5. CASE Install(p) \/ Bunpin(p)
  <2>1. /\ buf' = buf
        /\ \/ pc[p] = "has" /\ pc' = [pc EXCEPT ![p] = "write"]
           \/ pc[p] = "written" /\ pc' = [pc EXCEPT ![p] = "brelse"]
    BY <1>5 DEF Install, Bunpin, At, Goto
  <2>2. \A q \in Proc : Has(q)' <=> Has(q)
    BY <1>1, <2>1 DEF Has
  <2> QED
    BY <1>2, <2>1, <2>2, MoveStore
<1>6. CASE BrelseRef(p)
  <2>1. pc[p] = "unref" /\ pc' = [pc EXCEPT ![p] = "idle"] /\ buf' = [buf EXCEPT ![p] = 0]
    BY <1>6 DEF BrelseRef, At, Goto
  <2>2. \A q \in Proc : (Has(q)' <=> Has(q)) /\ (Has(q) => buf'[q] = buf[q])
    BY <1>1, <2>1 DEF Has
  <2> QED
    BY <1>2, <2>2, MoveStore
<1> QED
  BY <1>3, <1>4, <1>5, <1>6

LEMMA HandlerStore == ASSUME CacheInv, DiskInv, Handler PROVE UNCHANGED BS!vars
<1>1. UNCHANGED <<machine, blockno, valid, data, media, buf>>
  BY DEF Handler, Intr, IntrUsed, IntrEnd, bounds, devvars, cachevars
<1>2. \A q \in Proc : \/ pc'[q] = pc[q]
                      \/ pc[q] = "read-wait" /\ pc'[q] = "read-done"
                      \/ pc[q] = "write-wait" /\ pc'[q] = "write-done"
  BY DEF Handler, Intr, IntrUsed, IntrEnd
<1>3. \A q \in Proc : Has(q)' <=> Has(q)
  BY <1>2 DEF Has
<1> QED
  BY <1>1, <1>3, MoveStore

\* Every step of the buffer cache is one of BlockStore, or is not seen.
LEMMA StoreStep == ASSUME CacheInv, CacheInv', DiskInv, [Next]_vars PROVE [BS!Next]_(BS!vars)
<1>1. ASSUME NEW p \in Proc, Step(p) PROVE [BS!Next]_(BS!vars)
  <2>1. CASE Locked(p) \/ RwDone(p)
    <3>1. [\E n \in Block : BS!Bread(p, n)]_(BS!vars)
      BY <2>1, LockedStore, RwDoneStore
    <3> QED
      BY <3>1 DEF BS!Next
  <2>2. CASE Brelse(p)
    BY <2>2, BrelseStore DEF BS!Next
  <2>3. CASE RwNoDesc(p) \/ RwStart(p) \/ Bunpin(p) \/ BrelseRef(p)
    BY <2>3, RestStore
  <2> QED
    BY <1>1, <2>1, <2>2, <2>3 DEF Step
<1>2. ASSUME NEW p \in Proc, Calls(p) PROVE [BS!Next]_(BS!vars)
  <2>1. CASE \E n \in Block : Bread(p, n)
    BY <2>1, BreadStore
  <2>2. CASE \E v \in Value : Bwrite(p, v) \/ Bpin(p, v)
    BY <2>2, ChangeStore DEF BS!Next
  <2>3. CASE Install(p)
    BY <2>3, RestStore
  <2> QED
    BY <1>2, <2>1, <2>2, <2>3 DEF Calls
<1>3. CASE Handler
  BY <1>3, HandlerStore
<1>4. CASE Device
  BY <1>4, DevDoStore DEF Device
<1>5. CASE UNCHANGED vars
  <2>1. UNCHANGED <<machine, blockno, valid, data, media, buf, pc>>
    BY <1>5 DEF vars, cachevars, devvars, bounds
  <2>2. \A q \in Proc : Has(q)' <=> Has(q)
    BY <2>1 DEF Has
  <2> QED
    BY <2>1, <2>2, MoveStore
<1> QED
  BY <1>1, <1>2, <1>3, <1>4, <1>5 DEF Next

LEMMA StoreInit == ASSUME Init PROVE BS!Init
<1>1. \A n \in Block : Content(n) = Blank
  <2> TAKE n \in Block
  <2>1. {b \in Cached(n) : valid[b]} = {}
    BY DEF Init, Cached
  <2> QED
    BY <2>1 DEF Init, Content
<1>2. \A p \in Proc : ~Has(p)
  BY DEF Init, Has
<1> QED
  BY <1>1, <1>2 DEF BS!Init

\* bread(), bwrite(), log_write(), brelse(): whatever is recycled, pinned, read
\* or written at the same time, for any number of processes, buffers and blocks,
\* a block has one content, at most one process has it, and bread() returns the
\* content that the last process has left in it.
THEOREM CacheImplementsBlockStore == Spec => ImplementsBlockStore
<1>1. Init => BS!Init
  BY StoreInit
<1>2. CacheInv /\ CacheInv' /\ DiskInv /\ [Next]_vars => [BS!Next]_(BS!vars)
  BY StoreStep
<1>3. Spec => BS!Spec
  BY CacheInvariance, DiskInvariance, <1>1, <1>2, PTL DEF Spec, BS!Spec
<1> QED
  BY <1>3 DEF ImplementsBlockStore

----------------------------------------------------------------------------
(***************************************************************************)
(* The input of the console: indices that wrap, and pieces of the ring     *)
(***************************************************************************)
Index == 0 .. UINT32 - 1
KeyOrNone == C!Key \union {None}
Rings == [0 .. INPUT_BUF_SIZE - 1 -> KeyOrNone]

\* r++, how far i is behind j, the place of an index, and n keys from i on.
Inc(i) == C!Uint(i + 1)
Ahead(j, i) == C!Uint(j - i)
Place(i) == i % INPUT_BUF_SIZE
Piece(d, i, n) == [k \in 1 .. n |-> d[Place(i + k - 1)]]

\* What is assumed of the constants.
LEMMA Sizes ==
  /\ INPUT_BUF_SIZE \in Nat \ {0} /\ UINT32 \in Nat /\ UINT32 > INPUT_BUF_SIZE
  /\ UINT32 % INPUT_BUF_SIZE = 0 /\ Start \subseteq Index /\ Counts \subseteq Nat \ {0}
  /\ "intr" \notin Reader
  BY ConsoleAssumption DEF C!ConsoleAssumption, Index

\* An index counts up and begins again at 0.
LEMMA IncIs ==
  ASSUME NEW i \in Index
  PROVE  Inc(i) \in Index /\ Inc(i) = IF i = UINT32 - 1 THEN 0 ELSE i + 1
<1>1. i + 1 \in 1 .. UINT32 /\ UINT32 \in Nat \ {0}
  BY Sizes DEF Index
<1>2. CASE i + 1 < UINT32
  <2>1. (i + 1) % UINT32 = i + 1
    BY <1>1, <1>2
  <2> QED
    BY <1>1, <1>2, <2>1 DEF Inc, C!Uint, Index
<1>3. CASE i + 1 = UINT32
  <2>1. UINT32 % UINT32 = 0
    BY <1>1
  <2> QED
    BY <1>1, <1>3, <2>1 DEF Inc, C!Uint, Index
<1> QED
  BY <1>1, <1>2, <1>3

\* A difference of indices, of unsigned arithmetic.
LEMMA UintIs ==
  ASSUME NEW n \in Int, -UINT32 < n, n < UINT32
  PROVE  C!Uint(n) \in Index /\ C!Uint(n) = IF n >= 0 THEN n ELSE n + UINT32
<1>1. CASE n >= 0
  BY <1>1, Sizes DEF C!Uint, Index
<1>2. CASE n < 0
  BY <1>2, Sizes DEF C!Uint, Index
<1> QED
  BY <1>1, <1>2, Sizes

\* How far an index is behind another one.
LEMMA AheadIs ==
  ASSUME NEW i \in Index, NEW j \in Index
  PROVE  Ahead(j, i) \in Index /\ Ahead(j, i) = IF j >= i THEN j - i ELSE j - i + UINT32
  BY UintIs, Sizes DEF Ahead, Index

\* The place of a key does not change when its index wraps, as INPUT_BUF_SIZE
\* divides 2^32.
LEMMA PlaceWraps ==
  ASSUME NEW i \in Nat
  PROVE  Place(i) \in 0 .. INPUT_BUF_SIZE - 1 /\ Place(i + UINT32) = Place(i)
<1> DEFINE a == i % INPUT_BUF_SIZE
           q == i \div INPUT_BUF_SIZE
           c == UINT32 \div INPUT_BUF_SIZE
<1>1. a \in 0 .. INPUT_BUF_SIZE - 1 /\ q \in Int /\ i = INPUT_BUF_SIZE * q + a
  BY Sizes
<1>2. c \in Int /\ UINT32 = INPUT_BUF_SIZE * c
  BY Sizes
<1> HIDE DEF a, q, c
<1>3. (q + c) \in Int /\ i + UINT32 = INPUT_BUF_SIZE * (q + c) + a
  BY <1>1, <1>2, Sizes
<1> DEFINE f == q + c
<1>4. f \in Int /\ i + UINT32 = INPUT_BUF_SIZE * f + a
  BY <1>3
<1> HIDE DEF f
<1>5. (INPUT_BUF_SIZE * f + a) % INPUT_BUF_SIZE = a
  BY <1>1, <1>4, Sizes
<1> QED
  BY <1>1, <1>4, <1>5 DEF Place, a

\* Two keys less than a ring apart have different places.
LEMMA PlacesDistinct ==
  ASSUME NEW a \in Nat, NEW b \in Nat, a < b, b < a + INPUT_BUF_SIZE
  PROVE  Place(a) # Place(b)
  BY Sizes, SlotsDistinct DEF Place, SlotIn

\* A piece is a sequence.
LEMMA PieceSeq ==
  ASSUME NEW d \in Rings, NEW i \in Nat, NEW n \in Nat
  PROVE  /\ Piece(d, i, n) \in Seq(KeyOrNone) /\ Len(Piece(d, i, n)) = n
         /\ \A k \in 1 .. n : Piece(d, i, n)[k] = d[Place(i + k - 1)]
<1>1. ASSUME NEW k \in 1 .. n PROVE d[Place(i + k - 1)] \in KeyOrNone
  <2>1. i + k - 1 \in Nat
    OBVIOUS
  <2>2. Place(i + k - 1) \in 0 .. INPUT_BUF_SIZE - 1
    BY <2>1, PlaceWraps
  <2> QED
    BY <2>2 DEF Rings
<1>2. Piece(d, i, n) \in [1 .. n -> KeyOrNone]
  BY <1>1 DEF Piece
<1>3. Piece(d, i, n) \in Seq(KeyOrNone)
  BY <1>2, IsASeq
<1>4. Len(Piece(d, i, n)) = n
  BY <1>2, <1>3, LenProperties
<1> QED
  BY <1>3, <1>4 DEF Piece

\* Nothing is an empty piece.
LEMMA PieceNone == ASSUME NEW d \in Rings, NEW i \in Nat PROVE Piece(d, i, 0) = <<>>
  BY PieceSeq, EmptySeq

\* consoleread() takes the first key of a piece away.
LEMMA PieceGet ==
  ASSUME NEW d \in Rings, NEW i \in Index, NEW n \in Nat \ {0}
  PROVE  /\ Piece(d, i, n) # <<>> /\ Head(Piece(d, i, n)) = d[Place(i)]
         /\ Piece(d, Inc(i), n - 1) = Tail(Piece(d, i, n))
<1>0. i \in Nat /\ n \in Nat /\ n - 1 \in Nat /\ Inc(i) \in Nat
  BY IncIs, Sizes DEF Index
<1> DEFINE old == Piece(d, i, n)
           new == Piece(d, Inc(i), n - 1)
<1>1. /\ old \in Seq(KeyOrNone) /\ Len(old) = n
      /\ \A k \in 1 .. n : old[k] = d[Place(i + k - 1)]
  BY <1>0, PieceSeq
<1>2. /\ new \in Seq(KeyOrNone) /\ Len(new) = n - 1
      /\ \A k \in 1 .. n - 1 : new[k] = d[Place(Inc(i) + k - 1)]
  BY <1>0, PieceSeq
<1> HIDE DEF old, new
<1>3. old # <<>>
  BY <1>0, <1>1, EmptySeq
<1>4. /\ Head(old) = old[1] /\ Tail(old) \in Seq(KeyOrNone) /\ Len(Tail(old)) = n - 1
      /\ \A k \in 1 .. n - 1 : Tail(old)[k] = old[k + 1]
  BY <1>1, <1>3, HeadTailProperties
<1>5. old[1] = d[Place(i)]
  <2>1. 1 \in 1 .. n /\ i + 1 - 1 = i
    BY <1>0
  <2> QED
    BY <1>1, <2>1
<1>6. ASSUME NEW k \in 1 .. n - 1 PROVE new[k] = Tail(old)[k]
  <2>1. Place(Inc(i) + k - 1) = Place(i + (k + 1) - 1)
    <3>1. CASE i = UINT32 - 1
      <4>1. Inc(i) + k - 1 \in Nat /\ i + (k + 1) - 1 = (Inc(i) + k - 1) + UINT32
        BY <1>0, <3>1, IncIs, Sizes
      <4> QED
        BY <4>1, PlaceWraps
    <3>2. CASE i # UINT32 - 1
      <4>1. Inc(i) + k - 1 = i + (k + 1) - 1
        BY <1>0, <3>2, IncIs, Sizes
      <4> QED
        BY <4>1
    <3> QED
      BY <3>1, <3>2
  <2>2. k + 1 \in 1 .. n
    BY <1>0
  <2> QED
    BY <1>1, <1>2, <1>4, <2>1, <2>2
<1>7. new = Tail(old)
  BY <1>2, <1>4, <1>6, SeqEqual
<1> QED
  BY <1>3, <1>4, <1>5, <1>7 DEF old, new

\* consoleintr() takes the last key of a piece back.
LEMMA PieceBack ==
  ASSUME NEW d \in Rings, NEW i \in Nat, NEW n \in Nat \ {0}
  PROVE  Piece(d, i, n) # <<>> /\ Piece(d, i, n - 1) = SubSeq(Piece(d, i, n), 1, n - 1)
<1>0. n \in Nat /\ n - 1 \in Nat
  OBVIOUS
<1> DEFINE old == Piece(d, i, n)
           new == Piece(d, i, n - 1)
<1>1. /\ old \in Seq(KeyOrNone) /\ Len(old) = n
      /\ \A k \in 1 .. n : old[k] = d[Place(i + k - 1)]
  BY <1>0, PieceSeq
<1>2. /\ new \in Seq(KeyOrNone) /\ Len(new) = n - 1
      /\ \A k \in 1 .. n - 1 : new[k] = d[Place(i + k - 1)]
  BY <1>0, PieceSeq
<1> HIDE DEF old, new
<1>3. old # <<>>
  BY <1>0, <1>1, EmptySeq
<1>4. /\ SubSeq(old, 1, n - 1) \in Seq(KeyOrNone) /\ Len(SubSeq(old, 1, n - 1)) = n - 1
      /\ \A k \in 1 .. n - 1 : SubSeq(old, 1, n - 1)[k] = old[k]
  BY <1>0, <1>1
<1>5. ASSUME NEW k \in 1 .. n - 1 PROVE new[k] = SubSeq(old, 1, n - 1)[k]
  <2>1. k \in 1 .. n
    BY <1>0
  <2>2. new[k] = old[k]
    BY <1>1, <1>2, <2>1
  <2> QED
    BY <1>4, <2>2
<1>6. new = SubSeq(old, 1, n - 1)
  BY <1>2, <1>4, <1>5, SeqEqual
<1> QED
  BY <1>3, <1>6 DEF old, new

\* The place of j, counted from i.
LEMMA PlaceAhead ==
  ASSUME NEW i \in Index, NEW j \in Index, NEW k \in Nat
  PROVE  Place(j + k) = Place(i + Ahead(j, i) + k)
<1>1. PICK a \in Nat : a = Ahead(j, i) /\ (i + a = j \/ i + a = j + UINT32)
  <2>1. PICK a : a = Ahead(j, i)
    OBVIOUS
  <2>2. a \in Index /\ a = IF j >= i THEN j - i ELSE j - i + UINT32
    BY <2>1, AheadIs
  <2>3. a \in Nat /\ (i + a = j \/ i + a = j + UINT32)
    BY <2>2, Sizes DEF Index
  <2> QED
    BY <2>1, <2>3
<1>2. j + k \in Nat /\ (i + a + k = j + k \/ i + a + k = (j + k) + UINT32)
  BY <1>1, Sizes DEF Index
<1>3. Place(j + k) = Place(i + a + k)
  BY <1>2, PlaceWraps
<1> QED
  BY <1>1, <1>3

\* A step of an index, across its wrap.
LEMMA AheadStep ==
  ASSUME NEW i \in Index, NEW j \in Index
  PROVE  /\ Ahead(j, i) < INPUT_BUF_SIZE => Ahead(Inc(j), i) = Ahead(j, i) + 1
         /\ Ahead(j, i) > 0 => Ahead(j, Inc(i)) = Ahead(j, i) - 1
         /\ Ahead(j, i) = 0 <=> i = j
<1>1. Inc(i) \in Index /\ Inc(j) \in Index
  BY IncIs
<1>2. /\ Ahead(j, i) = IF j >= i THEN j - i ELSE j - i + UINT32
      /\ Ahead(Inc(j), i) = IF Inc(j) >= i THEN Inc(j) - i ELSE Inc(j) - i + UINT32
      /\ Ahead(j, Inc(i)) = IF j >= Inc(i) THEN j - Inc(i) ELSE j - Inc(i) + UINT32
  BY <1>1, AheadIs
<1> QED
  BY <1>1, <1>2, IncIs, Sizes DEF Index

\* A piece up to j and one from j on are one piece.
LEMMA PieceJoin ==
  ASSUME NEW d \in Rings, NEW i \in Index, NEW j \in Index, NEW m \in Nat
  PROVE  Piece(d, i, Ahead(j, i) + m) = Piece(d, i, Ahead(j, i)) \o Piece(d, j, m)
<1> DEFINE n == Ahead(j, i)
           first == Piece(d, i, n)
           rest == Piece(d, j, m)
           all == Piece(d, i, n + m)
<1>0. n \in Nat /\ n + m \in Nat /\ i \in Nat /\ j \in Nat
  BY AheadIs, Sizes DEF Index
<1>1. /\ first \in Seq(KeyOrNone) /\ Len(first) = n
      /\ \A k \in 1 .. n : first[k] = d[Place(i + k - 1)]
  BY <1>0, PieceSeq
<1>2. /\ rest \in Seq(KeyOrNone) /\ Len(rest) = m
      /\ \A k \in 1 .. m : rest[k] = d[Place(j + k - 1)]
  BY <1>0, PieceSeq
<1>3. /\ all \in Seq(KeyOrNone) /\ Len(all) = n + m
      /\ \A k \in 1 .. n + m : all[k] = d[Place(i + k - 1)]
  BY <1>0, PieceSeq
<1>4. \A k \in Nat : Place(j + k) = Place(i + n + k)
  BY PlaceAhead
<1> HIDE DEF n, first, rest, all
<1>5. /\ first \o rest \in Seq(KeyOrNone) /\ Len(first \o rest) = n + m
      /\ \A k \in 1 .. n + m : (first \o rest)[k] = IF k <= n THEN first[k] ELSE rest[k - n]
  BY <1>1, <1>2, ConcatProperties
<1>6. ASSUME NEW k \in 1 .. n + m PROVE all[k] = (first \o rest)[k]
  <2>1. CASE k <= n
    <3>1. k \in 1 .. n
      BY <1>0, <2>1
    <3> QED
      BY <1>1, <1>3, <1>5, <2>1, <3>1
  <2>2. CASE k > n
    <3>1. k - n \in 1 .. m /\ k - n - 1 \in Nat
      BY <1>0, <2>2
    <3>2. j + (k - n) - 1 = j + (k - n - 1) /\ i + n + (k - n - 1) = i + k - 1
      BY <1>0, <3>1
    <3>3. Place(j + (k - n) - 1) = Place(i + k - 1)
      BY <1>4, <3>1, <3>2
    <3>4. rest[k - n] = d[Place(j + (k - n) - 1)]
      BY <1>2, <3>1
    <3>5. (first \o rest)[k] = rest[k - n]
      BY <1>0, <1>5, <2>2
    <3> QED
      BY <1>3, <3>3, <3>4, <3>5
  <2>3. k <= n \/ k > n
    BY <1>0
  <2> QED
    BY <2>1, <2>2, <2>3
<1>7. all = first \o rest
  BY <1>3, <1>5, <1>6, SeqEqual
<1> QED
  BY <1>7 DEF n, first, rest, all

\* A key stored m places behind i leaves a shorter piece from i on alone.
LEMMA PieceKeep ==
  ASSUME NEW d \in Rings, NEW i \in Nat, NEW m \in Nat, m < INPUT_BUF_SIZE, NEW n \in 0 .. m,
         NEW f \in Rings, \A x \in 0 .. INPUT_BUF_SIZE - 1 : x # Place(i + m) => f[x] = d[x]
  PROVE  Piece(f, i, n) = Piece(d, i, n)
<1>0. n \in Nat /\ i + m \in Nat
  OBVIOUS
<1>1. /\ Piece(d, i, n) \in Seq(KeyOrNone) /\ Len(Piece(d, i, n)) = n
      /\ \A k \in 1 .. n : Piece(d, i, n)[k] = d[Place(i + k - 1)]
  BY <1>0, PieceSeq
<1>2. /\ Piece(f, i, n) \in Seq(KeyOrNone) /\ Len(Piece(f, i, n)) = n
      /\ \A k \in 1 .. n : Piece(f, i, n)[k] = f[Place(i + k - 1)]
  BY <1>0, PieceSeq
<1>3. ASSUME NEW k \in 1 .. n PROVE f[Place(i + k - 1)] = d[Place(i + k - 1)]
  <2>1. i + k - 1 \in Nat /\ i + k - 1 < i + m /\ i + m < (i + k - 1) + INPUT_BUF_SIZE
    BY <1>0, Sizes
  <2>2. Place(i + k - 1) # Place(i + m)
    BY <1>0, <2>1, PlacesDistinct
  <2>3. Place(i + k - 1) \in 0 .. INPUT_BUF_SIZE - 1
    BY <2>1, PlaceWraps
  <2> QED
    BY <2>2, <2>3 DEF Rings
<1>4. \A k \in 1 .. n : Piece(f, i, n)[k] = Piece(d, i, n)[k]
  BY <1>1, <1>2, <1>3
<1> QED
  BY <1>0, <1>1, <1>2, <1>4, SeqEqual

\* A key stored right behind a piece is appended to it.
LEMMA PieceAdd ==
  ASSUME NEW d \in Rings, NEW i \in Nat, NEW n \in Nat, n < INPUT_BUF_SIZE,
         NEW f \in Rings, \A x \in 0 .. INPUT_BUF_SIZE - 1 : x # Place(i + n) => f[x] = d[x],
         NEW c \in KeyOrNone, f[Place(i + n)] = c
  PROVE  Piece(f, i, n + 1) = Append(Piece(d, i, n), c)
<1> DEFINE old == Piece(d, i, n)
           new == Piece(f, i, n + 1)
           same == Piece(f, i, n)
<1>0. same = old /\ n + 1 \in Nat
  <2>1. n \in 0 .. n /\ n + 1 \in Nat
    OBVIOUS
  <2>2. Piece(f, i, n) = Piece(d, i, n)
    BY <2>1, PieceKeep
  <2> QED
    BY <2>1, <2>2
<1>1. /\ old \in Seq(KeyOrNone) /\ Len(old) = n
      /\ \A k \in 1 .. n : same[k] = f[Place(i + k - 1)]
  BY <1>0, PieceSeq
<1>2. /\ new \in Seq(KeyOrNone) /\ Len(new) = n + 1
      /\ \A k \in 1 .. n + 1 : new[k] = f[Place(i + k - 1)]
  BY <1>0, PieceSeq
<1>3. f[Place(i + n)] = c
  OBVIOUS
<1> HIDE DEF old, new, same
<1>4. /\ Append(old, c) \in Seq(KeyOrNone) /\ Len(Append(old, c)) = n + 1
      /\ \A k \in 1 .. n : Append(old, c)[k] = old[k]
      /\ Append(old, c)[n + 1] = c
  BY <1>1, AppendProperties
<1>5. ASSUME NEW k \in 1 .. n + 1 PROVE new[k] = Append(old, c)[k]
  <2>1. CASE k \in 1 .. n
    BY <1>0, <1>1, <1>2, <1>4, <2>1
  <2>2. CASE k = n + 1
    <3>1. i + k - 1 = i + n
      BY <2>2
    <3>2. new[k] = f[Place(i + k - 1)]
      BY <1>2
    <3> QED
      BY <1>3, <1>4, <2>2, <3>1, <3>2
  <2>3. k \in 1 .. n \/ k = n + 1
    OBVIOUS
  <2> QED
    BY <2>1, <2>2, <2>3
<1>6. new = Append(old, c)
  BY <1>2, <1>4, <1>5, SeqEqual
<1> QED
  BY <1>6 DEF old, new

----------------------------------------------------------------------------
(***************************************************************************)
(* The console implements Tty                                              *)
(***************************************************************************)
Lines == Piece(cbuf, r, Ahead(w, r))
Edit == Piece(cbuf, w, Ahead(e, w))
ReadPlaces == {"consoleread", "read", "read-empty", "read-sleep"}

TtyType ==
  /\ r \in Index /\ w \in Index /\ e \in Index /\ cbuf \in Rings
  /\ rx \in Seq(C!Key) /\ want \in [Reader -> Nat] /\ DOMAIN got = Reader
RingFits == Ahead(w, r) + Ahead(e, w) = Ahead(e, r) /\ Ahead(e, r) <= INPUT_BUF_SIZE
KeyTaken == cpc["intr"] = "consoleintr" => key \in C!Key
InCalls == \A p \in Reader : cpc[p] \in ReadPlaces <=> want[p] > 0

TtyInv == TtyType /\ RingFits /\ KeyTaken /\ InCalls

\* The mapping of Xv6Console, in terms of Piece.
LEMMA HeldIs ==
  /\ C!Held(r, C!Uint(w - r)) = Lines /\ C!Held(w, C!Uint(e - w)) = Edit
  /\ C!Held(r, C!Uint(w - r))' = Lines' /\ C!Held(w, C!Uint(e - w))' = Edit'
  BY DEF C!Held, C!Slot, Lines, Edit, Piece, Place, Ahead

\* How many keys there are.
LEMMA LinesAre ==
  ASSUME TtyType
  PROVE  /\ Lines \in Seq(KeyOrNone) /\ Len(Lines) = Ahead(w, r) /\ Ahead(w, r) \in Nat
         /\ Edit \in Seq(KeyOrNone) /\ Len(Edit) = Ahead(e, w) /\ Ahead(e, w) \in Nat
         /\ Ahead(e, r) \in Nat /\ r \in Nat /\ w \in Nat /\ e \in Nat
<1>1. /\ Ahead(w, r) \in Index /\ Ahead(e, w) \in Index /\ Ahead(e, r) \in Index
      /\ r \in Index /\ w \in Index /\ e \in Index /\ cbuf \in Rings
  BY AheadIs DEF TtyType
<1>2. \A x \in Index : x \in Nat
  BY Sizes DEF Index
<1> QED
  BY <1>1, <1>2, PieceSeq DEF Lines, Edit

\* A step that has nothing to do with the input.
LEMMA TtyFrame ==
  ASSUME TtyInv, UNCHANGED <<cbuf, r, w, e, want, got>>, rx' \in Seq(C!Key),
         cpc'["intr"] = "consoleintr" => key' \in C!Key,
         \A p \in Reader : cpc'[p] \in ReadPlaces <=> cpc[p] \in ReadPlaces
  PROVE  TtyInv' /\ UNCHANGED C!T!vars
<1>1. TtyType'
  BY DEF TtyInv, TtyType
<1>2. RingFits' /\ KeyTaken' /\ InCalls'
  BY DEF TtyInv, RingFits, KeyTaken, InCalls, Ahead
<1>3. Lines' = Lines /\ Edit' = Edit
  BY DEF Lines, Edit, Piece, Ahead
<1> QED
  BY <1>1, <1>2, <1>3, HeldIs DEF TtyInv, C!T!vars

\* An actor goes on, outside a read().
LEMMA MoveTty ==
  ASSUME TxInv, TtyInv, UNCHANGED <<cbuf, r, w, e, want, got>>, rx' \in Seq(C!Key),
         NEW x \in Actors, NEW l \in Labels \ ReadPlaces, cpc[x] \notin ReadPlaces,
         cpc' = [cpc EXCEPT ![x] = l],
         x = "intr" /\ l = "consoleintr" => key' \in C!Key,
         x # "intr" => key' = key
  PROVE  TtyInv' /\ UNCHANGED C!T!vars
<1>1. cpc \in [Actors -> Labels] /\ l \in Labels /\ "intr" \in Actors /\ Reader \subseteq Actors
  BY TxConstants DEF TxInv, TxType
<1>2. cpc'[x] = l /\ \A y \in Actors : y # x => cpc'[y] = cpc[y]
  BY <1>1, Moves
<1>3. cpc'["intr"] = "consoleintr" => key' \in C!Key
  BY <1>1, <1>2 DEF TtyInv, KeyTaken
<1>4. \A p \in Reader : cpc'[p] \in ReadPlaces <=> cpc[p] \in ReadPlaces
  BY <1>1, <1>2
<1> QED
  BY <1>3, <1>4, TtyFrame

\* The UART and the interrupt handler, where they leave the input alone.
LEMMA HandlerTty ==
  ASSUME TxInv, TtyInv,
         \/ C!Claim \/ C!UartGetc \/ C!UartGetcNone \/ C!ConsoleFull \/ C!EchoWait \/ C!EchoPut
         \/ C!EchoDone \/ C!UartPut("intr") \/ C!UartStartEnd("intr")
  PROVE  TtyInv' /\ UNCHANGED C!T!vars
<1>1. rx \in Seq(C!Key) /\ "intr" \in Actors
  BY TxConstants DEF TtyInv, TtyType
<1>2. CASE C!UartGetc
  <2>1. /\ rx # <<>> /\ key' = Head(rx) /\ rx' = Tail(rx) /\ cpc["intr"] = "uartgetc"
        /\ cpc' = [cpc EXCEPT !["intr"] = "consoleintr"]
        /\ UNCHANGED <<cbuf, r, w, e, want, got>>
    BY <1>2 DEF C!UartGetc, C!Goto, C!Intr, C!callvars
  <2>2. key' \in C!Key /\ rx' \in Seq(C!Key)
    BY <1>1, <2>1
  <2>3. "consoleintr" \in Labels \ ReadPlaces /\ cpc["intr"] \notin ReadPlaces
    BY <2>1 DEF Labels, ReadPlaces
  <2> QED
    BY <1>1, <2>1, <2>2, <2>3, MoveTty
<1>3. CASE ~C!UartGetc
  <2>1. /\ UNCHANGED <<cbuf, r, w, e, want, got, rx>>
        /\ cpc["intr"] \in {"idle", "uartgetc", "consoleintr", "echo", "echo-put", "uart-put", "uartstart"}
        /\ \E l \in {"uartgetc", "uartstart", "echo", "echo-put", "idle"} : cpc' = [cpc EXCEPT !["intr"] = l]
    BY <1>3 DEF C!Claim, C!UartGetcNone, C!ConsoleFull, C!EchoWait, C!EchoPut, C!EchoDone, C!UartPut,
       C!UartStartEnd, C!Goto, C!Intr, C!consvars, C!callvars
  <2>2. PICK l \in {"uartgetc", "uartstart", "echo", "echo-put", "idle"} : cpc' = [cpc EXCEPT !["intr"] = l]
    BY <2>1
  <2>3. l \in Labels \ ReadPlaces /\ cpc["intr"] \notin ReadPlaces /\ l # "consoleintr"
    BY <2>1 DEF Labels, ReadPlaces
  <2> QED
    BY <1>1, <2>1, <2>2, <2>3, MoveTty
<1> QED
  BY <1>2, <1>3

\* Writers.
LEMMA WriterTty ==
  ASSUME TxInv, TtyInv, NEW p \in Writer,
         \/ C!Write(p) \/ C!WriteNext(p) \/ C!WriteEnd(p) \/ C!UartPutcFull(p) \/ C!UartPutc(p)
         \/ C!UartPut(p) \/ C!UartStartEnd(p)
  PROVE  TtyInv' /\ UNCHANGED C!T!vars
<1>1. rx \in Seq(C!Key) /\ p \in Actors /\ p # "intr"
  BY TxConstants, ConsoleAssumption DEF TtyInv, TtyType, C!ConsoleAssumption
<1>2. /\ UNCHANGED <<cbuf, r, w, e, want, got, rx, key>>
      /\ cpc[p] \in {"idle", "consolewrite", "uartputc", "uart-put", "uartstart"}
      /\ \E l \in {"consolewrite", "uartputc", "idle", "write-sleep", "uartstart"} : cpc' = [cpc EXCEPT ![p] = l]
  BY <1>1 DEF C!Write, C!WriteNext, C!WriteEnd, C!UartPutcFull, C!UartPutc, C!UartPut, C!UartStartEnd,
     C!Goto, C!Intr, C!consvars, C!callvars
<1>3. PICK l \in {"consolewrite", "uartputc", "idle", "write-sleep", "uartstart"} : cpc' = [cpc EXCEPT ![p] = l]
  BY <1>2
<1>4. l \in Labels \ ReadPlaces /\ cpc[p] \notin ReadPlaces
  BY <1>2 DEF Labels, ReadPlaces
<1> QED
  BY <1>1, <1>2, <1>3, <1>4, MoveTty

\* uartstart() wakes writers.
LEMMA StartTty ==
  ASSUME TxInv, TtyInv, NEW x \in Actors, C!UartStart(x)
  PROVE  TtyInv' /\ UNCHANGED C!T!vars
<1>1. /\ cpc[x] = "uartstart" /\ UNCHANGED <<cbuf, r, w, e, want, got, rx, key>>
      /\ cpc' = [C!Awake(cpc, "write-sleep", "uartputc") EXCEPT ![x] = "uart-put"]
  BY DEF C!UartStart, C!consvars, C!callvars
<1>2. cpc \in [Actors -> Labels] /\ "intr" \in Actors /\ Reader \subseteq Actors /\ rx \in Seq(C!Key)
  BY TxConstants DEF TxInv, TxType, TtyInv, TtyType
<1>3. PICK q : q = C!Awake(cpc, "write-sleep", "uartputc")
  OBVIOUS
<1>4. /\ DOMAIN q = Actors
      /\ \A y \in Actors : q[y] = IF cpc[y] = "write-sleep" THEN "uartputc" ELSE cpc[y]
  BY <1>2, <1>3 DEF C!Awake
<1>5. cpc'[x] = "uart-put" /\ \A y \in Actors : y # x => cpc'[y] = q[y]
  BY <1>1, <1>3, <1>4
<1>6. cpc'["intr"] = "consoleintr" => key' \in C!Key
  BY <1>1, <1>2, <1>4, <1>5 DEF TtyInv, KeyTaken
<1>7. \A p \in Reader : cpc'[p] \in ReadPlaces <=> cpc[p] \in ReadPlaces
  BY <1>1, <1>2, <1>4, <1>5 DEF ReadPlaces
<1> QED
  BY <1>1, <1>2, <1>6, <1>7, TtyFrame

\* A reader locks, waits or is killed.
LEMMA WaitTty ==
  ASSUME TxInv, TtyInv, NEW p \in Reader,
         C!ReadLock(p) \/ C!ReadEmpty(p) \/ C!ReadSleep(p) \/ C!Kill(p)
  PROVE  TtyInv' /\ UNCHANGED C!T!vars
<1>1. /\ cpc \in [Actors -> Labels] /\ "intr" \in Actors /\ Reader \subseteq Actors
      /\ rx \in Seq(C!Key) /\ p # "intr" /\ p \in Actors
  BY TxConstants, Sizes DEF TxInv, TxType, TtyInv, TtyType
<1>2. UNCHANGED <<cbuf, r, w, e, want, got, rx, key>>
  BY DEF C!ReadLock, C!ReadEmpty, C!ReadSleep, C!Kill, C!consvars, C!callvars
<1>3. /\ \A y \in Actors : y # p => cpc'[y] = cpc[y]
      /\ cpc'[p] \in ReadPlaces <=> cpc[p] \in ReadPlaces
  <2>1. CASE C!Kill(p)
    <3>1. cpc' = [cpc EXCEPT ![p] = IF @ = "read-sleep" THEN "consoleread" ELSE @]
      BY <2>1 DEF C!Kill
    <3> QED
      BY <1>1, <3>1 DEF ReadPlaces
  <2>2. CASE C!ReadLock(p) \/ C!ReadEmpty(p) \/ C!ReadSleep(p)
    <3>1. cpc[p] \in ReadPlaces /\ \E l \in ReadPlaces : cpc' = [cpc EXCEPT ![p] = l]
      BY <2>2 DEF C!ReadLock, C!ReadEmpty, C!ReadSleep, C!Goto, ReadPlaces
    <3> QED
      BY <1>1, <3>1
  <2> QED
    BY <2>1, <2>2
<1>4. cpc'["intr"] = "consoleintr" => key' \in C!Key
  BY <1>1, <1>2, <1>3 DEF TtyInv, KeyTaken
<1>5. \A q \in Reader : cpc'[q] \in ReadPlaces <=> cpc[q] \in ReadPlaces
  BY <1>1, <1>3
<1> QED
  BY <1>1, <1>2, <1>4, <1>5, TtyFrame

\* consoleintr() takes keys back.
LEMMA EraseTty ==
  ASSUME TxInv, TtyInv, C!ConsoleErase
  PROVE  TtyInv' /\ [C!T!Next]_(C!T!vars)
<1>1. /\ cpc["intr"] = "consoleintr" /\ key \in {"^H", "^U"} /\ e' = C!Uint(e - C!Erased)
      /\ cpc' = [cpc EXCEPT !["intr"] = "echo"] /\ "echo" \in Labels
      /\ UNCHANGED <<cbuf, r, w, rx, key, want, got>>
  BY DEF C!ConsoleErase, C!Goto, C!Intr, C!callvars, Labels
<1>2. /\ cpc \in [Actors -> Labels] /\ "intr" \in Actors /\ Reader \subseteq Actors /\ "intr" \notin Reader
      /\ TtyType /\ RingFits /\ InCalls
  BY TxConstants, Sizes DEF TxInv, TxType, TtyInv
<1>3. cpc'["intr"] = "echo" /\ \A x \in Actors : x # "intr" => cpc'[x] = cpc[x]
  BY <1>1, <1>2, Moves
<1>4. r \in Index /\ w \in Index /\ e \in Index /\ cbuf \in Rings
  BY <1>2 DEF TtyType
<1>5. KeyTaken' /\ InCalls'
  BY <1>1, <1>2, <1>3 DEF KeyTaken, InCalls
<1>6. CASE e = w
  <2>1. C!Erased = 0
    BY <1>6 DEF C!Erased
  <2>2. e' = e
    <3>1. e - 0 \in Int /\ -UINT32 < e - 0 /\ e - 0 < UINT32 /\ e - 0 >= 0 /\ e - 0 = e
      BY <1>4, Sizes DEF Index
    <3> QED
      BY <1>1, <2>1, <3>1, UintIs
  <2>3. TtyType' /\ RingFits'
    BY <1>1, <1>2, <2>2 DEF TtyType, RingFits, Ahead
  <2>4. Lines' = Lines /\ Edit' = Edit
    BY <1>1, <2>2 DEF Lines, Edit, Piece, Ahead
  <2>5. UNCHANGED C!T!vars
    BY <1>1, <2>4, HeldIs DEF C!T!vars
  <2> QED
    BY <1>5, <2>3, <2>5 DEF TtyInv
<1>7. CASE e # w
  <2>1. Ahead(e, w) # 0 /\ Ahead(e, w) \in Nat \ {0}
    BY <1>2, <1>4, <1>7, AheadStep, LinesAre
  <2>2. CASE key = "^H"
    <3>1. C!Erased = 1
      BY <1>7, <2>2 DEF C!Erased
    <3>2. e' = (IF e - 1 >= 0 THEN e - 1 ELSE e - 1 + UINT32) /\ e' \in Index
      <4>1. e - 1 \in Int /\ -UINT32 < e - 1 /\ e - 1 < UINT32
        BY <1>4, Sizes DEF Index
      <4> QED
        BY <1>1, <3>1, <4>1, UintIs
    <3>3. Ahead(e', w) = Ahead(e, w) - 1 /\ Ahead(e', r) = Ahead(e, r) - 1
      <4>1. /\ Ahead(e, w) = IF e >= w THEN e - w ELSE e - w + UINT32
            /\ Ahead(e, r) = IF e >= r THEN e - r ELSE e - r + UINT32
            /\ Ahead(e', w) = IF e' >= w THEN e' - w ELSE e' - w + UINT32
            /\ Ahead(e', r) = IF e' >= r THEN e' - r ELSE e' - r + UINT32
        BY <1>4, <3>2, AheadIs
      <4>2. Ahead(e, r) # 0
        BY <1>2, <2>1, LinesAre DEF RingFits
      <4> QED
        BY <1>4, <2>1, <3>2, <4>1, <4>2, Sizes DEF Index
    <3>4. TtyType'
      BY <1>1, <1>2, <3>2 DEF TtyType
    <3>5. RingFits'
      <4>1. /\ Ahead(w, r) + Ahead(e, w) = Ahead(e, r) /\ Ahead(e, r) <= INPUT_BUF_SIZE
            /\ Ahead(w, r) \in Nat /\ Ahead(e, w) \in Nat /\ Ahead(e, r) \in Nat
        BY <1>2, LinesAre DEF RingFits
      <4>2. Ahead(w, r) + Ahead(e', w) = Ahead(e', r) /\ Ahead(e', r) <= INPUT_BUF_SIZE
        BY <3>3, <4>1, Sizes
      <4> QED
        BY <1>1, <4>2 DEF RingFits
    <3>6. Lines' = Lines
      BY <1>1 DEF Lines, Piece, Ahead
    <3>7. Edit # <<>> /\ Edit' = SubSeq(Edit, 1, Len(Edit) - 1)
      <4>1. Edit' = Piece(cbuf, w, Ahead(e, w) - 1)
        BY <1>1, <3>3 DEF Edit
      <4>2. w \in Nat /\ Len(Edit) = Ahead(e, w)
        BY <1>2, LinesAre
      <4> QED
        BY <1>4, <2>1, <4>1, <4>2, PieceBack DEF Edit
    <3>8. C!T!Erase
      BY <1>1, <3>6, <3>7, HeldIs DEF C!T!Erase
    <3> QED
      BY <1>5, <3>4, <3>5, <3>8 DEF TtyInv, C!T!Next
  <2>3. CASE key = "^U"
    <3>1. C!Erased = Ahead(e, w)
      BY <1>7, <2>3 DEF C!Erased, Ahead
    <3>2. e' = w
      <4>1. PICK a : a = Ahead(e, w)
        OBVIOUS
      <4>2. a = (IF e >= w THEN e - w ELSE e - w + UINT32) /\ a \in Index
        BY <1>4, <4>1, AheadIs
      <4>3. e - a \in Int /\ -UINT32 < e - a /\ e - a < UINT32
            /\ (IF e - a >= 0 THEN e - a ELSE e - a + UINT32) = w
        BY <1>4, <4>2, Sizes DEF Index
      <4> QED
        BY <1>1, <3>1, <4>1, <4>3, UintIs
    <3>3. Ahead(w, w) = 0
      BY <1>4, AheadStep
    <3>4. TtyType'
      BY <1>1, <1>2, <3>2 DEF TtyType
    <3>5. RingFits'
      <4>1. /\ Ahead(w, r) + Ahead(e, w) = Ahead(e, r) /\ Ahead(e, r) <= INPUT_BUF_SIZE
            /\ Ahead(w, r) \in Nat /\ Ahead(e, w) \in Nat /\ Ahead(e, r) \in Nat
        BY <1>2, LinesAre DEF RingFits
      <4>2. Ahead(w, r) + Ahead(w, w) = Ahead(w, r) /\ Ahead(w, r) <= INPUT_BUF_SIZE
        BY <3>3, <4>1, Sizes
      <4> QED
        BY <1>1, <3>2, <4>2 DEF RingFits
    <3>6. Lines' = Lines
      BY <1>1 DEF Lines, Piece, Ahead
    <3>7. Edit # <<>> /\ Edit' = <<>>
      <4>1. Edit' = Piece(cbuf, w, 0)
        BY <1>1, <3>2, <3>3 DEF Edit
      <4>2. w \in Nat
        BY <1>2, LinesAre
      <4> QED
        BY <1>4, <2>1, <4>1, <4>2, PieceBack, PieceNone DEF Edit
    <3>8. C!T!Erase
      BY <1>1, <3>6, <3>7, HeldIs DEF C!T!Erase
    <3> QED
      BY <1>5, <3>4, <3>5, <3>8 DEF TtyInv, C!T!Next
  <2> QED
    BY <1>1, <2>2, <2>3
<1> QED
  BY <1>6, <1>7

\* consoleintr() stores a key, which may finish a line.
LEMMA StoreTty ==
  ASSUME TxInv, TtyInv, C!ConsoleStore
  PROVE  TtyInv' /\ [C!T!Next]_(C!T!vars)
<1>1. /\ cpc["intr"] = "consoleintr" /\ key \notin {"^H", "^U"} /\ ~C!Full
      /\ cbuf' = [cbuf EXCEPT ![Place(e)] = key] /\ e' = Inc(e)
      /\ w' = (IF C!Finishes THEN e' ELSE w)
      /\ cpc' = [IF C!Finishes THEN C!Awake(cpc, "read-sleep", "consoleread") ELSE cpc
                 EXCEPT !["intr"] = "echo"]
      /\ UNCHANGED <<r, rx, key, want, got>>
  BY DEF C!ConsoleStore, C!Intr, C!callvars, C!Slot, Place, Inc
<1>2. /\ cpc \in [Actors -> Labels] /\ "intr" \in Actors /\ Reader \subseteq Actors /\ "intr" \notin Reader
      /\ TtyType /\ RingFits /\ InCalls /\ key \in C!Key
  BY <1>1, TxConstants, Sizes DEF TxInv, TxType, TtyInv, KeyTaken
<1>3. cpc'["intr"] = "echo" /\ \A p \in Reader : cpc'[p] \in ReadPlaces <=> cpc[p] \in ReadPlaces
  <2>1. PICK q : q = IF C!Finishes THEN C!Awake(cpc, "read-sleep", "consoleread") ELSE cpc
    OBVIOUS
  <2>2. /\ DOMAIN q = Actors
        /\ \A x \in Actors : q[x] = cpc[x] \/ (cpc[x] = "read-sleep" /\ q[x] = "consoleread")
    BY <1>2, <2>1 DEF C!Awake
  <2>3. cpc' = [q EXCEPT !["intr"] = "echo"]
    BY <1>1, <2>1
  <2>4. cpc'["intr"] = "echo" /\ \A x \in Actors : x # "intr" => cpc'[x] = q[x]
    BY <1>2, <2>2, <2>3
  <2> QED
    BY <1>2, <2>2, <2>4 DEF ReadPlaces
<1>4. KeyTaken' /\ InCalls'
  BY <1>1, <1>2, <1>3 DEF KeyTaken, InCalls
<1>5. r \in Index /\ w \in Index /\ e \in Index /\ cbuf \in Rings /\ e' \in Index
  BY <1>1, <1>2, IncIs DEF TtyType
<1>6. PICK a, b \in Nat : /\ a = Ahead(w, r) /\ b = Ahead(e, w) /\ a + b = Ahead(e, r)
                          /\ Len(Lines) = a /\ Len(Edit) = b /\ r \in Nat /\ w \in Nat /\ e \in Nat
  BY <1>2, LinesAre DEF RingFits
<1>7. a + b < INPUT_BUF_SIZE
  <2>1. Ahead(e, r) < INPUT_BUF_SIZE
    BY <1>1, <1>5, AheadIs, Sizes DEF C!Full, Ahead, Index
  <2> QED
    BY <1>6, <2>1
<1>8. Ahead(e', r) = a + b + 1 /\ Ahead(e', w) = b + 1
  <2>1. Ahead(e, w) < INPUT_BUF_SIZE /\ Ahead(e, r) < INPUT_BUF_SIZE
    BY <1>6, <1>7, Sizes
  <2> QED
    BY <1>1, <1>5, <1>6, <2>1, AheadStep
<1>9. C!Uint(e + 1 - r) = a + b + 1
  <2>1. Ahead(e, r) = IF e >= r THEN e - r ELSE e - r + UINT32
    BY <1>5, AheadIs
  <2>2. e + 1 - r \in Int /\ -UINT32 < e + 1 - r /\ e + 1 - r < UINT32
    BY <1>5, <1>6, <1>7, <2>1, Sizes DEF Index
  <2>3. C!Uint(e + 1 - r) = IF e + 1 - r >= 0 THEN e + 1 - r ELSE e + 1 - r + UINT32
    BY <2>2, UintIs
  <2> QED
    BY SMTT(30), <1>5, <1>6, <1>7, <2>1, <2>3, Sizes DEF Index
<1>10. Place(e) = Place(r + (a + b)) /\ Place(e) = Place(w + b) /\ Place(e) \in 0 .. INPUT_BUF_SIZE - 1
  <2>1. 0 \in Nat /\ e + 0 = e /\ r + (a + b) + 0 = r + (a + b) /\ w + b + 0 = w + b
    BY <1>6
  <2>2. Place(e + 0) = Place(r + Ahead(e, r) + 0) /\ Place(e + 0) = Place(w + Ahead(e, w) + 0)
    BY <1>5, <2>1, PlaceAhead
  <2>3. Place(e + 0) = Place(r + (a + b) + 0) /\ Place(e + 0) = Place(w + b + 0)
    BY <1>6, <2>2
  <2> QED
    BY <1>6, <2>1, <2>3, PlaceWraps
<1>11. PICK f : f = cbuf'
  OBVIOUS
<1>12. /\ f \in Rings /\ key \in KeyOrNone /\ f[Place(e)] = key
       /\ \A x \in 0 .. INPUT_BUF_SIZE - 1 : x # Place(e) => f[x] = cbuf[x]
  BY <1>1, <1>2, <1>5, <1>10, <1>11 DEF Rings, KeyOrNone
<1>13. Piece(f, r, a) = Lines
  <2>1. PICK m \in Nat : m = a + b /\ a \in 0 .. m /\ m < INPUT_BUF_SIZE
    BY <1>6, <1>7
  <2>2. f \in Rings /\ \A x \in 0 .. INPUT_BUF_SIZE - 1 : x # Place(r + m) => f[x] = cbuf[x]
    BY <1>10, <1>12, <2>1
  <2>3. Piece(f, r, a) = Piece(cbuf, r, a)
    BY <1>5, <1>6, <2>1, <2>2, PieceKeep
  <2> QED
    BY <1>6, <2>3 DEF Lines
<1>14. Piece(f, w, b + 1) = Append(Edit, key)
  <2>1. b < INPUT_BUF_SIZE
    BY <1>6, <1>7, Sizes
  <2>2. Edit = Piece(cbuf, w, b)
    BY <1>6 DEF Edit
  <2>3. Piece(f, w, b + 1) = Append(Piece(cbuf, w, b), key)
    <3>1. /\ f \in Rings /\ \A x \in 0 .. INPUT_BUF_SIZE - 1 : x # Place(w + b) => f[x] = cbuf[x]
          /\ key \in KeyOrNone /\ f[Place(w + b)] = key
      BY <1>10, <1>12
    <3>2. PICK c : c = key
      OBVIOUS
    <3>3. /\ c \in KeyOrNone /\ f[Place(w + b)] = c
          /\ cbuf \in Rings /\ w \in Nat /\ b \in Nat
      BY <1>5, <1>6, <3>1, <3>2
    <3>4. Piece(f, w, b + 1) = Append(Piece(cbuf, w, b), c)
      BY <2>1, <3>1, <3>3, PieceAdd
    <3> QED
      BY <3>2, <3>4
  <2> QED
    BY <2>2, <2>3
<1>15. TtyType'
  BY <1>1, <1>2, <1>5, <1>11, <1>12 DEF TtyType
<1>16. PICK c : c = key
  OBVIOUS
<1>17. c \in Letter \union {"nl", "^D"} /\ Len(Lines) + Len(Edit) < INPUT_BUF_SIZE
  BY <1>1, <1>2, <1>6, <1>7, <1>16 DEF C!Key
<1>18. C!Finishes <=> (c \in {"nl", "^D"} \/ Len(Lines) + Len(Edit) = INPUT_BUF_SIZE - 1)
  BY SMTT(30), <1>6, <1>9, <1>16, Sizes DEF C!Finishes
<1>19. CASE C!Finishes
  <2>1. w' = e' /\ r' = r
    BY <1>1, <1>19
  <2>2. Ahead(e', e') = 0
    BY <1>5, AheadStep
  <2>3. RingFits'
    <3>1. Ahead(e', r) + Ahead(e', e') = Ahead(e', r) /\ Ahead(e', r) <= INPUT_BUF_SIZE
      BY SMTT(30), <1>6, <1>7, <1>8, <2>2, Sizes
    <3> QED
      BY <2>1, <3>1 DEF RingFits
  <2>4. Lines' = Piece(f, r, a + (b + 1))
    <3>1. a + b + 1 = a + (b + 1)
      BY <1>6
    <3> QED
      BY <1>8, <1>11, <2>1, <3>1 DEF Lines
  <2>5. Piece(f, r, a + (b + 1)) = Piece(f, r, a) \o Piece(f, w, b + 1)
    <3>1. b + 1 \in Nat
      BY <1>6
    <3>2. Piece(f, r, Ahead(w, r) + (b + 1)) = Piece(f, r, Ahead(w, r)) \o Piece(f, w, b + 1)
      BY <1>5, <1>12, <3>1, PieceJoin
    <3> QED
      BY <1>6, <3>2
  <2>6. Lines' = Lines \o Append(Edit, c)
    BY <1>13, <1>14, <1>16, <2>4, <2>5
  <2>7. Edit' = <<>>
    <3>1. Edit' = Piece(f, e', 0) /\ e' \in Nat
      BY <1>5, <1>11, <2>1, <2>2, Sizes DEF Edit, Index
    <3> QED
      BY <1>12, <3>1, PieceNone
  <2>8. C!T!Add(c)
    BY <1>1, <1>17, <1>18, <1>19, <2>6, <2>7, HeldIs DEF C!T!Add
  <2> QED
    BY <1>4, <1>15, <1>17, <2>3, <2>8 DEF TtyInv, C!T!Next
<1>20. CASE ~C!Finishes
  <2>1. w' = w /\ r' = r
    BY <1>1, <1>20
  <2>2. RingFits'
    <3>1. Ahead(w, r) + Ahead(e', w) = Ahead(e', r) /\ Ahead(e', r) <= INPUT_BUF_SIZE
      BY SMTT(30), <1>6, <1>7, <1>8, Sizes
    <3> QED
      BY <2>1, <3>1 DEF RingFits
  <2>3. Lines' = Lines
    <3>1. Lines' = Piece(f, r, a)
      BY <1>6, <1>11, <2>1 DEF Lines
    <3> QED
      BY <1>13, <3>1
  <2>4. Edit' = Append(Edit, c)
    <3>1. Edit' = Piece(f, w, b + 1)
      BY <1>8, <1>11, <2>1 DEF Edit
    <3> QED
      BY <1>14, <1>16, <3>1
  <2>5. C!T!Add(c)
    BY <1>1, <1>17, <1>18, <1>20, <2>3, <2>4, HeldIs DEF C!T!Add
  <2> QED
    BY <1>4, <1>15, <1>17, <2>2, <2>5 DEF TtyInv, C!T!Next
<1> QED
  BY <1>19, <1>20

\* consoleread() begins.
LEMMA ReadTty ==
  ASSUME TxInv, TtyInv, NEW p \in Reader, C!Read(p)
  PROVE  TtyInv' /\ C!T!Read(p)
<1>1. PICK n \in Counts : /\ cpc[p] = "idle" /\ want' = [want EXCEPT ![p] = n]
                          /\ got' = [got EXCEPT ![p] = <<>>]
                          /\ cpc' = [cpc EXCEPT ![p] = "consoleread"]
                          /\ UNCHANGED <<cbuf, r, w, e, rx, key>>
  BY DEF C!Read, C!Goto, C!consvars
<1>2. /\ cpc \in [Actors -> Labels] /\ Reader \subseteq Actors /\ "intr" \in Actors /\ p # "intr"
      /\ TtyType /\ RingFits /\ KeyTaken /\ InCalls /\ n \in Nat \ {0} /\ want \in [Reader -> Nat]
  BY TxConstants, Sizes DEF TxInv, TxType, TtyInv, TtyType
<1>3. want[p] = 0
  BY <1>1, <1>2 DEF InCalls, ReadPlaces
<1>4. /\ want' \in [Reader -> Nat] /\ want'[p] = n /\ DOMAIN got' = Reader
      /\ \A q \in Reader : q # p => want'[q] = want[q]
  BY <1>1, <1>2 DEF TtyType
<1>5. cpc'[p] = "consoleread" /\ \A x \in Actors : x # p => cpc'[x] = cpc[x]
  BY <1>1, <1>2
<1>6. TtyType' /\ RingFits'
  BY <1>1, <1>2, <1>4 DEF TtyType, RingFits, Ahead
<1>7. KeyTaken'
  BY <1>1, <1>2, <1>5 DEF KeyTaken
<1>8. InCalls'
  BY <1>2, <1>4, <1>5 DEF InCalls, ReadPlaces
<1>9. Lines' = Lines /\ Edit' = Edit
  BY <1>1 DEF Lines, Edit, Piece, Ahead
<1>10. C!T!Read(p)
  BY <1>1, <1>3, <1>9, HeldIs DEF C!T!Read
<1> QED
  BY <1>6, <1>7, <1>8, <1>10 DEF TtyInv

\* What a step of a read() leaves true: it counts down or ends, and r stands
\* still or goes on to the next key of a finished line.
LEMMA GetTty ==
  ASSUME TxInv, TtyInv, NEW p \in Reader, cpc[p] = "read", UNCHANGED <<cbuf, w, e, rx, key>>,
         r' = r \/ (r # w /\ r' = Inc(r)), DOMAIN got' = Reader, NEW n \in Nat,
         want' = [want EXCEPT ![p] = n],
         \/ n = 0 /\ cpc' = [cpc EXCEPT ![p] = "idle"]
         \/ n > 0 /\ cpc' = cpc
  PROVE  /\ TtyInv' /\ Edit' = Edit /\ want[p] > 0
         /\ r # w => Lines # <<>> /\ Head(Lines) = cbuf[Place(r)]
         /\ r' = r => Lines' = Lines
         /\ r # w /\ r' = Inc(r) => Lines' = Tail(Lines)
<1>1. /\ cpc \in [Actors -> Labels] /\ Reader \subseteq Actors /\ "intr" \in Actors /\ p # "intr"
      /\ TtyType /\ RingFits /\ KeyTaken /\ InCalls /\ want \in [Reader -> Nat]
  BY TxConstants, Sizes DEF TxInv, TxType, TtyInv, TtyType
<1>2. want[p] > 0
  BY <1>1 DEF InCalls, ReadPlaces
<1>3. want' \in [Reader -> Nat] /\ want'[p] = n /\ \A q \in Reader : q # p => want'[q] = want[q]
  BY <1>1
<1>4. /\ \A x \in Actors : x # p => cpc'[x] = cpc[x]
      /\ n = 0 => cpc'[p] = "idle"
      /\ n > 0 => cpc'[p] = "read"
  BY <1>1
<1>5. KeyTaken'
  BY <1>1, <1>4 DEF KeyTaken
<1>6. InCalls'
  BY <1>1, <1>3, <1>4 DEF InCalls, ReadPlaces
<1>7. r \in Index /\ w \in Index /\ e \in Index /\ cbuf \in Rings /\ Inc(r) \in Index
  BY <1>1, IncIs DEF TtyType
<1>8. TtyType'
  BY <1>1, <1>3, <1>7 DEF TtyType
<1>9. Edit' = Edit
  BY DEF Edit, Piece, Ahead
<1>10. PICK a, b, c \in Nat : /\ a = Ahead(w, r) /\ b = Ahead(e, w) /\ c = Ahead(e, r)
                              /\ a + b = c /\ c <= INPUT_BUF_SIZE
  BY <1>1, LinesAre DEF RingFits
<1>11. CASE r' = r
  <2>1. RingFits' /\ Lines' = Lines
    BY <1>1, <1>11 DEF RingFits, Lines, Piece, Ahead
  <2>2. r # w => Lines # <<>> /\ Head(Lines) = cbuf[Place(r)]
    <3> SUFFICES ASSUME r # w PROVE Lines # <<>> /\ Head(Lines) = cbuf[Place(r)]
      OBVIOUS
    <3>1. a # 0
      BY <1>7, <1>10, AheadStep
    <3> QED
      BY <1>7, <1>10, <3>1, PieceGet DEF Lines
  <2>3. Inc(r) # r
    BY <1>7, IncIs, Sizes DEF Index
  <2> QED
    BY <1>2, <1>5, <1>6, <1>8, <1>9, <1>11, <2>1, <2>2, <2>3 DEF TtyInv
<1>12. CASE r # w /\ r' = Inc(r)
  <2>1. a > 0 /\ c > 0
    BY <1>7, <1>10, <1>12, AheadStep
  <2>2. Ahead(w, r') = a - 1 /\ Ahead(e, r') = c - 1
    BY <1>7, <1>10, <1>12, <2>1, AheadStep
  <2>3. RingFits'
    <3>1. Ahead(w, r') + Ahead(e, w) = Ahead(e, r') /\ Ahead(e, r') <= INPUT_BUF_SIZE
      BY <1>10, <2>1, <2>2, Sizes
    <3> QED
      BY <3>1 DEF RingFits
  <2>4. Lines # <<>> /\ Head(Lines) = cbuf[Place(r)] /\ Piece(cbuf, Inc(r), a - 1) = Tail(Lines)
    <3>1. a \in Nat \ {0}
      BY <2>1
    <3> QED
      BY <1>7, <1>10, <3>1, PieceGet DEF Lines
  <2>5. Lines' = Tail(Lines)
    <3>1. Lines' = Piece(cbuf, Inc(r), a - 1)
      BY <1>12, <2>2 DEF Lines
    <3> QED
      BY <2>4, <3>1
  <2>6. r' # r
    BY <1>7, <1>12, IncIs, Sizes DEF Index
  <2> QED
    BY <1>2, <1>5, <1>6, <1>8, <1>9, <2>3, <2>4, <2>5, <2>6 DEF TtyInv
<1> QED
  BY <1>11, <1>12

\* A read() that ends without a byte: the process is killed, or its buffer is
\* no memory.
LEMMA FailTty ==
  ASSUME TxInv, TtyInv, NEW p \in Reader, C!ReadKilled(p) \/ C!ReadBad(p)
  PROVE  TtyInv' /\ C!T!Fail(p)
<1>1. /\ cpc[p] = "read" /\ UNCHANGED <<cbuf, w, e, rx, key, got>>
      /\ want' = [want EXCEPT ![p] = 0] /\ cpc' = [cpc EXCEPT ![p] = "idle"]
  BY DEF C!ReadKilled, C!ReadBad, C!ReadEnd, C!Goto
<1>2. r' = r \/ (r # w /\ r' = Inc(r) /\ cbuf[Place(r)] # "^D")
  BY DEF C!ReadKilled, C!ReadBad, C!Slot, Place, Inc
<1>3. PICK n \in Nat : n = 0
  OBVIOUS
<1>4. DOMAIN got' = Reader
  BY <1>1 DEF TtyInv, TtyType
<1>5. want' = [want EXCEPT ![p] = n] /\ (n = 0 /\ cpc' = [cpc EXCEPT ![p] = "idle"])
  BY <1>1, <1>3
<1>6. /\ TtyInv' /\ Edit' = Edit /\ want[p] > 0
      /\ r # w => Lines # <<>> /\ Head(Lines) = cbuf[Place(r)]
      /\ r' = r => Lines' = Lines
      /\ r # w /\ r' = Inc(r) => Lines' = Tail(Lines)
  BY <1>1, <1>2, <1>4, <1>5, GetTty
<1>7. C!T!Fail(p)
  BY <1>1, <1>2, <1>6, HeldIs DEF C!T!Fail
<1> QED
  BY <1>6, <1>7

\* An end of file ends a read(), which leaves it to the next one if it has bytes.
LEMMA EofTty ==
  ASSUME TxInv, TtyInv, NEW p \in Reader, C!ReadEof(p)
  PROVE  TtyInv' /\ C!T!Eof(p)
<1>1. /\ cpc[p] = "read" /\ r # w /\ UNCHANGED <<cbuf, w, e, rx, key, got>>
      /\ want' = [want EXCEPT ![p] = 0] /\ cpc' = [cpc EXCEPT ![p] = "idle"]
  BY DEF C!ReadEof, C!ReadEnd, C!Goto
<1>2. r' = (IF got[p] = <<>> THEN Inc(r) ELSE r) /\ cbuf[Place(r)] = "^D"
  BY DEF C!ReadEof, C!Slot, Place, Inc
<1>3. r' = r \/ (r # w /\ r' = Inc(r))
  BY <1>1, <1>2
<1>4. PICK n \in Nat : n = 0
  OBVIOUS
<1>5. DOMAIN got' = Reader
  BY <1>1 DEF TtyInv, TtyType
<1>6. want' = [want EXCEPT ![p] = n] /\ (n = 0 /\ cpc' = [cpc EXCEPT ![p] = "idle"])
  BY <1>1, <1>4
<1>7. /\ TtyInv' /\ Edit' = Edit /\ want[p] > 0
      /\ r # w => Lines # <<>> /\ Head(Lines) = cbuf[Place(r)]
      /\ r' = r => Lines' = Lines
      /\ r # w /\ r' = Inc(r) => Lines' = Tail(Lines)
  BY <1>1, <1>3, <1>5, <1>6, GetTty
<1>8. Lines' = IF got[p] = <<>> THEN Tail(Lines) ELSE Lines
  BY <1>1, <1>2, <1>7
<1>9. C!T!Eof(p)
  BY <1>1, <1>2, <1>7, <1>8, HeldIs DEF C!T!Eof
<1> QED
  BY <1>7, <1>9

\* A byte of a finished line.
LEMMA ByteTty ==
  ASSUME TxInv, TtyInv, NEW p \in Reader, C!ReadByte(p)
  PROVE  TtyInv' /\ C!T!Get(p)
<1>1. /\ cpc[p] = "read" /\ r # w /\ r' = Inc(r) /\ UNCHANGED <<cbuf, w, e, rx, key>>
      /\ cbuf[Place(r)] # "^D" /\ got' = [got EXCEPT ![p] = Append(@, cbuf[Place(r)])]
      /\ IF cbuf[Place(r)] = "nl" \/ want[p] = 1
         THEN want' = [want EXCEPT ![p] = 0] /\ cpc' = [cpc EXCEPT ![p] = "idle"]
         ELSE want' = [want EXCEPT ![p] = @ - 1] /\ cpc' = cpc
  BY DEF C!ReadByte, C!ReadEnd, C!Goto, C!Slot, Place, Inc
<1>2. want \in [Reader -> Nat] /\ want[p] > 0 /\ DOMAIN got' = Reader
  BY <1>1 DEF TtyInv, TtyType, InCalls, ReadPlaces
<1>3. PICK n \in Nat : n = IF cbuf[Place(r)] = "nl" THEN 0 ELSE want[p] - 1
  BY <1>2
<1>4. /\ want' = [want EXCEPT ![p] = n]
      /\ \/ n = 0 /\ cpc' = [cpc EXCEPT ![p] = "idle"]
         \/ n > 0 /\ cpc' = cpc
  BY <1>1, <1>2, <1>3
<1>5. r' = r \/ (r # w /\ r' = Inc(r))
  BY <1>1
<1>6. /\ TtyInv' /\ Edit' = Edit
      /\ Lines # <<>> /\ Head(Lines) = cbuf[Place(r)] /\ Lines' = Tail(Lines)
  BY <1>1, <1>2, <1>4, <1>5, GetTty
<1>7. want' = [want EXCEPT ![p] = IF Head(Lines) = "nl" THEN 0 ELSE @ - 1]
  BY <1>3, <1>4, <1>6
<1>8. C!T!Get(p)
  BY <1>1, <1>2, <1>6, <1>7, HeldIs DEF C!T!Get
<1> QED
  BY <1>6, <1>8

\* Every step of the console keeps TtyInv, and is a step of Tty or none.
LEMMA StepTty ==
  ASSUME TxInv, TtyInv, [C!Next]_(C!vars)
  PROVE  TtyInv' /\ [C!T!Next]_(C!T!vars)
<1> "intr" \in Actors /\ Writer \subseteq Actors /\ C!Intr = "intr"
  BY TxConstants DEF C!Intr
<1>1. CASE UNCHANGED C!vars
  <2>1. UNCHANGED <<cbuf, r, w, e, want, got, rx, key, cpc>>
    BY <1>1 DEF C!vars, C!consvars, C!callvars
  <2>2. rx' \in Seq(C!Key) /\ (cpc'["intr"] = "consoleintr" => key' \in C!Key)
    BY <2>1 DEF TtyInv, TtyType, KeyTaken
  <2> QED
    BY <2>1, <2>2, TtyFrame
<1>2. CASE C!Type \/ C!Send
  <2>1. UNCHANGED <<cbuf, r, w, e, want, got, key, cpc>>
    BY <1>2 DEF C!Type, C!Send, C!consvars, C!callvars
  <2>2. rx \in Seq(C!Key) /\ (rx' = rx \/ \E c \in C!Key : rx' = Append(rx, c))
    BY <1>2 DEF C!Type, C!Send, TtyInv, TtyType
  <2>3. rx' \in Seq(C!Key) /\ (cpc'["intr"] = "consoleintr" => key' \in C!Key)
    BY <2>1, <2>2, AppendProperties DEF TtyInv, KeyTaken
  <2> QED
    BY <2>1, <2>3, TtyFrame
<1>3. CASE C!Handler
  BY <1>3, HandlerTty, EraseTty, StoreTty, StartTty DEF C!Handler
<1>4. CASE \E p \in Writer : C!Write(p) \/ C!Writing(p)
  BY <1>4, WriterTty, StartTty DEF C!Writing
<1>5. CASE \E p \in Reader : C!Read(p) \/ C!Reading(p) \/ C!Kill(p)
  BY <1>5, WaitTty, ReadTty, FailTty, EofTty, ByteTty DEF C!Reading, C!T!Next
<1> QED
  BY <1>1, <1>2, <1>3, <1>4, <1>5 DEF C!Next

\* consoleinit()
LEMMA InitTty == C!Init => TtyInv /\ C!T!Init
<1> SUFFICES ASSUME C!Init PROVE TtyInv /\ C!T!Init
  OBVIOUS
<1>1. /\ r \in Index /\ w = r /\ e = r /\ cbuf = [i \in 0 .. INPUT_BUF_SIZE - 1 |-> None]
      /\ rx = <<>> /\ cpc = [x \in Actors |-> "idle"]
      /\ want = [p \in Reader |-> 0] /\ got = [p \in Reader |-> <<>>]
  BY Sizes DEF C!Init, C!Caller, C!Intr, Actors
<1>2. cbuf \in Rings
  BY <1>1 DEF Rings, KeyOrNone
<1>3. TtyType
  BY <1>1, <1>2 DEF TtyType
<1>4. Ahead(r, r) = 0 /\ r \in Nat
  BY <1>1, AheadStep, Sizes DEF Index
<1>5. RingFits
  BY <1>1, <1>4, Sizes DEF RingFits
<1>6. KeyTaken /\ InCalls
  BY <1>1, TxConstants DEF KeyTaken, InCalls, ReadPlaces
<1>7. Lines = <<>> /\ Edit = <<>>
  BY <1>1, <1>2, <1>4, PieceNone DEF Lines, Edit
<1> QED
  BY <1>1, <1>3, <1>5, <1>6, <1>7, HeldIs DEF TtyInv, C!T!Init

\* TtyInv is an invariant of the console.
THEOREM TtyInvariance == C!Spec => []TtyInv
  BY TxInvariance, InitTty, StepTty, PTL DEF C!Spec

\* consoleintr(), consoleread(): for any number of readers, any size of the
\* ring that divides the range of its indices, and any of them to start from,
\* every behaviour of the console is one of Tty.
THEOREM ConsoleImplementsTty == C!Spec => ImplementsTty
<1>1. C!Spec => C!T!Spec
  BY TxInvariance, TtyInvariance, InitTty, StepTty, PTL DEF C!Spec, C!T!Spec
<1> QED
  BY <1>1 DEF ImplementsTty, C!ImplementsTty
=============================================================================
