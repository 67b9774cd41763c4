------------------------------- MODULE Xv6Disk ------------------------------
(***************************************************************************)
(* The buffer cache (kernel/bio.c) on top of the driver of the virtio disk *)
(* (kernel/virtio_disk.c).                                                 *)
(*                                                                         *)
(* A process reads a block, may change it and write it at once (as the log *)
(* does with its own blocks) or pin it and leave it to the next commit     *)
(* (log_write(), install_trans()), and gives it back.  A step is what      *)
(* happens under one hold of bcache.lock or of vdisk_lock; the sleep lock  *)
(* of a buffer is the mutex that Xv6SleepLock is shown to implement.  The  *)
(* device works on its own and in any order.                               *)
(***************************************************************************)
EXTENDS Integers, Sequences, FiniteSets, SequencesExt

CONSTANTS Proc, Block, Value,
          Machines,    \* [NBUF, NUM, served, reads, changes]: the buffers; the descriptors,
                       \* and entries of a ring; how many requests were served, one
                       \* by one, before the behaviour starts; the blocks that each
                       \* process reads, in order; a bound on changes of blocks
          UINT16,      \* 2^16 in the code
          NoProc, NoBlock, NoValue, Blank

ASSUME DiskAssumption ==
  /\ \A m \in Machines : /\ m.NBUF \in Nat \ {0} /\ m.NUM \in 3 .. UINT16 - 1 /\ UINT16 % m.NUM = 0
                         /\ m.served \in 0 .. UINT16 - 1
  /\ UINT16 \in Nat
  /\ IsFiniteSet(Proc) /\ NoProc \notin Proc /\ NoBlock \notin Block /\ Blank \notin Value

VARIABLES
  machine,                         \* one of Machines
  \* bio.c
  lru,                             \* the list from bcache.head, by buffer
  blockno, valid, refcnt, data,    \* struct buf
  lock,                            \* the process with the sleep lock, or NoProc
  \* virtio_disk.c
  disk,                            \* disk[b]: the device owns buffer b
  free, desc,                      \* the descriptors
  avail, used,                     \* the rings: [idx, ring]
  used_idx, info,
  vdisk_lock,                      \* "intr" while the handler runs, or "none"
  \* the device
  media, taken, last_avail, isr,
  \* the processes
  pc, buf, head, pinned, reads, changes, panic

cachevars == <<lru, blockno, valid, refcnt, lock>>
queuevars == <<free, desc, avail, info>>
devvars == <<media, taken, last_avail, isr, used>>
bounds == <<reads, changes, machine>>
vars == <<cachevars, data, disk, queuevars, used_idx, vdisk_lock, devvars,
          pc, buf, head, pinned, bounds, panic>>

NBUF == machine.NBUF
NUM == machine.NUM

Buf == 1 .. NBUF
Desc == 0 .. NUM - 1
NoDesc == [addr |-> <<"null">>, flags |-> {}, next |-> 0]

\* binit() and virtio_disk_init(): each buffer is put at the front of the list.
Init ==
  /\ machine \in Machines
  /\ lru = [k \in 1 .. NBUF |-> NBUF + 1 - k]
  /\ blockno = [b \in Buf |-> NoBlock] /\ valid = [b \in Buf |-> FALSE]
  /\ refcnt = [b \in Buf |-> 0] /\ data = [b \in Buf |-> NoValue]
  /\ lock = [b \in Buf |-> NoProc]
  /\ disk = [b \in Buf |-> FALSE]
  /\ free = [d \in Desc |-> TRUE] /\ desc = [d \in Desc |-> NoDesc]
  /\ info = [d \in Desc |-> [b |-> 0, ok |-> FALSE]]
  /\ avail = [idx |-> machine.served, ring |-> [k \in Desc |-> 0]] /\ used = avail
  /\ used_idx = machine.served /\ last_avail = machine.served
  /\ vdisk_lock = "none"
  /\ media = [n \in Block |-> Blank] /\ taken = {} /\ isr = FALSE
  /\ pc = [p \in Proc |-> "idle"] /\ buf = [p \in Proc |-> 0] /\ head = [p \in Proc |-> 0]
  /\ pinned = {} /\ reads = machine.reads /\ changes = machine.changes /\ panic = FALSE

Goto(p, l) == pc' = [pc EXCEPT ![p] = l]
At(p, l) == ~panic /\ pc[p] = l

----------------------------------------------------------------------------
(***************************************************************************)
(* bio.c                                                                   *)
(***************************************************************************)

\* bget(): the buffer that holds block n, or the least recently used one that
\* nobody refers to, 0 if there is none.
Cached(n) == {b \in Buf : blockno[b] = n}
Unused == {k \in 1 .. NBUF : refcnt[lru[k]] = 0}
LeastRecent == IF Unused = {} THEN 0 ELSE lru[CHOOSE k \in Unused : \A j \in Unused : j <= k]

Hit(b) == /\ refcnt' = [refcnt EXCEPT ![b] = @ + 1]
          /\ UNCHANGED <<blockno, valid, panic>>

Recycle_KeepsValid(b, n) ==
  /\ blockno' = [blockno EXCEPT ![b] = n]
  /\ refcnt' = [refcnt EXCEPT ![b] = 1]
  /\ UNCHANGED <<valid, panic>>
Recycle(b, n) ==
  /\ blockno' = [blockno EXCEPT ![b] = n]
  /\ valid' = [valid EXCEPT ![b] = FALSE]
  /\ refcnt' = [refcnt EXCEPT ![b] = 1]
  /\ UNCHANGED panic

BgetNone == panic' = TRUE /\ UNCHANGED <<blockno, valid, refcnt>>

Bread(p, n) ==
  /\ At(p, "idle") /\ reads[p] # <<>> /\ n = Head(reads[p])
  /\ reads' = [reads EXCEPT ![p] = Tail(@)] /\ UNCHANGED <<changes, machine>>
  /\ \E b \in IF Cached(n) # {} THEN Cached(n) ELSE {LeastRecent} :
       /\ \/ Cached(n) # {} /\ Hit(b)
          \/ Cached(n) = {} /\ b # 0 /\ Recycle(b, n)
          \/ b = 0 /\ BgetNone
       /\ buf' = [buf EXCEPT ![p] = b]
  /\ Goto(p, "acquiresleep")
  /\ UNCHANGED <<lru, data, lock, disk, queuevars, used_idx, vdisk_lock, devvars, head, pinned>>

\* acquiresleep(), and bread()'s test of valid.
Locked(p) ==
  LET b == buf[p]
  IN  /\ At(p, "acquiresleep") /\ lock[b] = NoProc
      /\ lock' = [lock EXCEPT ![b] = p]
      /\ Goto(p, IF valid[b] THEN "has" ELSE "read")
      /\ UNCHANGED <<lru, blockno, valid, refcnt, data, disk, queuevars, used_idx, vdisk_lock,
                     devvars, buf, head, pinned, bounds, panic>>

Change == changes > 0 /\ changes' = changes - 1 /\ UNCHANGED <<reads, machine>>

\* A process that has a buffer changes it and calls bwrite().
Bwrite(p, v) ==
  /\ At(p, "has") /\ Change /\ blockno[buf[p]] \notin pinned
  /\ data' = [data EXCEPT ![buf[p]] = v]
  /\ Goto(p, "write")
  /\ UNCHANGED <<cachevars, disk, queuevars, used_idx, vdisk_lock, devvars, buf, head, pinned,
                 panic>>

\* Or changes it and leaves it to the log: bpin(), unless it is in the log.
Bpin(p, v) ==
  LET b == buf[p]
  IN  /\ At(p, "has") /\ Change
      /\ data' = [data EXCEPT ![b] = v]
      /\ refcnt' = [refcnt EXCEPT ![b] = IF blockno[b] \in pinned THEN @ ELSE @ + 1]
      /\ pinned' = pinned \union {blockno[b]}
      /\ Goto(p, "brelse")
      /\ UNCHANGED <<lru, blockno, valid, lock, disk, queuevars, used_idx, vdisk_lock, devvars,
                     buf, head, panic>>

\* install_trans(): bwrite() of a pinned block, then bunpin().
Install(p) ==
  /\ At(p, "has") /\ blockno[buf[p]] \in pinned
  /\ Goto(p, "write")
  /\ UNCHANGED <<cachevars, data, disk, queuevars, used_idx, vdisk_lock, devvars, buf, head,
                 pinned, bounds, panic>>

Bunpin(p) ==
  LET b == buf[p]
  IN  /\ At(p, "written")
      /\ refcnt' = [refcnt EXCEPT ![b] = IF blockno[b] \in pinned THEN @ - 1 ELSE @]
      /\ pinned' = pinned \ {blockno[b]}
      /\ Goto(p, "brelse")
      /\ UNCHANGED <<lru, blockno, valid, lock, data, disk, queuevars, used_idx, vdisk_lock,
                     devvars, buf, head, bounds, panic>>

\* brelse(): the sleep lock first, then refcnt and the list.
Brelse(p) ==
  /\ pc[p] \in {"has", "brelse"} /\ At(p, pc[p])
  /\ lock' = [lock EXCEPT ![buf[p]] = NoProc]
  /\ Goto(p, "unref")
  /\ UNCHANGED <<lru, blockno, valid, refcnt, data, disk, queuevars, used_idx, vdisk_lock,
                 devvars, buf, head, pinned, bounds, panic>>

ToFront(b) ==
  LET k == CHOOSE i \in 1 .. NBUF : lru[i] = b
  IN  [i \in 1 .. NBUF |-> IF i = 1 THEN b ELSE IF i <= k THEN lru[i - 1] ELSE lru[i]]
BrelseRef_LastOnly(p) ==
  LET b == buf[p]
  IN  /\ At(p, "unref")
      /\ refcnt' = [refcnt EXCEPT ![b] = IF lock[b] = NoProc THEN @ - 1 ELSE @]
      /\ lru' = IF refcnt[b] = 1 THEN ToFront(b) ELSE lru
      /\ buf' = [buf EXCEPT ![p] = 0] /\ Goto(p, "idle")
      /\ UNCHANGED <<blockno, valid, lock, data, disk, queuevars, used_idx, vdisk_lock, devvars,
                     head, pinned, bounds, panic>>
BrelseRef(p) ==
  LET b == buf[p]
  IN  /\ At(p, "unref")
      /\ refcnt' = [refcnt EXCEPT ![b] = @ - 1]
      /\ lru' = IF refcnt[b] = 1 THEN ToFront(b) ELSE lru
      /\ buf' = [buf EXCEPT ![p] = 0] /\ Goto(p, "idle")
      /\ UNCHANGED <<blockno, valid, lock, data, disk, queuevars, used_idx, vdisk_lock, devvars,
                     head, pinned, bounds, panic>>

----------------------------------------------------------------------------
(***************************************************************************)
(* virtio_disk.c                                                           *)
(***************************************************************************)

\* wakeup(): those who sleep at l go on at m.
Awake(pcs, l, m) == [p \in DOMAIN pcs |-> IF pcs[p] = l THEN m ELSE pcs[p]]

\* alloc_desc() up to n times: the lowest free descriptors.
Lowest(n) == LET S == {d \in Desc : free[d]}
             IN  [k \in 1 .. IF Cardinality(S) < n THEN Cardinality(S) ELSE n |->
                    CHOOSE d \in S : Cardinality({e \in S : e < d}) = k - 1]

\* virtio_disk_rw(): pc says whether p reads or writes, and whether it is here
\* for the first time or has slept on disk.free[0].
Wants(p) == IF pc[p] \in {"read", "readagain"} THEN "read" ELSE "write"
Wanting == {"read", "readagain", "write", "writeagain"}

\* Not enough descriptors: those that were allocated are freed, which wakes all
\* who wait for some, and p sleeps.
RwNoDesc(p) ==
  /\ pc[p] \in Wanting /\ At(p, pc[p]) /\ vdisk_lock = "none" /\ Len(Lowest(3)) < 3
  /\ pc' = [IF Lowest(3) = <<>> THEN pc
            ELSE Awake(Awake(pc, "read-sleep", "readagain"), "write-sleep", "writeagain")
            EXCEPT ![p] = IF Wants(p) = "read" THEN "read-sleep" ELSE "write-sleep"]
  /\ UNCHANGED <<cachevars, data, disk, queuevars, used_idx, vdisk_lock, devvars, buf, head,
                 pinned, bounds, panic>>

\* The three descriptors of a request: its header, the data, the status.
Chain(idx, b, write) ==
  [d \in Desc |->
     CASE d = idx[1] -> [addr |-> <<"op", IF write THEN "OUT" ELSE "IN", blockno[b]>>,
                         flags |-> {"NEXT"}, next |-> idx[2]]
       [] d = idx[2] -> [addr |-> <<"data", b>>, next |-> idx[3],
                         flags |-> {"NEXT"} \union IF write THEN {} ELSE {"WRITE"}]
       [] d = idx[3] -> [addr |-> <<"status", idx[1]>>, flags |-> {"WRITE"}, next |-> 0]
       [] OTHER -> desc[d]]

\* The request is made and p sleeps on its buffer.
RwStart(p) ==
  LET b == buf[p]
      idx == Lowest(3)
  IN  /\ pc[p] \in Wanting /\ At(p, pc[p]) /\ vdisk_lock = "none" /\ Len(idx) = 3
      /\ free' = [d \in Desc |-> free[d] /\ d \notin Range(idx)]
      /\ desc' = Chain(idx, b, Wants(p) = "write")
      /\ disk' = [disk EXCEPT ![b] = TRUE]
      /\ info' = [info EXCEPT ![idx[1]] = [b |-> b, ok |-> FALSE]]
      /\ avail' = [idx |-> (avail.idx + 1) % UINT16,
                   ring |-> [avail.ring EXCEPT ![avail.idx % NUM] = idx[1]]]
      /\ head' = [head EXCEPT ![p] = idx[1]]
      /\ Goto(p, IF Wants(p) = "read" THEN "read-wait" ELSE "write-wait")
      /\ UNCHANGED <<cachevars, data, used_idx, vdisk_lock, devvars, buf, pinned, bounds, panic>>

\* free_chain(): the descriptors from d on, and whether free_desc() panics.
ChainOf(d) ==
  LET next(e) == IF "NEXT" \in desc[e].flags THEN {desc[e].next} ELSE {}
  IN  {d} \union next(d) \union UNION {next(e) : e \in next(d)}

\* Awake after virtio_disk_intr(): b->disk is tested again, the chain is freed,
\* and bread() sets valid.
RwDone_HeadOnly(p) ==
  LET b == buf[p]
      read == pc[p] = "read-done"
  IN  /\ pc[p] \in {"read-done", "write-done"} /\ At(p, pc[p]) /\ vdisk_lock = "none"
      /\ free' = [d \in Desc |-> free[d] \/ d = head[p]]
      /\ desc' = [desc EXCEPT ![head[p]] = NoDesc]
      /\ info' = [info EXCEPT ![head[p]].b = 0]
      /\ panic' = free[head[p]]
      /\ valid' = [valid EXCEPT ![b] = @ \/ read]
      /\ pc' = [Awake(Awake(pc, "read-sleep", "readagain"), "write-sleep", "writeagain")
                EXCEPT ![p] = IF read THEN "has" ELSE "written"]
      /\ UNCHANGED <<lru, blockno, refcnt, lock, data, disk, avail, used_idx, vdisk_lock,
                     devvars, buf, head, pinned, bounds>>
RwDone(p) ==
  LET b == buf[p]
      chain == ChainOf(head[p])
      read == pc[p] = "read-done"
  IN  /\ pc[p] \in {"read-done", "write-done"} /\ At(p, pc[p]) /\ vdisk_lock = "none"
      /\ free' = [d \in Desc |-> free[d] \/ d \in chain]
      /\ desc' = [d \in Desc |-> IF d \in chain THEN NoDesc ELSE desc[d]]
      /\ info' = [info EXCEPT ![head[p]].b = 0]
      /\ panic' = \E d \in chain : free[d]
      /\ valid' = [valid EXCEPT ![b] = @ \/ read]
      /\ pc' = [Awake(Awake(pc, "read-sleep", "readagain"), "write-sleep", "writeagain")
                EXCEPT ![p] = IF read THEN "has" ELSE "written"]
      /\ UNCHANGED <<lru, blockno, refcnt, lock, data, disk, avail, used_idx, vdisk_lock,
                     devvars, buf, head, pinned, bounds>>

\* virtio_disk_intr(): the acknowledgement, then one entry of the used ring at
\* a time while the device goes on adding entries.
Intr ==
  /\ ~panic /\ isr /\ vdisk_lock = "none"
  /\ vdisk_lock' = "intr" /\ isr' = FALSE
  /\ UNCHANGED <<cachevars, data, disk, queuevars, used_idx, media, taken, last_avail, used,
                 pc, buf, head, pinned, bounds, panic>>

IntrUsed ==
  LET id == used.ring[used_idx % NUM]
      b == info[id].b
  IN  /\ ~panic /\ vdisk_lock = "intr" /\ used_idx # used.idx
      /\ panic' = (~info[id].ok \/ b = 0)
      /\ disk' = [c \in Buf |-> disk[c] /\ c # b]
      /\ pc' = [p \in Proc |-> IF buf[p] # b THEN pc[p]
                               ELSE IF pc[p] = "read-wait" THEN "read-done"
                               ELSE IF pc[p] = "write-wait" THEN "write-done" ELSE pc[p]]
      /\ used_idx' = (used_idx + 1) % UINT16
      /\ UNCHANGED <<cachevars, data, queuevars, vdisk_lock, devvars, buf, head, pinned, bounds>>

IntrEnd_Early ==
  /\ ~panic /\ vdisk_lock = "intr"
  /\ vdisk_lock' = "none"
  /\ UNCHANGED <<cachevars, data, disk, queuevars, used_idx, devvars, pc, buf, head, pinned,
                 bounds, panic>>
IntrEnd ==
  /\ ~panic /\ vdisk_lock = "intr" /\ used_idx = used.idx
  /\ vdisk_lock' = "none"
  /\ UNCHANGED <<cachevars, data, disk, queuevars, used_idx, devvars, pc, buf, head, pinned,
                 bounds, panic>>

----------------------------------------------------------------------------
(***************************************************************************)
(* The device                                                              *)
(***************************************************************************)
\* The requests that the device has not done: those it knows of, and the new ones.
New == {avail.ring[(last_avail + k) % NUM] : k \in 0 .. ((avail.idx - last_avail) % UINT16) - 1}

\* The request at h is carried out and reported.
DevDo(h) ==
  LET op == desc[h].addr
      d == desc[desc[h].next]
      n == op[3]
      b == d.addr[2]
  IN  /\ ~panic /\ h \in taken \union New
      /\ \/ /\ op[2] = "OUT" /\ media' = [media EXCEPT ![n] = data[b]] /\ UNCHANGED data
         \/ /\ op[2] = "IN" /\ data' = [data EXCEPT ![b] = media[n]] /\ UNCHANGED media
      /\ info' = [info EXCEPT ![desc[d.next].addr[2]].ok = TRUE]
      /\ used' = [idx |-> (used.idx + 1) % UINT16,
                  ring |-> [used.ring EXCEPT ![used.idx % NUM] = h]]
      /\ taken' = (taken \union New) \ {h} /\ last_avail' = avail.idx
      /\ isr' = TRUE
      /\ UNCHANGED <<cachevars, disk, free, desc, avail, used_idx, vdisk_lock,
                     pc, buf, head, pinned, bounds, panic>>

----------------------------------------------------------------------------
\* A process in the kernel goes on; a new bread() is its own choice.
Step(p) == \/ Locked(p) \/ RwNoDesc(p) \/ RwStart(p) \/ RwDone(p) \/ Bunpin(p) \/ Brelse(p)
           \/ BrelseRef(p)
Calls(p) == \/ \E n \in Block : Bread(p, n)
            \/ \E v \in Value : Bwrite(p, v) \/ Bpin(p, v)
            \/ Install(p)
Handler == Intr \/ IntrUsed \/ IntrEnd
Device == \E h \in taken \union New : DevDo(h)

Next == (\E p \in Proc : Step(p) \/ Calls(p)) \/ Handler \/ Device

\* Processes run and the device answers, whatever the others do.
Fairness == /\ \A p \in Proc : WF_vars(Step(p))
            /\ WF_vars(Handler) /\ WF_vars(Device)

Spec == Init /\ [][Next]_vars /\ Fairness

----------------------------------------------------------------------------
(***************************************************************************)
(* Properties                                                              *)
(***************************************************************************)
TypeOK ==
  /\ Range(lru) = Buf /\ blockno \in [Buf -> Block \union {NoBlock}]
  /\ valid \in [Buf -> BOOLEAN] /\ refcnt \in [Buf -> Nat] /\ disk \in [Buf -> BOOLEAN]
  /\ data \in [Buf -> Value \union {Blank, NoValue}] /\ media \in [Block -> Value \union {Blank}]
  /\ lock \in [Buf -> Proc \union {NoProc}] /\ free \in [Desc -> BOOLEAN]
  /\ used_idx \in 0 .. UINT16 - 1 /\ taken \subseteq Desc

\* bget(), brelse(), bpin(), bunpin(): a block has at most one buffer, refcnt
\* counts exactly those who use the buffer or are about to, and the pin; so a
\* buffer is recycled only if nobody counts on it, and bget() gives up only if
\* that many blocks are really in use.
RefcntExact ==
  /\ \A b \in Buf : refcnt[b] = Cardinality({p \in Proc : buf[p] = b})
                                + Cardinality(pinned \intersect {blockno[b]})
  /\ \A b, c \in Buf : blockno[b] = blockno[c] /\ b # c => blockno[b] = NoBlock
  /\ \A p \in Proc : pc[p] \notin {"idle", "acquiresleep", "unref"} => lock[buf[p]] = p

\* virtio_disk_rw(), virtio_disk_intr(): a descriptor is free or in the chain of
\* exactly one request, the device owns a buffer from the request until its
\* completion is handled, and the driver's panics never happen (bget() alone
\* may, when every buffer is in use).
DescsExact ==
  LET waiting == {p \in Proc : pc[p] \in {"read-wait", "write-wait", "read-done", "write-done"}}
  IN  /\ TypeOK
      /\ \A d \in Desc : Cardinality({p \in waiting : d \in ChainOf(head[p])})
                         = IF free[d] THEN 0 ELSE 1
      /\ \A p \in waiting : /\ Cardinality(ChainOf(head[p])) = 3 /\ info[head[p]].b = buf[p]
                            /\ disk[buf[p]] = (pc[p] \in {"read-wait", "write-wait"})
      /\ panic => \E p \in Proc : pc[p] = "acquiresleep" /\ buf[p] = 0

\* The buffer cache implements BlockStore: whatever is recycled, pinned, read
\* or written at the same time, a block that bread() returns has the content
\* that the last process has left in it.
Has(p) == pc[p] \in {"has", "write", "write-sleep", "writeagain", "write-wait", "write-done",
                     "written", "brelse"}
Content(n) == LET c == {b \in Cached(n) : valid[b]}
              IN  IF c = {} THEN media[n] ELSE data[CHOOSE b \in c : TRUE]
BS == INSTANCE BlockStore WITH
        content <- [n \in Block |-> Content(n)],
        has <- [p \in Proc |-> IF Has(p) THEN blockno[buf[p]] ELSE NoBlock],
        seen <- [p \in Proc |-> IF Has(p) THEN data[buf[p]] ELSE NoValue]
ImplementsBlockStore == BS!Spec

\* Everyone who waits, for a buffer's lock, for descriptors or for the device,
\* goes on: again and again no call is in progress (the processes do not read
\* for ever), unless bget() has panicked.
CallsEnd == []<>(panic \/ \A p \in Proc : pc[p] = "idle")
=============================================================================
