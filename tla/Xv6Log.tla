------------------------------- MODULE Xv6Log -------------------------------
(***************************************************************************)
(* The log of the xv6 file system (kernel/log.c) with the part of the      *)
(* buffer cache it relies on (bpin(), bunpin() and eviction, kernel/bio.c) *)
(* and a disk that may lose power between any two block writes.            *)
(*                                                                         *)
(* A step is a critical section under log.lock, or the write of one disk   *)
(* block.  An operation modifies a block and calls log_write() while it    *)
(* holds the buffer's sleep lock, so that is one step.                     *)
(***************************************************************************)
EXTENDS Naturals, Sequences, FiniteSets

CONSTANTS Op,           \* processes that run file system calls
          Block,        \* home blocks
          Val,          \* contents of a block
          InitVal,      \* contents of every block at first
          MAXOPBLOCKS,  \* what begin_op() reserves for a call (param.h)
          LOGSIZE,      \* capacity of struct logheader (param.h)
          LogBlocks,    \* log.size, the superblock's nlog, header included
          OpBlocks,     \* most distinct blocks a file system call logs
          None          \* no block contents, no process

ASSUME OpAssumption == IsFiniteSet(Op) /\ None \notin Op
ASSUME BlockAssumption == IsFiniteSet(Block)
ASSUME ValAssumption == InitVal \in Val /\ None \notin Val
ASSUME SizeAssumption == /\ MAXOPBLOCKS \in Nat \ {0}
                         /\ LOGSIZE \in Nat \ {0}
                         /\ LogBlocks \in Nat
                         /\ OpBlocks \in 0 .. MAXOPBLOCKS

VARIABLES
  op,           \* where each process is: see below
  touched,      \* the blocks the current call of a process has logged
  outstanding,  \* log.outstanding
  committing,   \* log.committing
  lh,           \* log.lh: block[0 .. n-1] as a sequence
  cache,        \* buffers: contents, or None when the block is not cached
  pinned,       \* blocks whose buffer bpin() keeps
  home,         \* the disk's home blocks
  logd,         \* the disk's log blocks
  head,         \* the disk's log header block
  phase,        \* what commit() or recover_from_log() does next
  tail          \* the loop variable of write_log() and install_trans()

opvars == <<op, touched, outstanding, committing>>
bufvars == <<cache, pinned>>
diskvars == <<home, logd, head>>
comvars == <<phase, tail>>
vars == <<opvars, lh, bufvars, diskvars, comvars>>

(***************************************************************************)
(* op[o]:  "idle"    no file system call                                   *)
(*         "begin"   in begin_op(), about to test                          *)
(*         "asleep"  in begin_op(), sleeping on &log                       *)
(*         "active"  between begin_op() and end_op()                       *)
(*         "commit"  in end_op(), runs commit()                            *)
(* phase:  "none"    neither                                               *)
(*         "write"   write_log(), block tail                               *)
(*         "head"    the first write_head()                                *)
(*         "install" install_trans(0), block tail                          *)
(*         "clear"   log.lh.n = 0 and the second write_head()              *)
(*         "done"    commit() has returned                                 *)
(*         "boot"    initlog(), about to read_head()                       *)
(*         "replay"  install_trans(1), block tail                          *)
(*         "reset"   recover_from_log()'s write_head()                     *)
(***************************************************************************)
Phases == {"none", "write", "head", "install", "clear", "done", "boot",
           "replay", "reset"}

TypeOK ==
  /\ op \in [Op -> {"idle", "begin", "asleep", "active", "commit"}]
  /\ touched \in [Op -> SUBSET Block]
  /\ outstanding \in Nat
  /\ committing \in BOOLEAN
  /\ lh \in Seq(Block)
  /\ cache \in [Block -> Val \union {None}]
  /\ pinned \in SUBSET Block
  /\ home \in [Block -> Val]
  /\ logd \in [1 .. LOGSIZE -> Val]
  /\ head \in Seq(Block)
  /\ phase \in Phases
  /\ tail \in 1 .. LOGSIZE + 1

\* A system that has booted from a disk with an empty log.
Init ==
  /\ op = [o \in Op |-> "idle"]
  /\ touched = [o \in Op |-> {}]
  /\ outstanding = 0
  /\ committing = FALSE
  /\ lh = <<>>
  /\ cache = [b \in Block |-> None]
  /\ pinned = {}
  /\ home = [b \in Block |-> InitVal]
  /\ logd = [i \in 1 .. LOGSIZE |-> InitVal]
  /\ head = <<>>
  /\ phase = "none"
  /\ tail = 1

----------------------------------------------------------------------------
Logged == {lh[i] : i \in 1 .. Len(lh)}

\* What bread(b) returns.
Contents(b) == IF cache[b] = None THEN home[b] ELSE cache[b]

\* The file system is up: recovery is done.
Up == phase \notin {"boot", "replay", "reset"}

\* wakeup(&log)
Awake_Nobody == op
Awake == [o \in Op |-> IF op[o] = "asleep" THEN "begin" ELSE op[o]]

\* The buffer cache.  Any block may be read in, and any buffer that nobody
\* holds may be recycled by bget().
Read(b) ==
  /\ Up /\ cache[b] = None
  /\ cache' = [cache EXCEPT ![b] = home[b]]
  /\ UNCHANGED <<opvars, lh, pinned, comvars, diskvars>>

Evict(b) ==
  /\ cache[b] # None /\ b \notin pinned
  /\ cache' = [cache EXCEPT ![b] = None]
  /\ UNCHANGED <<opvars, lh, pinned, comvars, diskvars>>

----------------------------------------------------------------------------
\* A process starts a file system call.
Call(o) ==
  /\ Up /\ op[o] = "idle"
  /\ op' = [op EXCEPT ![o] = "begin"]
  /\ UNCHANGED <<touched, outstanding, committing, lh, bufvars, comvars,
                 diskvars>>

\* begin_op()'s two reasons to wait.
Reserved == (outstanding + 1) * MAXOPBLOCKS
MustWait_IgnoreLogged == committing \/ Reserved > LOGSIZE
MustWait == committing \/ Len(lh) + Reserved > LOGSIZE

BeginSleep(o) ==
  /\ op[o] = "begin" /\ MustWait
  /\ op' = [op EXCEPT ![o] = "asleep"]
  /\ UNCHANGED <<touched, outstanding, committing, lh, bufvars, comvars,
                 diskvars>>

BeginOp(o) ==
  /\ op[o] = "begin" /\ ~MustWait
  /\ op' = [op EXCEPT ![o] = "active"]
  /\ touched' = [touched EXCEPT ![o] = {}]
  /\ outstanding' = outstanding + 1
  /\ UNCHANGED <<committing, lh, bufvars, comvars, diskvars>>

\* kill() wakes a process that sleeps in begin_op(); it tests again.
Kill(o) ==
  /\ op[o] = "asleep"
  /\ op' = [op EXCEPT ![o] = "begin"]
  /\ UNCHANGED <<touched, outstanding, committing, lh, bufvars, comvars,
                 diskvars>>

\* log_write()'s panic("too big a transaction").
TooBig == Len(lh) >= LOGSIZE \/ Len(lh) >= LogBlocks - 1

\* log_write(): absorb a block that is in the log already, or append it.
Absorbed(b) == IF b \in Logged THEN lh ELSE Append(lh, b)

\* bpin() of a block new to the log.
Pinned_Not(b) == pinned
Pinned(b) == pinned \union {b}

\* A call changes block b to v and logs it; it logs at most OpBlocks blocks,
\* each as often as it likes.
LogWrite(o, b, v) ==
  /\ op[o] = "active"
  /\ Cardinality(touched[o] \union {b}) <= OpBlocks
  /\ ~TooBig
  /\ cache' = [cache EXCEPT ![b] = v]
  /\ touched' = [touched EXCEPT ![o] = @ \union {b}]
  /\ lh' = Absorbed(b)
  /\ pinned' = IF b \in Logged THEN pinned ELSE Pinned(b)
  /\ UNCHANGED <<op, outstanding, committing, comvars, diskvars>>

\* end_op() of a call that is not the last: begin_op() may have room now.
EndOp(o) ==
  /\ op[o] = "active" /\ outstanding > 1
  /\ outstanding' = outstanding - 1
  /\ op' = [Awake EXCEPT ![o] = "idle"]
  /\ UNCHANGED <<touched, committing, lh, bufvars, comvars, diskvars>>

\* end_op() of the last call: commit() if anything was logged.
EndOpCommit(o) ==
  /\ op[o] = "active" /\ outstanding = 1
  /\ outstanding' = 0
  /\ committing' = TRUE
  /\ op' = [op EXCEPT ![o] = "commit"]
  /\ phase' = IF lh = <<>> THEN "done" ELSE "write"
  /\ tail' = 1
  /\ UNCHANGED <<touched, lh, bufvars, diskvars>>

----------------------------------------------------------------------------
(***************************************************************************)
(* commit(), run by the one process in "commit"                            *)
(***************************************************************************)

\* write_log(): cache block to log block.
WriteLog ==
  /\ phase = "write"
  /\ logd' = [logd EXCEPT ![tail] = Contents(lh[tail])]
  /\ tail' = IF tail < Len(lh) THEN tail + 1 ELSE 1
  /\ phase' = IF tail < Len(lh) THEN "write" ELSE "head"
  /\ UNCHANGED <<opvars, lh, bufvars, home, head>>

\* write_head(): the commit point.
WriteHead ==
  /\ phase = "head"
  /\ head' = lh
  /\ phase' = "install"
  /\ UNCHANGED <<opvars, lh, bufvars, home, logd, tail>>

\* install_trans(0): log block to home block, through the cache, and unpin.
Install ==
  /\ phase = "install"
  /\ home' = [home EXCEPT ![lh[tail]] = logd[tail]]
  /\ cache' = [cache EXCEPT ![lh[tail]] = logd[tail]]
  /\ pinned' = pinned \ {lh[tail]}
  /\ tail' = IF tail < Len(lh) THEN tail + 1 ELSE 1
  /\ phase' = IF tail < Len(lh) THEN "install" ELSE "clear"
  /\ UNCHANGED <<opvars, lh, logd, head>>

\* log.lh.n = 0 and write_head(): the log is empty again.
Clear ==
  /\ phase = "clear"
  /\ lh' = <<>>
  /\ head' = <<>>
  /\ phase' = "done"
  /\ UNCHANGED <<opvars, bufvars, home, logd, tail>>

\* end_op(): commit() is done, let begin_op() go on.
EndCommit(o) ==
  /\ op[o] = "commit" /\ phase = "done"
  /\ committing' = FALSE
  /\ phase' = "none"
  /\ op' = [Awake EXCEPT ![o] = "idle"]
  /\ UNCHANGED <<touched, outstanding, lh, bufvars, tail, diskvars>>

----------------------------------------------------------------------------
(***************************************************************************)
(* A crash, and initlog() on the way up                                    *)
(***************************************************************************)
Crash ==
  /\ op' = [o \in Op |-> "idle"]
  /\ touched' = [o \in Op |-> {}]
  /\ outstanding' = 0 /\ committing' = FALSE
  /\ lh' = <<>>
  /\ cache' = [b \in Block |-> None] /\ pinned' = {}
  /\ phase' = "boot" /\ tail' = 1
  /\ UNCHANGED diskvars

\* read_head()
ReadHead ==
  /\ phase = "boot"
  /\ lh' = head
  /\ phase' = IF head = <<>> THEN "reset" ELSE "replay"
  /\ UNCHANGED <<opvars, bufvars, tail, diskvars>>

\* install_trans(1)
Replay ==
  /\ phase = "replay"
  /\ home' = [home EXCEPT ![lh[tail]] = logd[tail]]
  /\ cache' = [cache EXCEPT ![lh[tail]] = logd[tail]]
  /\ tail' = IF tail < Len(lh) THEN tail + 1 ELSE 1
  /\ phase' = IF tail < Len(lh) THEN "replay" ELSE "reset"
  /\ UNCHANGED <<opvars, lh, pinned, logd, head>>

\* log.lh.n = 0 and write_head(); the first process goes to user space.
Reset ==
  /\ phase = "reset"
  /\ lh' = <<>>
  /\ head' = <<>>
  /\ phase' = "none"
  /\ UNCHANGED <<opvars, bufvars, home, logd, tail>>

----------------------------------------------------------------------------
CommitStep == WriteLog \/ WriteHead \/ Install \/ Clear
Recover == ReadHead \/ Replay \/ Reset

\* What a process does inside begin_op() and end_op().
OpStep(o) == \/ BeginSleep(o) \/ BeginOp(o) \/ EndOp(o) \/ EndOpCommit(o)
             \/ EndCommit(o)

Next ==
  \/ \E o \in Op : \/ Call(o) \/ OpStep(o) \/ Kill(o)
                   \/ \E b \in Block, v \in Val : LogWrite(o, b, v)
  \/ \E b \in Block : Read(b) \/ Evict(b)
  \/ CommitStep \/ Recover \/ Crash

Spec == Init /\ [][Next]_vars

----------------------------------------------------------------------------
(***************************************************************************)
(* Properties                                                              *)
(***************************************************************************)

\* log_write() never panics with "too big a transaction": whatever the calls in
\* progress, and those that ended since the last commit, have logged, a call in
\* progress can log a block.
LogSpace == (\E o \in Op : op[o] = "active") => ~TooBig

\* begin_op()/end_op(): nobody sleeps on &log without a call in progress or a
\* commit that will wake it.
SleeperHasWaker ==
  (\E o \in Op : op[o] = "asleep") => outstanding > 0 \/ committing

\* What a crash at this instant would leave: the home blocks, overlaid by the
\* log if its header is not empty.
Durable == [b \in Block |->
              IF \E i \in 1 .. Len(head) : head[i] = b
              THEN logd[CHOOSE i \in 1 .. Len(head) : head[i] = b]
              ELSE home[b]]

\* What the running system sees; during recovery, what it is about to see.
Seen == IF Up THEN [b \in Block |-> Contents(b)] ELSE Durable

Abs == INSTANCE AtomicDisk WITH
         mem <- Seen,
         stable <- Durable,
         active <- {o \in Op : op[o] = "active"}

\* log.c: a crash at any point, during recovery too, leaves every call that
\* was committed whole and none in part; eviction, absorption and the order
\* of the block writes never show.
ImplementsAtomicDisk == Abs!Spec
=============================================================================
