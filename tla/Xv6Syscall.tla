----------------------------- MODULE Xv6Syscall -----------------------------
(***************************************************************************)
(* The system call counter of lab 3: syscall() (kernel/syscall.c), the     *)
(* field syscall_count of struct proc and sys_getsyscallcount(), together  *)
(* with what fork(), exit() and wait() do to the slot that the counter     *)
(* lives in.  Which process reaps which zombie is left open here; Xv6Proc  *)
(* has that.                                                               *)
(***************************************************************************)
EXTENDS Integers

CONSTANTS NPROC,     \* slots of the process table
          MaxCount,  \* bound of the model: calls counted in one slot
          None       \* no result yet

Slots == 1 .. NPROC
init == 1

SizeAssumption == NPROC \in Nat \ {0} /\ MaxCount \in Nat /\ None \notin Nat

VARIABLES
  state,          \* p->state: "UNUSED", "ZOMBIE", or alive
  call,           \* the system call p executes, "none" in user space
  syscall_count,  \* p->syscall_count
  done,           \* history: valid calls this process has completed
  last,           \* history: what getsyscallcount() returned to it last
  since           \* history: valid calls it has completed since, that one too

vars == <<state, call, syscall_count, done, last, since>>

\* The entries of syscalls[] that differ in what they do to this state.
Calls == {"fork", "exit", "wait", "getsyscallcount", "other"}

TypeOK ==
  /\ state \in [Slots -> {"UNUSED", "ALIVE", "ZOMBIE"}]
  /\ call \in [Slots -> Calls \union {"none"}]
  /\ syscall_count \in [Slots -> 0 .. MaxCount]
  /\ done \in [Slots -> 0 .. MaxCount]
  /\ last \in [Slots -> 0 .. MaxCount \union {None}]
  /\ since \in [Slots -> 0 .. MaxCount]

\* The table starts zeroed, with one process.
Init ==
  /\ state = [p \in Slots |-> IF p = init THEN "ALIVE" ELSE "UNUSED"]
  /\ call = [p \in Slots |-> "none"]
  /\ syscall_count = [p \in Slots |-> 0]
  /\ done = [p \in Slots |-> 0]
  /\ last = [p \in Slots |-> None]
  /\ since = [p \in Slots |-> 0]

----------------------------------------------------------------------------
Executes(p, c) == state[p] = "ALIVE" /\ call[p] = c

\* syscall() with a number in the table: the counter goes up, then the
\* handler is called.
Enter(p, c) ==
  /\ Executes(p, "none")
  /\ c = "exit" => p # init
  /\ syscall_count[p] < MaxCount
  /\ syscall_count' = [syscall_count EXCEPT ![p] = @ + 1]
  /\ call' = [call EXCEPT ![p] = c]
  /\ UNCHANGED <<state, done, last, since>>

\* The counter after syscall() with an unknown number, which returns -1.
AfterUnknown_Counted(p) ==
  IF syscall_count[p] < MaxCount
  THEN [syscall_count EXCEPT ![p] = @ + 1] ELSE syscall_count
AfterUnknown(p) == syscall_count

Unknown(p) ==
  /\ Executes(p, "none")
  /\ syscall_count' = AfterUnknown(p)
  /\ UNCHANGED <<state, call, done, last, since>>

\* The handler returns to user space.
Return(p) ==
  /\ call' = [call EXCEPT ![p] = "none"]
  /\ done' = [done EXCEPT ![p] = @ + 1]
  /\ since' = [since EXCEPT ![p] = @ + 1]

\* getpid(), read(), ...
Other(p) ==
  /\ Executes(p, "other") /\ Return(p)
  /\ UNCHANGED <<state, syscall_count, last>>

GetSyscallCount(p) ==
  /\ Executes(p, "getsyscallcount")
  /\ last' = [last EXCEPT ![p] = syscall_count[p]]
  /\ since' = [since EXCEPT ![p] = 0]
  /\ done' = [done EXCEPT ![p] = @ + 1]
  /\ call' = [call EXCEPT ![p] = "none"]
  /\ UNCHANGED <<state, syscall_count>>

\* allocproc() and fork() take a free slot; neither they nor freeproc() touch
\* its syscall_count.  The histories are those of the new process.
Fork(p) ==
  /\ Executes(p, "fork")
  /\ \E q \in Slots :
       /\ state[q] = "UNUSED"
       /\ state' = [state EXCEPT ![q] = "ALIVE"]
       /\ done' = [done EXCEPT ![p] = @ + 1, ![q] = 0]
       /\ since' = [since EXCEPT ![p] = @ + 1, ![q] = 0]
       /\ last' = [last EXCEPT ![q] = None]
  /\ call' = [call EXCEPT ![p] = "none"]
  /\ UNCHANGED syscall_count

ForkFail(p) ==
  /\ Executes(p, "fork") /\ Return(p)
  /\ UNCHANGED <<state, syscall_count, last>>

\* exit() does not return.
Exit(p) ==
  /\ Executes(p, "exit")
  /\ state' = [state EXCEPT ![p] = "ZOMBIE"]
  /\ call' = [call EXCEPT ![p] = "none"]
  /\ UNCHANGED <<syscall_count, done, last, since>>

\* wait() frees a zombie with freeproc(), or fails.
Wait(p) ==
  /\ Executes(p, "wait") /\ Return(p)
  /\ \/ \E q \in Slots : /\ state[q] = "ZOMBIE"
                        /\ state' = [state EXCEPT ![q] = "UNUSED"]
     \/ UNCHANGED state
  /\ UNCHANGED <<syscall_count, last>>

Next ==
  \E p \in Slots : \/ \E c \in Calls : Enter(p, c)
                  \/ Unknown(p) \/ Other(p) \/ GetSyscallCount(p)
                  \/ Fork(p) \/ ForkFail(p) \/ Exit(p) \/ Wait(p)

Spec == Init /\ [][Next]_vars

----------------------------------------------------------------------------
\* 1 while p is inside a counted call.
InCall(p) == IF call[p] = "none" THEN 0 ELSE 1

\* getsyscallcount(): the next answer exceeds the last one by the number of
\* valid calls from the one to the other, whatever other processes do, forked
\* children and reused slots included (TypeOK with it).
DifferencesExact ==
  /\ TypeOK
  /\ \A p \in Slots : state[p] = "ALIVE" /\ last[p] # None =>
       syscall_count[p] = last[p] + since[p] + InCall(p)

\* README of lab 3: "the number of valid system calls made by the current
\* process".  The counter of a process is the number of calls it has made.
CountsOwnCalls ==
  \A p \in Slots : state[p] = "ALIVE" => syscall_count[p] = done[p] + InCall(p)

=============================================================================
