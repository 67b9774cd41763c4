------------------------------ MODULE Xv6Trap ------------------------------
(***************************************************************************)
(* Traps, the clock and sleep(n) of xv6: usertrap(), usertrapret(),        *)
(* kerneltrap(), devintr() and clockintr() (kernel/trap.c) with the        *)
(* assembly they are reached and left through (trampoline.S, kernelvec.S), *)
(* the scheduler, and sys_sleep() (sysproc.c).                             *)
(*                                                                         *)
(* A hart has one set of trap registers; a thread, a process or a hart's   *)
(* scheduler, has its own idea of where it is.  Whatever is interrupted,   *)
(* nested, preempted and continued on another hart has to go on where it   *)
(* was.  A place in the code is a tuple: <<"user", n>>, or a label of the  *)
(* kernel.  A trap is taken between two actions, where interrupts are on.  *)
(***************************************************************************)
EXTENDS Integers

CONSTANTS Hart,      \* 0 .. n - 1; hart 0 counts the ticks
          Proc,      \* the processes, all of them forked already
          Naps,      \* the arguments of sleep()
          Length,    \* bound of the model: instructions of a (cyclic) user program
          UINT,      \* ticks wraps here
          None

ASSUME TrapAssumption ==
  /\ Hart \subseteq Nat /\ Proc \intersect Hart = {}
  /\ Naps \subseteq Int /\ Length \in Nat \ {0} /\ UINT \in Nat \ {0, 1}
  /\ None \notin Proc \union Nat \union {<<"user", n>> : n \in 0 .. Length - 1}

VARIABLES
  cpu,        \* cpu[h]: the thread it runs, its registers, and intena of struct cpu
  th,         \* th[t]: the state, place and locals of a thread
  tickslock,  \* the thread that holds it, or None
  ticks,
  panic,
  due         \* history: due[t].user and .kernel, where t was interrupted

vars == <<cpu, th, tickslock, ticks, panic, due>>

Thread == Proc \union Hart
UserPc == {<<"user", n>> : n \in 0 .. Length - 1}
After(pc) == <<"user", (pc[2] + 1) % Length>>

On(h) == cpu[h].on
At(h, l) == ~panic /\ cpu[h].mode = "S" /\ th[On(h)].at = <<l>>
Others == UNCHANGED <<tickslock, ticks, panic, due>>

\* The locals: epc, hartid and regs are the trapframe's, sepc, spp and spie those of
\* kerneltrap(), elapsed is a history, the ticks since ticks0.
Thread0 == [state |-> "RUNNABLE", at |-> <<"forkret">>, killed |-> FALSE, intena |-> FALSE,
            epc |-> <<"user", 0>>, hartid |-> None, regs |-> None, dev |-> 0,
            sepc |-> None, spp |-> "S", spie |-> FALSE, n |-> 0, ticks0 |-> None, elapsed |-> 0,
            found |-> FALSE]

\* main(): trapinithart(), then scheduler() with interrupts on.
Init ==
  /\ cpu = [h \in Hart |->
              [on |-> h, mode |-> "S", stvec |-> "kernelvec", sepc |-> None,
               spp |-> "U", spie |-> TRUE, sie |-> TRUE, scause |-> None, tp |-> h,
               intena |-> FALSE]]
  /\ th = [t \in Thread |-> IF t \in Proc THEN [Thread0 EXCEPT !.regs = t]
                           ELSE [Thread0 EXCEPT !.at = <<"scan">>]]
  /\ tickslock = None /\ ticks = UINT - 1 /\ panic = FALSE
  /\ due = [t \in Thread |-> [user |-> IF t \in Proc THEN <<"user", 0>> ELSE None, kernel |-> None]]

----------------------------------------------------------------------------
(***************************************************************************)
(* The hardware: a trap saves pc, mode and the interrupt enable in the     *)
(* hart's registers and jumps to stvec.  An interrupt is taken in user     *)
(* mode, or when sie is on; at wfi the pc is that of the next round.       *)
(***************************************************************************)
\* p is in sys_sleep().
Napping(p) == th[p].ticks0 # None

\* Assumed of the scheduler: a process looks at ticks, when its sleep() is over,
\* before they have gone round.
Punctual == \A p \in Proc : Napping(p) => th[p].elapsed < UINT - 1

Pc(h) == IF th[On(h)].at = <<"wfi">> THEN <<"scan">> ELSE th[On(h)].at

Trap(h, cause) ==
  LET c == cpu[h]
      t == c.on
  IN  /\ ~panic
      /\ c.mode = "U" \/ (c.sie /\ cause \in {"timer", "external"})
      /\ (h = 0 /\ cause = "timer") => Punctual
      /\ cpu' = [cpu EXCEPT ![h].sepc = Pc(h), ![h].spp = c.mode, ![h].spie = c.sie,
                            ![h].sie = FALSE, ![h].mode = "S", ![h].scause = cause]
      /\ th' = [th EXCEPT ![t].at = <<c.stvec>>]
      /\ due' = IF c.mode = "S" THEN [due EXCEPT ![t].kernel = Pc(h)]
                ELSE [due EXCEPT ![t].user = IF cause = "ecall" THEN After(th[t].at) ELSE th[t].at]
      /\ UNCHANGED <<tickslock, ticks, panic>>

\* sret with the registers of c.  What is left in a register or a local that is
\* written before it is read again is None, here and below.
Sret(c) == [c EXCEPT !.mode = c.spp, !.sie = c.spie, !.sepc = None, !.spp = "U", !.spie = TRUE,
                     !.scause = None]

\* The user program; its tp is its own.
UserStep(h) ==
  /\ ~panic /\ cpu[h].mode = "U"
  /\ th' = [th EXCEPT ![On(h)].at = After(@)]
  /\ UNCHANGED cpu /\ Others

----------------------------------------------------------------------------
(***************************************************************************)
(* scheduler(), sched() and swtch(): tp stays the hart's.                  *)
(***************************************************************************)
PushOff(c) == [c EXCEPT !.intena = c.sie, !.sie = FALSE]
PopOff(c) == [c EXCEPT !.sie = c.intena, !.intena = FALSE]

\* swtch() to p, which releases p->lock; in forkret() intena is still that of
\* the scheduler's acquire().
Dispatch(h, p) ==
  LET c == PushOff(cpu[h])
  IN  /\ At(h, "scan") /\ th[p].state = "RUNNABLE"
      /\ cpu' = [cpu EXCEPT ![h] = PopOff([c EXCEPT !.on = p,
                   !.intena = IF th[p].at = <<"forkret">> THEN @ ELSE th[p].intena])]
      /\ th' = [th EXCEPT ![p].state = "RUNNING", ![p].intena = FALSE,
                          ![p].at = IF @ = <<"forkret">> THEN <<"userret">> ELSE @]
      /\ Others

\* sched() by the process of hart h, which holds only p->lock: p goes on at
\* label l one day, the scheduler releases the lock and goes on at once.
Sched(h, c, p, st, l) ==
  /\ cpu' = [cpu EXCEPT ![h] = PopOff([c EXCEPT !.on = h])]
  /\ th' = [th EXCEPT ![p].state = st, ![p].at = <<l>>, ![p].intena = c.intena, ![p].dev = 0,
                      ![h].found = TRUE]

\* The end of the table: intr_on(), for the next round or, if there was nothing
\* to run, for wfi.
IntrOn(c) == [c EXCEPT !.sie = TRUE]

ScanEnd(h) ==
  /\ At(h, "scan")
  /\ cpu' = [cpu EXCEPT ![h] = IntrOn(@)]
  /\ th' = [th EXCEPT ![h].at = IF th[h].found THEN <<"scan">> ELSE <<"wfi">>, ![h].found = FALSE]
  /\ Others

Yield(h, l) == Sched(h, PushOff(cpu[h]), On(h), "RUNNABLE", l)
Exit(h, c) == Sched(h, PushOff(c), On(h), "ZOMBIE", "zombie")

----------------------------------------------------------------------------
(***************************************************************************)
(* devintr() and clockintr()                                               *)
(***************************************************************************)
\* wakeup(&ticks), and the history.
Ticked_NoWakeup(s) ==
  [t \in Thread |-> IF t \notin Proc \/ ~Napping(t) THEN s[t] ELSE [s[t] EXCEPT !.elapsed = @ + 1]]
Ticked(s) ==
  [t \in Thread |->
     IF t \notin Proc \/ ~Napping(t) THEN s[t]
     ELSE [s[t] EXCEPT !.elapsed = @ + 1, !.state = IF @ = "SLEEPING" THEN "RUNNABLE" ELSE @]]

\* devintr() on the hart with registers c, whose thread goes on at l with
\* which_dev: 2 for the timer, 1 for a device, whose handler is not in here.
\* The hart whose cpuid(), that is tp, is 0 counts the ticks.
Devintr(c, s, l) ==
  LET counts == c.scause = "timer" /\ c.tp = 0
  IN  /\ counts => tickslock = None
      /\ ticks' = IF counts THEN (ticks + 1) % UINT ELSE ticks
      /\ th' = [(IF counts THEN Ticked(s) ELSE s) EXCEPT
                   ![c.on].at = <<l>>, ![c.on].dev = IF c.scause = "timer" THEN 2 ELSE 1]

----------------------------------------------------------------------------
(***************************************************************************)
(* Traps from user space                                                   *)
(***************************************************************************)
\* The assembly before usertrap() and after usertrapret(): the user's registers,
\* tp among them, go to the trapframe and come back from there.  tp stands for
\* all of them: it is the number of the hart or what the process has in it,
\* which is its own name.
Uservec(c, t) == [c EXCEPT !.tp = t.hartid]
UservecSaved(c, t) == [t EXCEPT !.regs = c.tp, !.hartid = None]
Userret(c, t) == Sret([c EXCEPT !.tp = t.regs])

Usertrap(h) ==
  LET p == On(h)
      c == [Uservec(cpu[h], th[p]) EXCEPT !.stvec = "kernelvec"]
      after == [c EXCEPT !.sepc = None, !.scause = None]
      saved == [th EXCEPT ![p] = [UservecSaved(cpu[h], @) EXCEPT !.epc = c.sepc]]
  IN  /\ At(h, "uservec")
      /\ panic' = (c.spp = "S")
      /\ CASE c.scause = "ecall" /\ th[p].killed -> Exit(h, after)
           [] c.scause = "ecall" /\ ~th[p].killed ->
                /\ cpu' = [cpu EXCEPT ![h] = [after EXCEPT !.sie = TRUE]]
                /\ th' = [saved EXCEPT ![p].epc = After(@), ![p].at = <<"syscall">>]
           [] c.scause = "fault" ->
                /\ cpu' = [cpu EXCEPT ![h] = after]
                /\ th' = [saved EXCEPT ![p].killed = TRUE, ![p].at = <<"endtrap">>]
           [] OTHER ->
                /\ cpu' = [cpu EXCEPT ![h] = after]
                /\ Devintr(c, saved, "endtrap")
      /\ c.scause \in {"ecall", "fault"} => UNCHANGED ticks
      /\ UNCHANGED <<tickslock, due>>

EndTrap(h) ==
  LET p == On(h)
  IN  /\ At(h, "endtrap")
      /\ IF th[p].killed THEN Exit(h, cpu[h])
         ELSE IF th[p].dev = 2 THEN Yield(h, "userret")
         ELSE th' = [th EXCEPT ![p].at = <<"userret">>, ![p].dev = 0] /\ UNCHANGED cpu
      /\ Others

\* usertrapret() in two steps: intr_off() and w_stvec(); the trapframe and the
\* registers.
IntrOff_Not(c) == c
IntrOff(c) == [c EXCEPT !.sie = FALSE]

Usertrapret(h) ==
  /\ At(h, "userret")
  /\ cpu' = [cpu EXCEPT ![h] = [IntrOff(@) EXCEPT !.stvec = "uservec"]]
  /\ th' = [th EXCEPT ![On(h)].at = <<"sret">>]
  /\ Others

UserSret(h) ==
  LET p == On(h)
  IN  /\ At(h, "sret")
      /\ cpu' = [cpu EXCEPT ![h] = Userret([@ EXCEPT !.spp = "U", !.spie = TRUE,
                                                     !.sepc = th[p].epc], th[p])]
      /\ th' = [th EXCEPT ![p].hartid = cpu[h].tp, ![p].at = th[p].epc, ![p].epc = None,
                          ![p].regs = None]
      /\ due' = [due EXCEPT ![p].user = None]
      /\ UNCHANGED <<tickslock, ticks, panic>>

----------------------------------------------------------------------------
(***************************************************************************)
(* Traps from the kernel                                                   *)
(***************************************************************************)
Kerneltrap(h) ==
  LET c == cpu[h]
      saved == [th EXCEPT ![c.on].sepc = c.sepc, ![c.on].spp = c.spp, ![c.on].spie = c.spie]
  IN  /\ At(h, "kernelvec")
      /\ panic' = (c.spp = "U" \/ c.sie)
      /\ Devintr(c, saved, "endkernel")
      /\ cpu' = [cpu EXCEPT ![h].scause = None]
      /\ UNCHANGED <<tickslock, due>>

KernelYield(h) ==
  /\ At(h, "endkernel") /\ th[On(h)].dev = 2 /\ On(h) \in Proc
  /\ Yield(h, "restore")
  /\ Others

\* w_sepc() and w_sstatus().
Restored_KeepsSepc(c, t) == [c EXCEPT !.spp = t.spp, !.spie = t.spie]
Restored(c, t) == [c EXCEPT !.sepc = t.sepc, !.spp = t.spp, !.spie = t.spie]

\* kernelvec saves the registers on the thread's stack and restores them, except
\* tp: the thread may have moved to another hart.
Kernelvec(c) == Sret(c)

Restore(h) ==
  LET t == On(h)
      c == Restored(cpu[h], th[t])
  IN  /\ At(h, "restore") \/ (At(h, "endkernel") /\ ~(th[t].dev = 2 /\ t \in Proc))
      /\ cpu' = [cpu EXCEPT ![h] = Kernelvec(c)]
      /\ th' = [th EXCEPT ![t].at = c.sepc, ![t].sepc = None, ![t].spp = "S", ![t].spie = FALSE,
                          ![t].dev = 0]
      /\ due' = [due EXCEPT ![t].kernel = None]
      /\ UNCHANGED <<tickslock, ticks, panic>>

----------------------------------------------------------------------------
(***************************************************************************)
(* System calls                                                            *)
(***************************************************************************)
\* Any call that does not sleep.
SysOther(h) ==
  /\ At(h, "syscall")
  /\ th' = [th EXCEPT ![On(h)].at = <<"endtrap">>]
  /\ UNCHANGED cpu /\ Others

SysUptime(h) ==
  /\ At(h, "syscall") /\ tickslock = None
  /\ th' = [th EXCEPT ![On(h)].at = <<"endtrap">>]
  /\ UNCHANGED cpu /\ Others

\* sys_sleep(n) up to the loop.
SysSleep(h, n) ==
  LET p == On(h)
  IN  /\ At(h, "syscall") /\ tickslock = None
      /\ tickslock' = p
      /\ cpu' = [cpu EXCEPT ![h] = PushOff(@)]
      /\ th' = [th EXCEPT ![p].n = IF n < 0 THEN 0 ELSE n, ![p].ticks0 = ticks,
                          ![p].elapsed = 0, ![p].at = <<"nap">>]
      /\ UNCHANGED <<ticks, panic, due>>

\* The test, in uint.
Early(p) == (ticks - th[p].ticks0) % UINT < th[p].n

\* The loop's tests, with tickslock held: on to sleep(), or out.
Nap(h) ==
  LET p == On(h)
  IN  /\ At(h, "nap") /\ tickslock = p
      /\ IF Early(p) /\ ~th[p].killed
         THEN th' = [th EXCEPT ![p].at = <<"doze">>] /\ UNCHANGED <<cpu, tickslock>>
         ELSE /\ tickslock' = None
              /\ cpu' = [cpu EXCEPT ![h] = PopOff(@)]
              /\ th' = [th EXCEPT ![p].at = <<"endtrap">>, ![p].n = 0, ![p].ticks0 = None,
                                  ![p].elapsed = 0]
      /\ UNCHANGED <<ticks, panic, due>>

\* sleep(&ticks, &tickslock), in which a process that is killed since the tests
\* sleeps all the same; the loop goes on with the lock taken again.
NapSleep(h) ==
  LET p == On(h)
  IN  /\ At(h, "doze") /\ tickslock = p
      /\ tickslock' = None
      /\ Sched(h, cpu[h], p, "SLEEPING", "napping")
      /\ UNCHANGED <<ticks, panic, due>>

NapLock(h) ==
  LET p == On(h)
  IN  /\ At(h, "napping") /\ tickslock = None
      /\ tickslock' = p
      /\ cpu' = [cpu EXCEPT ![h] = PushOff(@)]
      /\ th' = [th EXCEPT ![p].at = <<"nap">>]
      /\ UNCHANGED <<ticks, panic, due>>

\* kill() by somebody.
Kill(p) ==
  /\ ~panic /\ ~th[p].killed /\ th[p].state # "ZOMBIE"
  /\ th' = [th EXCEPT ![p].killed = TRUE,
                      ![p].state = IF @ = "SLEEPING" THEN "RUNNABLE" ELSE @]
  /\ UNCHANGED cpu /\ Others

----------------------------------------------------------------------------
Handler(h) == \/ Usertrap(h) \/ Kerneltrap(h) \/ KernelYield(h) \/ Restore(h) \/ UserSret(h)

Own(h) == \/ UserStep(h) \/ EndTrap(h) \/ Usertrapret(h)
          \/ SysOther(h) \/ SysUptime(h) \/ (\E n \in Naps : SysSleep(h, n))
          \/ Nap(h) \/ NapSleep(h) \/ NapLock(h)
          \/ (\E p \in Proc : Dispatch(h, p)) \/ ScanEnd(h)

Next == \/ \E h \in Hart : Handler(h) \/ Own(h)
                           \/ \E c \in {"timer", "external", "ecall", "fault"} : Trap(h, c)
        \/ \E p \in Proc : Kill(p)

\* The handlers go on; a thread that gets a hart again and again gets on, that
\* is, the time between two interrupts is longer than their handlers; a hart's
\* timer goes off again and again; the scan of the table comes to every process.
Run(t) == \E h \in Hart : On(h) = t /\ Own(h)
Fairness == /\ \A h \in Hart : WF_vars(Handler(h)) /\ SF_vars(Trap(h, "timer"))
            /\ \A t \in Thread : SF_vars(Run(t))
            /\ \A p \in Proc : SF_vars(\E h \in Hart : Dispatch(h, p))

Spec == Init /\ [][Next]_vars /\ Fairness

----------------------------------------------------------------------------
\* usertrap() and kerneltrap() never panic, interrupts are off in what they
\* must not interrupt, cpuid() is right everywhere in the kernel, also after
\* a move to another hart, a user program has its own registers, and a process
\* runs on one hart at a time.
TrapChecks ==
  /\ ~panic
  /\ \A h \in Hart : cpu[h].tp = IF cpu[h].mode = "U" \/ th[On(h)].at = <<"uservec">>
                                THEN On(h) ELSE h
  /\ \A g, h \in Hart : g # h => cpu[g].on # cpu[h].on

\* Control comes back to where it was taken from: in user space to the
\* interrupted instruction or behind the ecall, in the kernel to the
\* interrupted place, whatever ran in between on this hart or another.
ResumesWhereInterrupted ==
  [][\A h \in Hart :
       LET t == cpu[h].on
       IN  /\ (cpu[h].mode = "S" /\ cpu'[h].mode = "U") => th'[t].at = due[t].user
           /\ (due[t].kernel # None /\ due'[t].kernel = None) =>
                th'[t].at = due[t].kernel]_vars

\* sleep(n) returns to a process that was not killed after n ticks and no
\* sooner, across the wrap of ticks.
NoShortNap ==
  [][\A p \in Proc : th[p].at = <<"nap">> /\ th'[p].at = <<"endtrap">> /\ ~th[p].killed =>
       th[p].elapsed >= th[p].n]_vars

\* sys_sleep(): sleep(n) lasts as long as it should, and is over one day, also if
\* kill() comes between the test of killed() and sleep(), which does not see it.
SleepLasts == NoShortNap /\ \A p \in Proc : Napping(p) ~> ~Napping(p)

=============================================================================
