---------------------------- MODULE Xv6TrapProofs ---------------------------
(***************************************************************************)
(* Proofs about Xv6Trap, for any number of harts and processes, any user   *)
(* program and any width of ticks, and about the system call counter of    *)
(* Xv6Syscall (S of MCXv6Traps), for a process table of any size.          *)
(***************************************************************************)
EXTENDS MCXv6Traps, TLAPS

----------------------------------------------------------------------------
(***************************************************************************)
(* The inductive invariant of the traps                                    *)
(***************************************************************************)
Causes == {"timer", "external", "ecall", "fault"}

\* The places of a process in the kernel where interrupts may be on, the rest of
\* kerneltrap(), and those of usertrap() and usertrapret() around them.
Base == {<<"syscall">>, <<"endtrap">>, <<"userret">>, <<"napping">>}
Handling == {<<"kernelvec">>, <<"endkernel">>, <<"restore">>}
InKernel == Base \union Handling \union {<<"nap">>, <<"doze">>, <<"sret">>, <<"forkret">>}
ProcPlaces == UserPc \union InKernel \union {<<"uservec">>, <<"zombie">>}
HartPlaces == {<<"scan">>, <<"wfi">>, <<"kernelvec">>, <<"endkernel">>}
Places == ProcPlaces \union HartPlaces

Cpu == [on : Thread, mode : {"U", "S"}, stvec : {"kernelvec", "uservec"},
        sepc : Places \union {None}, spp : {"U", "S"}, spie : BOOLEAN, sie : BOOLEAN,
        scause : Causes \union {None}, tp : Thread \union {None}, intena : BOOLEAN]
ThreadType ==
  [state : {"RUNNABLE", "RUNNING", "SLEEPING", "ZOMBIE"}, at : Places, killed : BOOLEAN,
   intena : BOOLEAN, epc : UserPc \union {None}, hartid : Hart \union {None},
   regs : Thread \union {None}, dev : {0, 1, 2}, sepc : Places \union {None}, spp : {"U", "S"},
   spie : BOOLEAN, n : Nat, ticks0 : Nat \union {None}, elapsed : Nat, found : BOOLEAN]

TypeOK ==
  /\ cpu \in [Hart -> Cpu] /\ th \in [Thread -> ThreadType]
  /\ ticks \in 0 .. UINT - 1
  /\ due \in [Thread -> [user : UserPc \union {None}, kernel : Places \union {None}]]

\* The places at which an interrupt may find thread t in the kernel.
Interruptible(t) == IF t \in Proc THEN Base ELSE {<<"scan">>}

\* A hart: whom it runs, and what that thread's place says of the registers.
RegInv(c, h, t, at, d) ==
  /\ c.mode = "U" <=> at \in UserPc
  /\ c.tp = IF c.mode = "U" \/ at = <<"uservec">> THEN t ELSE h
  /\ c.stvec = IF c.mode = "U" \/ at \in {<<"uservec">>, <<"sret">>} THEN "uservec"
               ELSE "kernelvec"
  /\ at \in Handling \union {<<"uservec">>, <<"sret">>, <<"nap">>, <<"doze">>} => ~c.sie
  /\ at = <<"uservec">> =>
       /\ c.spp = "U" /\ c.scause \in Causes /\ c.sepc \in UserPc
       /\ d.user = IF c.scause = "ecall" THEN After(c.sepc) ELSE c.sepc
  /\ at = <<"kernelvec">> =>
       /\ c.spp = "S" /\ c.spie /\ c.scause \in {"timer", "external"}
       /\ c.sepc = d.kernel

HartInv(h) ==
  LET t == On(h)
  IN  /\ t = h \/ (t \in Proc /\ th[t].state = "RUNNING" /\ th[h].at = <<"scan">>)
      /\ th[t].at \notin {<<"forkret">>, <<"zombie">>}
      /\ th[t].at \in UserPc \union {<<"uservec">>} => th[t].hartid = h
      /\ RegInv(cpu[h], h, t, th[t].at, due[t])

\* A thread: what its trapframe and its kernel stack have saved.
SavedInv(s, t, d) ==
  /\ s.at \in IF t \in Proc THEN ProcPlaces ELSE HartPlaces
  /\ t \in Proc /\ s.at \in InKernel => s.epc = d.user /\ s.epc \in UserPc /\ s.regs = t
  /\ IF s.at \in Handling THEN d.kernel \in Interruptible(t) ELSE d.kernel = None
  /\ s.at \in {<<"endkernel">>, <<"restore">>} => s.sepc = d.kernel /\ s.spp = "S" /\ s.spie
  /\ t \in Proc /\ s.state # "RUNNING" =>
       s.at \in {<<"forkret">>, <<"userret">>, <<"restore">>, <<"napping">>, <<"zombie">>}
  /\ s.at = <<"restore">> /\ s.state # "RUNNING" => ~s.intena
  /\ t \in Proc => (s.at = <<"zombie">> <=> s.state = "ZOMBIE")

\* The clock: ticks have advanced by elapsed since sleep(n) began, and have not
\* gone round when they are about to be counted.
InNap(s, d) == \/ s.at \in {<<"nap">>, <<"doze">>, <<"napping">>}
               \/ s.at \in Handling /\ d.kernel = <<"napping">>
NapInv(s, d) ==
  /\ InNap(s, d) => s.ticks0 # None
  /\ s.ticks0 # None =>
       /\ s.ticks0 < UINT /\ s.elapsed < UINT
       /\ ticks - s.ticks0 \in {s.elapsed, s.elapsed - UINT}
Counting(h) == /\ h = 0 /\ cpu[h].scause = "timer"
               /\ th[On(h)].at \in {<<"uservec">>, <<"kernelvec">>}

ClockInv ==
  /\ \A p \in Proc : NapInv(th[p], due[p])
  /\ \A h \in Hart : Counting(h) => Punctual

TrapInv ==
  /\ TypeOK /\ ~panic
  /\ \A g, h \in Hart : g # h => On(g) # On(h)
  /\ \A h \in Hart : HartInv(h)
  /\ \A t \in Thread : SavedInv(th[t], t, due[t])

IInv == TrapInv /\ ClockInv

----------------------------------------------------------------------------
\* Places of user space and labels of the kernel are different things.
LEMMA PlacesDiffer == \A l, n : <<"user", n>> # <<l>>
  OBVIOUS

\* An instruction of a user program is no label of the kernel.
LEMMA NotUser ==
  \A pc \in UserPc : /\ pc \notin InKernel \union HartPlaces \union {<<"uservec">>, <<"zombie">>}
                    /\ pc \notin Handling \union {<<"uservec">>, <<"sret">>, <<"nap">>, <<"doze">>}
  BY PlacesDiffer DEF UserPc, InKernel, HartPlaces, Base, Handling

\* The next instruction of a user program is one of its instructions.
LEMMA AfterInUser == \A pc \in UserPc : After(pc) \in UserPc
<1> SUFFICES ASSUME NEW n \in 0 .. Length - 1 PROVE After(<<"user", n>>) \in UserPc
  BY DEF UserPc
<1>1. (n + 1) % Length \in 0 .. Length - 1
  BY TrapAssumption
<1> QED
  BY <1>1 DEF After, UserPc
----------------------------------------------------------------------------
(***************************************************************************)
(* The steps of a hart                                                     *)
(***************************************************************************)

\* What the invariant reads of a thread is the same in r and s, or it was woken.
Alike(r, s) ==
  /\ s.at = r.at /\ s.epc = r.epc /\ s.hartid = r.hartid /\ s.regs = r.regs
  /\ s.sepc = r.sepc /\ s.spp = r.spp /\ s.spie = r.spie /\ s.intena = r.intena
  /\ s.state = r.state \/ (r.state = "SLEEPING" /\ s.state = "RUNNABLE")

\* A thread that nobody runs or touches, but maybe wakes, is as it was.
LEMMA SavedFrame ==
  ASSUME NEW t \in Thread, NEW r, NEW s, NEW d, SavedInv(r, t, d), Alike(r, s)
  PROVE  SavedInv(s, t, d)
  BY DEF SavedInv, Alike

\* A step of hart h, which touches its own registers and the threads that run on
\* it before and after, keeps the invariant if it does so there.
LEMMA HartStep ==
  ASSUME TrapInv, NEW h \in Hart,
         TypeOK', ~panic',
         \A g \in Hart : g # h => cpu'[g] = cpu[g],
         \A t \in Thread : t # On(h) /\ t # h /\ t # On(h)' =>
           Alike(th[t], th'[t]) /\ due'[t] = due[t],
         On(h)' = On(h) \/ On(h)' = h
           \/ (On(h)' \in Proc /\ th[On(h)'].state = "RUNNABLE"),
         HartInv(h)',
         SavedInv(th[On(h)], On(h), due[On(h)])',
         SavedInv(th'[On(h)], On(h), due'[On(h)]),
         SavedInv(th'[h], h, due'[h])
  PROVE  TrapInv'
<1>0. /\ h \in Thread /\ On(h) \in Thread /\ On(h)' \in Thread
      /\ Proc \intersect Hart = {}
  BY TrapAssumption DEF TrapInv, TypeOK, Cpu, On, Thread
<1>1. ASSUME NEW g \in Hart, g # h
      PROVE  /\ On(g)' = On(g) /\ On(g) # h /\ On(g) # On(h) /\ On(g) # On(h)'
             /\ g # On(h) /\ g # On(h)'
             /\ On(g) \in Thread /\ g \in Thread
             /\ On(g) = g \/ (On(g) \in Proc /\ th[On(g)].state = "RUNNING")
  <2>1. On(g)' = On(g)
    BY <1>1 DEF On
  <2>2. /\ On(h) = h \/ On(h) \in Proc
        /\ On(g) = g \/ (On(g) \in Proc /\ th[On(g)].state = "RUNNING")
        /\ On(g) # On(h)
    BY <1>1 DEF TrapInv, HartInv
  <2> QED
    BY <1>0, <1>1, <2>1, <2>2 DEF Thread
<1>2. ASSUME NEW g \in Hart, g # h PROVE HartInv(g)'
  <2>1. /\ Alike(th[On(g)], th'[On(g)]) /\ due'[On(g)] = due[On(g)]
        /\ Alike(th[g], th'[g]) /\ cpu'[g] = cpu[g] /\ On(g)' = On(g)
    BY <1>1, <1>2
  <2>2. HartInv(g)
    BY DEF TrapInv
  <2> QED
    BY <2>1, <2>2 DEF HartInv, Alike
<1>3. ASSUME NEW t \in Thread PROVE SavedInv(th'[t], t, due'[t])
  <2>1. CASE t # On(h) /\ t # h /\ t # On(h)'
    <3>1. SavedInv(th[t], t, due[t])
      BY DEF TrapInv
    <3> QED
      BY <2>1, <3>1, SavedFrame
  <2> QED
    BY <2>1
<1>4. \A f, g \in Hart : f # g => On(f)' # On(g)'
  BY <1>1 DEF TrapInv
<1> QED
  BY <1>2, <1>3, <1>4 DEF TrapInv

\* What the invariant says where hart h runs thread t.
LEMMA HartFacts ==
  ASSUME TrapInv, NEW h \in Hart
  PROVE  /\ h \in Thread /\ On(h) \in Thread /\ h \notin Proc
         /\ cpu[h] \in Cpu /\ th[On(h)] \in ThreadType /\ th[h] \in ThreadType
         /\ On(h) = h \/ On(h) \in Proc
         /\ HartInv(h)
         /\ SavedInv(th[On(h)], On(h), due[On(h)]) /\ SavedInv(th[h], h, due[h])
  BY TrapAssumption DEF TrapInv, TypeOK, HartInv, On, Thread, Cpu

\* A step of hart h that goes on with the same thread.
LEMMA StayStep ==
  ASSUME TrapInv, NEW h \in Hart, NEW t \in Thread, t = On(h),
         TypeOK', ~panic',
         \A g \in Hart : g # h => cpu'[g] = cpu[g],
         \A s \in Thread : s # t => Alike(th[s], th'[s]) /\ due'[s] = due[s],
         cpu'[h].on = t, th'[t].state = th[t].state,
         th'[t].at \notin {<<"forkret">>, <<"zombie">>},
         th'[t].at \in UserPc \union {<<"uservec">>} => th'[t].hartid = h,
         RegInv(cpu'[h], h, t, th'[t].at, due'[t]),
         SavedInv(th'[t], t, due'[t])
  PROVE  TrapInv'
<1>1. On(h)' = t
  BY DEF On
<1>2. /\ HartInv(h) /\ h \in Thread
      /\ SavedInv(th[h], h, due[h])
  BY HartFacts
<1>3. HartInv(h)'
  BY <1>1, <1>2 DEF HartInv, Alike
<1>4. SavedInv(th'[h], h, due'[h])
  BY <1>2, SavedFrame
<1> QED
  BY <1>1, <1>3, <1>4, HartStep

\* The user program goes on.
LEMMA UserStepInv == ASSUME TrapInv, NEW h \in Hart, UserStep(h) PROVE TrapInv'
<1>1. PICK t \in Thread : t = On(h)
  BY HartFacts
<1>2. /\ cpu[h] \in Cpu /\ th[t] \in ThreadType /\ HartInv(h)
      /\ SavedInv(th[t], t, due[t]) /\ h \notin Proc
  BY <1>1, HartFacts
<1>3. /\ cpu[h].mode = "U" /\ th[t].at \in UserPc /\ cpu' = cpu /\ due' = due
      /\ th' = [th EXCEPT ![t] = [th[t] EXCEPT !.at = After(th[t].at)]]
      /\ UNCHANGED <<ticks, panic>>
  BY <1>1, <1>2 DEF UserStep, HartInv, RegInv, Others
<1>4. After(th[t].at) \in UserPc
  BY <1>3, AfterInUser
<1>5. /\ th'[t].at = After(th[t].at) /\ th'[t] = [th[t] EXCEPT !.at = After(th[t].at)]
      /\ th'[t] \in ThreadType
      /\ \A s \in Thread : s # t => th'[s] = th[s]
  BY ZenonT(60), <1>2, <1>3, <1>4 DEF TrapInv, TypeOK, ThreadType, Places, ProcPlaces
<1>6. TypeOK'
  BY <1>3, <1>5 DEF TypeOK, TrapInv
<1>7. RegInv(cpu'[h], h, t, th'[t].at, due'[t])
  <2>1. /\ th'[t].at \in UserPc
        /\ th'[t].at \notin Handling \union {<<"uservec">>, <<"sret">>, <<"nap">>, <<"doze">>,
                                             <<"kernelvec">>}
    BY <1>4, <1>5, NotUser DEF Handling
  <2> QED
    BY <1>1, <1>2, <1>3, <2>1 DEF HartInv, RegInv
<1>8. SavedInv(th'[t], t, due'[t])
  <2>1. th[t].at \notin HartPlaces \union InKernel \union {<<"zombie">>}
    BY <1>3, NotUser
  <2>2. th'[t].at \notin HartPlaces \union InKernel \union {<<"zombie">>}
    BY <1>4, <1>5, NotUser
  <2>3. th'[t].state = th[t].state
    BY <1>2, <1>5 DEF ThreadType
  <2>4. t \in Proc
    BY <1>2, <2>1 DEF SavedInv
  <2>5. th'[t].state = "RUNNING"
    BY <1>1, <1>2, <2>3, <2>4 DEF HartInv
  <2>6. due'[t].kernel = None
    BY <1>2, <1>3, <2>1 DEF SavedInv, InKernel
  <2>7. th'[t].at \in ProcPlaces /\ th'[t].at \notin Handling
        /\ th'[t].at \notin {<<"endkernel">>, <<"restore">>}
    BY <1>4, <1>5, <2>2 DEF ProcPlaces, InKernel, Handling
  <2> QED
    BY <2>2, <2>4, <2>5, <2>6, <2>7 DEF SavedInv
<1>9. /\ th'[t].at \notin {<<"forkret">>, <<"zombie">>} /\ th'[t].hartid = h
      /\ th'[t].state = th[t].state
  BY <1>1, <1>2, <1>3, <1>4, <1>5, NotUser DEF HartInv, ThreadType, InKernel
<1>10. /\ \A s \in Thread : s # t => Alike(th[s], th'[s]) /\ due'[s] = due[s]
       /\ cpu'[h].on = t /\ ~panic'
       /\ \A g \in Hart : g # h => cpu'[g] = cpu[g]
  BY <1>1, <1>3, <1>5 DEF Alike, TrapInv, On
<1> QED
  BY <1>1, <1>6, <1>7, <1>8, <1>9, <1>10, StayStep

\* The places of a process in the kernel with no trap in progress there.
Plain == Base \union {<<"nap">>, <<"doze">>, <<"sret">>}

\* They are different from the others.
LEMMA PlainPlaces ==
  \A l \in Plain : /\ l \in InKernel /\ l \in ProcPlaces /\ l \in Places /\ l \notin UserPc
                   /\ l \notin Handling \union HartPlaces
                   /\ l \notin {<<"forkret">>, <<"zombie">>, <<"uservec">>}
  BY PlacesDiffer DEF Plain, InKernel, ProcPlaces, HartPlaces, Places, Base, Handling, UserPc

\* A process goes on from one of them to another.
LEMMA PlainStep ==
  ASSUME TrapInv, NEW h \in Hart, NEW t \in Proc, t = On(h), th[t].at \in Plain,
         TypeOK', ~panic', due' = due,
         \A g \in Hart : g # h => cpu'[g] = cpu[g],
         \A s \in Thread : s # t => Alike(th[s], th'[s]),
         th'[t].at \in Plain, th'[t].state = th[t].state,
         th'[t].epc = th[t].epc, th'[t].regs = th[t].regs,
         cpu'[h].on = t, cpu'[h].mode = "S", cpu'[h].tp = h,
         cpu'[h].stvec = IF th'[t].at = <<"sret">> THEN "uservec" ELSE "kernelvec",
         th'[t].at \in {<<"sret">>, <<"nap">>, <<"doze">>} => ~cpu'[h].sie
  PROVE  TrapInv'
<1>0. t \in Thread /\ h \notin Proc
  BY TrapAssumption DEF Thread
<1>1. HartInv(h) /\ SavedInv(th[t], t, due[t])
  BY HartFacts
<1>2. /\ th'[t].at \notin UserPc \union Handling
      /\ th'[t].at \in InKernel /\ th'[t].at \in ProcPlaces
      /\ th'[t].at \notin {<<"forkret">>, <<"zombie">>, <<"uservec">>, <<"restore">>,
                           <<"kernelvec">>, <<"endkernel">>}
  BY PlainPlaces DEF Handling
<1>3. RegInv(cpu'[h], h, t, th'[t].at, due'[t])
  BY <1>2 DEF RegInv
<1>4. /\ th[t].at \in InKernel /\ th[t].at \notin Handling /\ th[t].state = "RUNNING"
  BY <1>0, <1>1, PlainPlaces DEF HartInv
<1>5. SavedInv(th'[t], t, due'[t])
  BY <1>1, <1>2, <1>4 DEF SavedInv
<1> QED
  BY <1>0, <1>2, <1>3, <1>5, StayStep

\* The locals of sys_sleep().
LEMMA NapFields ==
  ASSUME NEW r \in ThreadType, NEW a \in Places, NEW n \in Nat, NEW z \in Nat \union {None},
         NEW e \in Nat, NEW q, q = [r EXCEPT !.n = n, !.ticks0 = z, !.elapsed = e, !.at = a]
  PROVE  q \in ThreadType
  BY DEF ThreadType

\* System calls that do not sleep.
LEMMA SysOtherInv ==
  ASSUME TrapInv, NEW h \in Hart, SysOther(h) \/ SysUptime(h)
  PROVE  TrapInv'
<1>1. PICK t \in Thread : t = On(h)
  BY HartFacts
<1>2. /\ cpu[h] \in Cpu /\ th[t] \in ThreadType /\ HartInv(h)
      /\ SavedInv(th[t], t, due[t])
  BY <1>1, HartFacts
<1>3. /\ cpu[h].mode = "S" /\ th[t].at = <<"syscall">> /\ due' = due
      /\ cpu' = cpu
      /\ th' = [th EXCEPT ![t] = [th[t] EXCEPT !.at = <<"endtrap">>]]
      /\ UNCHANGED <<ticks, panic>>
  BY <1>1, <1>2 DEF SysOther, SysUptime, At, Others
<1>4. /\ th'[t] = [th[t] EXCEPT !.at = <<"endtrap">>]
      /\ \A s \in Thread : s # t => th'[s] = th[s]
  BY <1>3 DEF TrapInv, TypeOK
<1>41. th'[t] \in ThreadType
  <2>1. <<"endtrap">> \in Places
    BY PlainPlaces DEF Plain, Base
  <2> QED
    BY <1>2, <1>4, <2>1 DEF ThreadType
<1>42. /\ th'[t].at = <<"endtrap">> /\ th'[t].state = th[t].state
       /\ th'[t].epc = th[t].epc /\ th'[t].regs = th[t].regs
  BY <1>2, <1>4 DEF ThreadType
<1>5. th[t].at \in Plain /\ th'[t].at \in Plain
  BY <1>3, <1>42 DEF Plain, Base
<1>6. t \in Proc
  BY <1>2, <1>5, PlainPlaces DEF SavedInv
<1>7. cpu[h].on = t /\ cpu[h].tp = h /\ cpu[h].stvec = "kernelvec"
  BY <1>1, <1>2, <1>3 DEF HartInv, RegInv, On
<1>8. /\ cpu'[h] \in Cpu
      /\ cpu'[h].on = t /\ cpu'[h].mode = "S" /\ cpu'[h].tp = h
      /\ cpu'[h].stvec = "kernelvec"
      /\ \A g \in Hart : g # h => cpu'[g] = cpu[g]
  BY <1>2, <1>3, <1>7 DEF TrapInv, TypeOK, Cpu
<1>9. TypeOK' /\ ~panic' /\ due' = due
  BY <1>3, <1>4, <1>41, <1>8 DEF TypeOK, TrapInv
<1>10. \A s \in Thread : s # t => Alike(th[s], th'[s])
  BY <1>4 DEF Alike
<1> QED
  BY <1>1, <1>42, <1>5, <1>6, <1>8, <1>9, <1>10, PlainStep

\* usertrapret() up to w_stvec().
LEMMA UsertrapretInv ==
  ASSUME TrapInv, NEW h \in Hart, Usertrapret(h)
  PROVE  TrapInv'
<1>1. PICK t \in Thread : t = On(h)
  BY HartFacts
<1>2. /\ cpu[h] \in Cpu /\ th[t] \in ThreadType /\ HartInv(h)
      /\ SavedInv(th[t], t, due[t])
  BY <1>1, HartFacts
<1>3. /\ cpu[h].mode = "S" /\ th[t].at = <<"userret">> /\ due' = due
      /\ cpu' = [cpu EXCEPT ![h] = [IntrOff(cpu[h]) EXCEPT !.stvec = "uservec"]]
      /\ th' = [th EXCEPT ![t] = [th[t] EXCEPT !.at = <<"sret">>]]
      /\ UNCHANGED <<ticks, panic>>
  BY <1>1, <1>2 DEF Usertrapret, At, Others
<1>4. /\ th'[t] = [th[t] EXCEPT !.at = <<"sret">>]
      /\ \A s \in Thread : s # t => th'[s] = th[s]
  BY <1>3 DEF TrapInv, TypeOK
<1>41. th'[t] \in ThreadType
  <2>1. <<"sret">> \in Places
    BY PlainPlaces DEF Plain, Base
  <2> QED
    BY <1>2, <1>4, <2>1 DEF ThreadType
<1>42. /\ th'[t].at = <<"sret">> /\ th'[t].state = th[t].state
       /\ th'[t].epc = th[t].epc /\ th'[t].regs = th[t].regs
  BY <1>2, <1>4 DEF ThreadType
<1>5. th[t].at \in Plain /\ th'[t].at \in Plain
  BY <1>3, <1>42 DEF Plain, Base
<1>6. t \in Proc
  BY <1>2, <1>5, PlainPlaces DEF SavedInv
<1>7. cpu[h].on = t /\ cpu[h].tp = h /\ cpu[h].stvec = "kernelvec"
  BY <1>1, <1>2, <1>3 DEF HartInv, RegInv, On
<1>8. /\ cpu'[h] \in Cpu
      /\ cpu'[h].on = t /\ cpu'[h].mode = "S" /\ cpu'[h].tp = h
      /\ cpu'[h].stvec = "uservec" /\ ~cpu'[h].sie
      /\ \A g \in Hart : g # h => cpu'[g] = cpu[g]
  BY <1>2, <1>3, <1>7 DEF TrapInv, TypeOK, Cpu, IntrOff
<1>9. TypeOK' /\ ~panic' /\ due' = due
  BY <1>3, <1>4, <1>41, <1>8 DEF TypeOK, TrapInv
<1>10. \A s \in Thread : s # t => Alike(th[s], th'[s])
  BY <1>4 DEF Alike
<1> QED
  BY <1>1, <1>42, <1>5, <1>6, <1>8, <1>9, <1>10, PlainStep

\* sys_sleep() up to the loop.
LEMMA SysSleepInv ==
  ASSUME TrapInv, NEW h \in Hart, NEW n \in Naps, SysSleep(h, n)
  PROVE  TrapInv'
<1>1. PICK t \in Thread : t = On(h)
  BY HartFacts
<1>2. /\ cpu[h] \in Cpu /\ th[t] \in ThreadType /\ HartInv(h)
      /\ SavedInv(th[t], t, due[t])
  BY <1>1, HartFacts
<1>3. /\ cpu[h].mode = "S" /\ th[t].at = <<"syscall">> /\ due' = due
      /\ cpu' = [cpu EXCEPT ![h] = PushOff(cpu[h])]
      /\ th' = [th EXCEPT ![t] = [th[t] EXCEPT !.n = IF n < 0 THEN 0 ELSE n, !.ticks0 = ticks,
             !.elapsed = 0, !.at = <<"nap">>]]
      /\ UNCHANGED <<ticks, panic>>
  BY <1>1, <1>2 DEF SysSleep, At
<1>4. /\ th'[t] = [th[t] EXCEPT !.n = IF n < 0 THEN 0 ELSE n, !.ticks0 = ticks,
             !.elapsed = 0, !.at = <<"nap">>]
      /\ \A s \in Thread : s # t => th'[s] = th[s]
  BY <1>3 DEF TrapInv, TypeOK
<1>41. th'[t] \in ThreadType
  <2>1. <<"nap">> \in Places
    BY PlainPlaces DEF Plain, Base
  <2>2. PICK m \in Nat, k \in Nat \union {None}, e \in Nat :
            m = (IF n < 0 THEN 0 ELSE n) /\ k = ticks /\ e = 0
    BY TrapAssumption DEF TrapInv, TypeOK
  <2>3. th'[t] = [th[t] EXCEPT !.n = m, !.ticks0 = k, !.elapsed = e, !.at = <<"nap">>]
    BY <1>4, <2>2
  <2> QED
    BY ZenonT(60), <1>2, <2>2, <2>3, <2>1 DEF ThreadType
<1>42. /\ th'[t].at = <<"nap">> /\ th'[t].state = th[t].state
       /\ th'[t].epc = th[t].epc /\ th'[t].regs = th[t].regs
  BY <1>2, <1>4 DEF ThreadType
<1>5. th[t].at \in Plain /\ th'[t].at \in Plain
  BY <1>3, <1>42 DEF Plain, Base
<1>6. t \in Proc
  BY <1>2, <1>5, PlainPlaces DEF SavedInv
<1>7. cpu[h].on = t /\ cpu[h].tp = h /\ cpu[h].stvec = "kernelvec"
  BY <1>1, <1>2, <1>3 DEF HartInv, RegInv, On
<1>8. /\ cpu'[h] \in Cpu
      /\ cpu'[h].on = t /\ cpu'[h].mode = "S" /\ cpu'[h].tp = h
      /\ cpu'[h].stvec = "kernelvec" /\ ~cpu'[h].sie
      /\ \A g \in Hart : g # h => cpu'[g] = cpu[g]
  BY <1>2, <1>3, <1>7 DEF TrapInv, TypeOK, Cpu, PushOff
<1>9. TypeOK' /\ ~panic' /\ due' = due
  BY <1>3, <1>4, <1>41, <1>8 DEF TypeOK, TrapInv
<1>10. \A s \in Thread : s # t => Alike(th[s], th'[s])
  BY <1>4 DEF Alike
<1> QED
  BY <1>1, <1>42, <1>5, <1>6, <1>8, <1>9, <1>10, PlainStep

\* sleep() returns with the lock taken again.
LEMMA NapLockInv ==
  ASSUME TrapInv, NEW h \in Hart, NapLock(h)
  PROVE  TrapInv'
<1>1. PICK t \in Thread : t = On(h)
  BY HartFacts
<1>2. /\ cpu[h] \in Cpu /\ th[t] \in ThreadType /\ HartInv(h)
      /\ SavedInv(th[t], t, due[t])
  BY <1>1, HartFacts
<1>3. /\ cpu[h].mode = "S" /\ th[t].at = <<"napping">> /\ due' = due
      /\ cpu' = [cpu EXCEPT ![h] = PushOff(cpu[h])]
      /\ th' = [th EXCEPT ![t] = [th[t] EXCEPT !.at = <<"nap">>]]
      /\ UNCHANGED <<ticks, panic>>
  BY <1>1, <1>2 DEF NapLock, At
<1>4. /\ th'[t] = [th[t] EXCEPT !.at = <<"nap">>]
      /\ \A s \in Thread : s # t => th'[s] = th[s]
  BY <1>3 DEF TrapInv, TypeOK
<1>41. th'[t] \in ThreadType
  <2>1. <<"nap">> \in Places
    BY PlainPlaces DEF Plain, Base
  <2> QED
    BY <1>2, <1>4, <2>1 DEF ThreadType
<1>42. /\ th'[t].at = <<"nap">> /\ th'[t].state = th[t].state
       /\ th'[t].epc = th[t].epc /\ th'[t].regs = th[t].regs
  BY <1>2, <1>4 DEF ThreadType
<1>5. th[t].at \in Plain /\ th'[t].at \in Plain
  BY <1>3, <1>42 DEF Plain, Base
<1>6. t \in Proc
  BY <1>2, <1>5, PlainPlaces DEF SavedInv
<1>7. cpu[h].on = t /\ cpu[h].tp = h /\ cpu[h].stvec = "kernelvec"
  BY <1>1, <1>2, <1>3 DEF HartInv, RegInv, On
<1>8. /\ cpu'[h] \in Cpu
      /\ cpu'[h].on = t /\ cpu'[h].mode = "S" /\ cpu'[h].tp = h
      /\ cpu'[h].stvec = "kernelvec" /\ ~cpu'[h].sie
      /\ \A g \in Hart : g # h => cpu'[g] = cpu[g]
  BY <1>2, <1>3, <1>7 DEF TrapInv, TypeOK, Cpu, PushOff
<1>9. TypeOK' /\ ~panic' /\ due' = due
  BY <1>3, <1>4, <1>41, <1>8 DEF TypeOK, TrapInv
<1>10. \A s \in Thread : s # t => Alike(th[s], th'[s])
  BY <1>4 DEF Alike
<1> QED
  BY <1>1, <1>42, <1>5, <1>6, <1>8, <1>9, <1>10, PlainStep

\* The loop of sys_sleep() ends.
LEMMA NapOverInv ==
  ASSUME TrapInv, NEW h \in Hart, Nap(h), ~(Early(On(h)) /\ ~th[On(h)].killed)
  PROVE  TrapInv'
<1>1. PICK t \in Thread : t = On(h)
  BY HartFacts
<1>2. /\ cpu[h] \in Cpu /\ th[t] \in ThreadType /\ HartInv(h)
      /\ SavedInv(th[t], t, due[t])
  BY <1>1, HartFacts
<1>3. /\ cpu[h].mode = "S" /\ th[t].at = <<"nap">> /\ due' = due
      /\ cpu' = [cpu EXCEPT ![h] = PopOff(cpu[h])]
      /\ th' = [th EXCEPT ![t] = [th[t] EXCEPT !.n = 0, !.ticks0 = None, !.elapsed = 0,
             !.at = <<"endtrap">>]]
      /\ UNCHANGED <<ticks, panic>>
  BY <1>1, <1>2 DEF Nap, At
<1>4. /\ th'[t] = [th[t] EXCEPT !.n = 0, !.ticks0 = None, !.elapsed = 0,
             !.at = <<"endtrap">>]
      /\ \A s \in Thread : s # t => th'[s] = th[s]
  BY <1>3 DEF TrapInv, TypeOK
<1>41. th'[t] \in ThreadType
  <2>1. <<"endtrap">> \in Places
    BY PlainPlaces DEF Plain, Base
  <2> QED
    BY <1>2, <1>4, <2>1, NapFields
<1>42. /\ th'[t].at = <<"endtrap">> /\ th'[t].state = th[t].state
       /\ th'[t].epc = th[t].epc /\ th'[t].regs = th[t].regs
  BY <1>2, <1>4 DEF ThreadType
<1>5. th[t].at \in Plain /\ th'[t].at \in Plain
  BY <1>3, <1>42 DEF Plain, Base
<1>6. t \in Proc
  BY <1>2, <1>5, PlainPlaces DEF SavedInv
<1>7. cpu[h].on = t /\ cpu[h].tp = h /\ cpu[h].stvec = "kernelvec"
  BY <1>1, <1>2, <1>3 DEF HartInv, RegInv, On
<1>8. /\ cpu'[h] \in Cpu
      /\ cpu'[h].on = t /\ cpu'[h].mode = "S" /\ cpu'[h].tp = h
      /\ cpu'[h].stvec = "kernelvec"
      /\ \A g \in Hart : g # h => cpu'[g] = cpu[g]
  BY <1>2, <1>3, <1>7 DEF TrapInv, TypeOK, Cpu, PopOff
<1>9. TypeOK' /\ ~panic' /\ due' = due
  BY <1>3, <1>4, <1>41, <1>8 DEF TypeOK, TrapInv
<1>10. \A s \in Thread : s # t => Alike(th[s], th'[s])
  BY <1>4 DEF Alike
<1> QED
  BY <1>1, <1>42, <1>5, <1>6, <1>8, <1>9, <1>10, PlainStep

\* The end of usertrap(), if p was not killed and does not yield.
LEMMA EndTrapInv ==
  ASSUME TrapInv, NEW h \in Hart, EndTrap(h), ~th[On(h)].killed, th[On(h)].dev # 2
  PROVE  TrapInv'
<1>1. PICK t \in Thread : t = On(h)
  BY HartFacts
<1>2. /\ cpu[h] \in Cpu /\ th[t] \in ThreadType /\ HartInv(h)
      /\ SavedInv(th[t], t, due[t])
  BY <1>1, HartFacts
<1>3. /\ cpu[h].mode = "S" /\ th[t].at = <<"endtrap">> /\ due' = due
      /\ cpu' = cpu
      /\ th' = [th EXCEPT ![t] = [th[t] EXCEPT !.at = <<"userret">>, !.dev = 0]]
      /\ UNCHANGED <<ticks, panic>>
  BY <1>1, <1>2 DEF EndTrap, At, Others
<1>4. /\ th'[t] = [th[t] EXCEPT !.at = <<"userret">>, !.dev = 0]
      /\ \A s \in Thread : s # t => th'[s] = th[s]
  BY <1>3 DEF TrapInv, TypeOK
<1>41. th'[t] \in ThreadType
  <2>1. <<"userret">> \in Places
    BY PlainPlaces DEF Plain, Base
  <2> QED
    BY <1>2, <1>4, <2>1 DEF ThreadType
<1>42. /\ th'[t].at = <<"userret">> /\ th'[t].state = th[t].state
       /\ th'[t].epc = th[t].epc /\ th'[t].regs = th[t].regs
  BY <1>2, <1>4 DEF ThreadType
<1>5. th[t].at \in Plain /\ th'[t].at \in Plain
  BY <1>3, <1>42 DEF Plain, Base
<1>6. t \in Proc
  BY <1>2, <1>5, PlainPlaces DEF SavedInv
<1>7. cpu[h].on = t /\ cpu[h].tp = h /\ cpu[h].stvec = "kernelvec"
  BY <1>1, <1>2, <1>3 DEF HartInv, RegInv, On
<1>8. /\ cpu'[h] \in Cpu
      /\ cpu'[h].on = t /\ cpu'[h].mode = "S" /\ cpu'[h].tp = h
      /\ cpu'[h].stvec = "kernelvec"
      /\ \A g \in Hart : g # h => cpu'[g] = cpu[g]
  BY <1>2, <1>3, <1>7 DEF TrapInv, TypeOK, Cpu
<1>9. TypeOK' /\ ~panic' /\ due' = due
  BY <1>3, <1>4, <1>41, <1>8 DEF TypeOK, TrapInv
<1>10. \A s \in Thread : s # t => Alike(th[s], th'[s])
  BY <1>4 DEF Alike
<1> QED
  BY <1>1, <1>42, <1>5, <1>6, <1>8, <1>9, <1>10, PlainStep

\* sched(): the process t of hart h stops at l, and the scheduler of h goes on.
LEMMA SchedStep ==
  ASSUME TrapInv, NEW h \in Hart, NEW t \in Proc, t = On(h), NEW c \in Cpu,
         NEW st \in {"RUNNABLE", "SLEEPING", "ZOMBIE"}, NEW l,
         Sched(h, c, t, st, l), due' = due, ticks' = ticks, ~panic',
         c.tp = h, c.stvec = "kernelvec", c.mode = "S",
         <<l>> \in {<<"userret">>, <<"restore">>, <<"napping">>, <<"zombie">>},
         l = "restore" => th[t].at = <<"endkernel">> /\ ~c.intena,
         l \in {"userret", "napping"} => th[t].at \in Plain,
         l = "zombie" => th[t].at \in Plain \union {<<"uservec">>},
         st = "ZOMBIE" <=> l = "zombie"
  PROVE  TrapInv'
<1>0. /\ t \in Thread /\ h \in Thread /\ h \notin Proc /\ h # t
      /\ th[t] \in ThreadType /\ th[h] \in ThreadType
      /\ HartInv(h) /\ SavedInv(th[t], t, due[t]) /\ SavedInv(th[h], h, due[h])
  BY HartFacts DEF Thread
<1>1. /\ cpu'[h] = PopOff([c EXCEPT !.on = h])
      /\ \A g \in Hart : g # h => cpu'[g] = cpu[g]
      /\ th'[t] = [th[t] EXCEPT !.state = st, !.at = <<l>>, !.intena = c.intena, !.dev = 0]
      /\ th'[h] = [th[h] EXCEPT !.found = TRUE]
      /\ \A s \in Thread : s # t /\ s # h => th'[s] = th[s]
  BY <1>0 DEF Sched, TrapInv, TypeOK
<1>2. cpu' \in [Hart -> Cpu]
  <2>1. cpu'[h] \in Cpu
    BY <1>0, <1>1 DEF PopOff, Cpu
  <2> QED
    BY <1>1, <2>1 DEF Sched, TrapInv, TypeOK
<1>3. th' \in [Thread -> ThreadType]
  <2>1. <<l>> \in Places
    BY DEF Places, ProcPlaces, InKernel, Base, Handling
  <2>2. PICK b \in BOOLEAN, a \in Places : b = c.intena /\ a = <<l>>
    BY <2>1 DEF Cpu
  <2>3. th'[t] \in ThreadType
    <3>1. PICK r : r = [th[t] EXCEPT !.state = st]
      OBVIOUS
    <3>2. r \in ThreadType
      BY <1>0, <3>1 DEF ThreadType
    <3>3. PICK s : s = [r EXCEPT !.at = a, !.intena = b]
      OBVIOUS
    <3>4. s \in ThreadType
      BY ZenonT(60), <2>2, <3>2, <3>3 DEF ThreadType
    <3>5. [s EXCEPT !.dev = 0] \in ThreadType
      BY <3>4 DEF ThreadType
    <3>6. th'[t] = [s EXCEPT !.dev = 0]
      BY <1>0, <1>1, <2>2, <3>1, <3>3
    <3> QED
      BY <3>5, <3>6
  <2>4. th'[h] \in ThreadType
    BY ZenonT(60), <1>0, <1>1 DEF ThreadType
  <2> QED
    BY <1>1, <2>3, <2>4 DEF Sched, TrapInv, TypeOK
<1>4. TypeOK'
  BY <1>2, <1>3 DEF TrapInv, TypeOK
<1>5. /\ th'[t].state = st /\ th'[t].at = <<l>> /\ th'[t].intena = c.intena
      /\ th'[t].epc = th[t].epc /\ th'[t].regs = th[t].regs /\ th'[t].sepc = th[t].sepc
      /\ th'[t].spp = th[t].spp /\ th'[t].spie = th[t].spie
  BY <1>0, <1>1 DEF ThreadType
<1>6. Alike(th[h], th'[h])
  BY <1>0, <1>1 DEF Alike, ThreadType
<1>7. SavedInv(th'[h], h, due'[h])
  BY <1>0, <1>6, SavedFrame
<1>8. SavedInv(th'[t], t, due'[t])
  <2>1. CASE l = "restore"
    <3>1. <<l>> \in Handling /\ <<l>> \in InKernel /\ <<l>> \in ProcPlaces
          /\ <<l>> # <<"zombie">> /\ <<l>> # <<"endkernel">>
      BY <2>1 DEF Handling, InKernel, ProcPlaces
    <3>2. th[t].at \in Handling /\ th[t].at \in InKernel
      BY <2>1 DEF Handling, InKernel
    <3> QED
      BY <1>0, <1>5, <2>1, <3>1, <3>2 DEF SavedInv
  <2>2. CASE l \in {"userret", "napping"}
    <3>1. <<l>> \in Plain
      BY <2>2 DEF Plain, Base
    <3>2. /\ <<l>> \notin Handling /\ <<l>> \in InKernel /\ <<l>> \in ProcPlaces
          /\ <<l>> \notin {<<"zombie">>, <<"endkernel">>, <<"restore">>}
      BY <3>1, PlainPlaces DEF Handling
    <3>3. th[t].at \notin Handling /\ th[t].at \in InKernel
      BY <2>2, PlainPlaces
    <3> QED
      BY <1>0, <1>5, <2>2, <3>2, <3>3 DEF SavedInv
  <2>3. CASE l = "zombie"
    <3>1. th[t].at \notin Handling
      BY <2>3, PlainPlaces DEF Handling
    <3>2. /\ <<l>> \notin InKernel /\ <<l>> \notin Handling /\ <<l>> \in ProcPlaces
          /\ <<l>> \notin {<<"endkernel">>, <<"restore">>}
      BY <2>3 DEF Handling, InKernel, Base, ProcPlaces
    <3> QED
      BY <1>0, <1>5, <2>3, <3>1, <3>2 DEF SavedInv
  <2> QED
    BY <2>1, <2>2, <2>3
<1>9. On(h)' = h /\ cpu'[h].mode = "S" /\ cpu'[h].tp = h /\ cpu'[h].stvec = "kernelvec"
  BY <1>1 DEF On, PopOff, Cpu
<1>10. th'[h].at = <<"scan">>
  BY <1>0, <1>1 DEF HartInv, ThreadType
<1>11. HartInv(h)'
  <2>1. /\ <<"scan">> \notin UserPc
        /\ <<"scan">> \notin Handling \union {<<"uservec">>, <<"sret">>, <<"nap">>, <<"doze">>,
                                             <<"kernelvec">>, <<"forkret">>, <<"zombie">>}
    BY NotUser DEF HartPlaces, Handling
  <2> QED
    BY <1>9, <1>10, <2>1 DEF HartInv, RegInv
<1>12. \A s \in Thread : s # On(h) /\ s # h /\ s # On(h)' => Alike(th[s], th'[s]) /\ due'[s] = due[s]
  BY <1>1 DEF Alike
<1> QED
  BY <1>1, <1>4, <1>7, <1>8, <1>9, <1>11, <1>12, HartStep

\* push_off() leaves the other registers alone.
LEMMA PushOffCpu ==
  ASSUME NEW c \in Cpu
  PROVE  /\ PushOff(c) \in Cpu /\ PushOff(c).tp = c.tp /\ PushOff(c).stvec = c.stvec
         /\ PushOff(c).mode = c.mode /\ PushOff(c).intena = c.sie
  BY DEF PushOff, Cpu

\* exit() and yield() at the end of usertrap().
LEMMA EndTrapSchedInv ==
  ASSUME TrapInv, NEW h \in Hart, EndTrap(h), th[On(h)].killed \/ th[On(h)].dev = 2
  PROVE  TrapInv'
<1>1. PICK t \in Thread : t = On(h)
  BY HartFacts
<1>2. /\ cpu[h] \in Cpu /\ HartInv(h) /\ SavedInv(th[t], t, due[t])
  BY <1>1, HartFacts
<1>3. /\ cpu[h].mode = "S" /\ th[t].at = <<"endtrap">> /\ due' = due
      /\ ticks' = ticks /\ ~panic'
      /\ \/ Sched(h, PushOff(cpu[h]), t, "ZOMBIE", "zombie")
         \/ Sched(h, PushOff(cpu[h]), t, "RUNNABLE", "userret")
  BY <1>1 DEF EndTrap, At, Others, Exit, Yield
<1>4. th[t].at \in Plain
  BY <1>3 DEF Plain, Base
<1>5. t \in Proc
  BY <1>2, <1>4, PlainPlaces DEF SavedInv
<1>6. cpu[h].tp = h /\ cpu[h].stvec = "kernelvec"
  BY <1>1, <1>2, <1>3 DEF HartInv, RegInv
<1>7. PICK c \in Cpu : c = PushOff(cpu[h]) /\ c.tp = h /\ c.stvec = "kernelvec" /\ c.mode = "S"
  BY <1>2, <1>3, <1>6, PushOffCpu
<1>8. CASE Sched(h, c, t, "ZOMBIE", "zombie")
  BY <1>1, <1>3, <1>4, <1>5, <1>7, <1>8, SchedStep
<1>9. CASE Sched(h, c, t, "RUNNABLE", "userret")
  BY <1>1, <1>3, <1>4, <1>5, <1>7, <1>9, SchedStep
<1> QED
  BY <1>3, <1>7, <1>8, <1>9

\* yield() in kerneltrap(): interrupts are off and will be when the process goes on.
LEMMA KernelYieldInv == ASSUME TrapInv, NEW h \in Hart, KernelYield(h) PROVE TrapInv'
<1>1. PICK t \in Proc : t = On(h)
  BY DEF KernelYield
<1>2. /\ cpu[h] \in Cpu /\ HartInv(h) /\ SavedInv(th[t], t, due[t])
  BY <1>1, HartFacts
<1>3. /\ cpu[h].mode = "S" /\ th[t].at = <<"endkernel">> /\ due' = due
      /\ ticks' = ticks /\ ~panic'
      /\ Sched(h, PushOff(cpu[h]), t, "RUNNABLE", "restore")
  BY <1>1 DEF KernelYield, At, Others, Yield
<1>4. cpu[h].tp = h /\ cpu[h].stvec = "kernelvec" /\ ~cpu[h].sie
  BY <1>1, <1>2, <1>3 DEF HartInv, RegInv, Handling
<1>5. PICK c \in Cpu : c = PushOff(cpu[h]) /\ c.tp = h /\ c.stvec = "kernelvec" /\ c.mode = "S"
                       /\ ~c.intena
  BY <1>2, <1>3, <1>4, PushOffCpu
<1>6. Sched(h, c, t, "RUNNABLE", "restore")
  BY <1>3, <1>5
<1> QED
  BY <1>1, <1>3, <1>5, <1>6, SchedStep

\* The loop of sys_sleep() goes on to sleep(), with the lock.
LEMMA NapTestInv ==
  ASSUME TrapInv, NEW h \in Hart, Nap(h), Early(On(h)) /\ ~th[On(h)].killed
  PROVE  TrapInv'
<1>1. PICK t \in Thread : t = On(h)
  BY HartFacts
<1>2. /\ cpu[h] \in Cpu /\ th[t] \in ThreadType /\ HartInv(h)
      /\ SavedInv(th[t], t, due[t])
  BY <1>1, HartFacts
<1>3. /\ cpu[h].mode = "S" /\ th[t].at = <<"nap">> /\ due' = due /\ cpu' = cpu
      /\ th' = [th EXCEPT ![t] = [th[t] EXCEPT !.at = <<"doze">>]]
      /\ UNCHANGED <<ticks, panic>>
  BY <1>1, <1>2 DEF Nap, At
<1>4. /\ th'[t] = [th[t] EXCEPT !.at = <<"doze">>]
      /\ \A s \in Thread : s # t => th'[s] = th[s]
  BY <1>3 DEF TrapInv, TypeOK
<1>41. th'[t] \in ThreadType
  <2>1. <<"doze">> \in Places
    BY PlainPlaces DEF Plain, Base
  <2> QED
    BY <1>2, <1>4, <2>1 DEF ThreadType
<1>42. /\ th'[t].at = <<"doze">> /\ th'[t].state = th[t].state
       /\ th'[t].epc = th[t].epc /\ th'[t].regs = th[t].regs
  BY <1>2, <1>4 DEF ThreadType
<1>5. th[t].at \in Plain /\ th'[t].at \in Plain
  BY <1>3, <1>42 DEF Plain, Base
<1>6. t \in Proc
  BY <1>2, <1>5, PlainPlaces DEF SavedInv
<1>7. /\ cpu[h].on = t /\ cpu[h].tp = h /\ cpu[h].stvec = "kernelvec"
      /\ ~cpu[h].sie
  BY <1>1, <1>2, <1>3 DEF HartInv, RegInv, On
<1>8. TypeOK' /\ ~panic' /\ due' = due
  BY <1>3, <1>4, <1>41 DEF TypeOK, TrapInv
<1>9. \A s \in Thread : s # t => Alike(th[s], th'[s])
  BY <1>4 DEF Alike
<1> QED
  BY <1>1, <1>3, <1>42, <1>5, <1>6, <1>7, <1>8, <1>9, PlainStep

\* sleep() in the loop of sys_sleep().
LEMMA NapSleepInv ==
  ASSUME TrapInv, NEW h \in Hart, NapSleep(h)
  PROVE  TrapInv'
<1>1. PICK t \in Thread : t = On(h)
  BY HartFacts
<1>2. /\ cpu[h] \in Cpu /\ HartInv(h) /\ SavedInv(th[t], t, due[t])
  BY <1>1, HartFacts
<1>3. /\ cpu[h].mode = "S" /\ th[t].at = <<"doze">> /\ due' = due
      /\ ticks' = ticks /\ ~panic'
      /\ Sched(h, cpu[h], t, "SLEEPING", "napping")
  BY <1>1 DEF NapSleep, At
<1>4. th[t].at \in Plain
  BY <1>3 DEF Plain
<1>5. t \in Proc
  BY <1>2, <1>4, PlainPlaces DEF SavedInv
<1>6. cpu[h].tp = h /\ cpu[h].stvec = "kernelvec"
  BY <1>1, <1>2, <1>3 DEF HartInv, RegInv
<1> QED
  BY <1>1, <1>2, <1>3, <1>4, <1>5, <1>6, SchedStep

\* A killed process in a system call: usertrap() calls exit() at once.
LEMMA UsertrapExitInv ==
  ASSUME TrapInv, NEW h \in Hart, Usertrap(h), cpu[h].scause = "ecall", th[On(h)].killed
  PROVE  TrapInv'
<1>1. PICK t \in Thread : t = On(h)
  BY HartFacts
<1>2. /\ cpu[h] \in Cpu /\ th[t] \in ThreadType /\ HartInv(h) /\ SavedInv(th[t], t, due[t])
  BY <1>1, HartFacts
<1>3. /\ cpu[h].mode = "S" /\ th[t].at = <<"uservec">> /\ due' = due
  BY <1>1 DEF Usertrap, At
<1>4. t \in Proc /\ th[t].hartid = h /\ cpu[h].spp = "U"
  BY <1>1, <1>2, <1>3 DEF SavedInv, HartPlaces, HartInv, RegInv
<1>5. PICK d : d = [[[cpu[h] EXCEPT !.tp = h] EXCEPT !.stvec = "kernelvec"]
                    EXCEPT !.sepc = None, !.scause = None]
  OBVIOUS
<1>6. d \in Cpu /\ d.tp = h /\ d.stvec = "kernelvec" /\ d.mode = "S"
  BY <1>2, <1>3, <1>5 DEF Cpu, Thread
<1>7. PICK c \in Cpu : c = PushOff(d) /\ c.tp = h /\ c.stvec = "kernelvec" /\ c.mode = "S"
  BY <1>6, PushOffCpu
<1>8. Sched(h, c, t, "ZOMBIE", "zombie") /\ ticks' = ticks /\ ~panic'
  <2>1. /\ [Uservec(cpu[h], th[t]) EXCEPT !.stvec = "kernelvec"].scause = "ecall"
        /\ [Uservec(cpu[h], th[t]) EXCEPT !.stvec = "kernelvec"].spp = "U"
        /\ Uservec(cpu[h], th[t]) = [cpu[h] EXCEPT !.tp = h]
    BY <1>2, <1>4 DEF Uservec, Cpu
  <2> QED
    BY <1>1, <1>5, <1>7, <2>1 DEF Usertrap, Exit
<1> QED
  BY <1>1, <1>3, <1>4, <1>7, <1>8, SchedStep

\* What a trap does, at either place.
LEMMA TrapEffect ==
  ASSUME TrapInv, NEW h \in Hart, NEW t \in Thread, t = On(h), NEW cause \in Causes,
         Trap(h, cause), Pc(h) \in Places,
         IF cpu[h].mode = "S" THEN cpu[h].stvec = "kernelvec" ELSE cpu[h].stvec = "uservec"
  PROVE  LET l == IF cpu[h].mode = "S" THEN <<"kernelvec">> ELSE <<"uservec">>
         IN  /\ cpu' \in [Hart -> Cpu] /\ th' \in [Thread -> ThreadType]
             /\ ticks' = ticks /\ ~panic'
             /\ \A g \in Hart : g # h => cpu'[g] = cpu[g]
             /\ \A s \in Thread : s # t => th'[s] = th[s] /\ due'[s] = due[s]
             /\ cpu'[h].on = t /\ cpu'[h].tp = cpu[h].tp /\ cpu'[h].stvec = cpu[h].stvec
             /\ cpu'[h].sepc = Pc(h) /\ cpu'[h].spp = cpu[h].mode /\ cpu'[h].spie = cpu[h].sie
             /\ ~cpu'[h].sie /\ cpu'[h].mode = "S" /\ cpu'[h].scause = cause
             /\ th'[t] = [th[t] EXCEPT !.at = l]
<1>1. cpu[h] \in Cpu /\ th[t] \in ThreadType /\ cpu[h].on = t
  BY HartFacts DEF On
<1>2. cpu' = [cpu EXCEPT ![h] = [cpu[h] EXCEPT !.sepc = Pc(h), !.spp = cpu[h].mode,
                  !.spie = cpu[h].sie, !.sie = FALSE, !.mode = "S", !.scause = cause]]
  BY <1>1 DEF Trap, TrapInv, TypeOK
<1>3. PICK a, d : a \in Places /\ a = Pc(h) /\ d = cpu'[h]
  OBVIOUS
<1>4. d = [cpu[h] EXCEPT !.sepc = a, !.spp = cpu[h].mode, !.spie = cpu[h].sie,
                         !.sie = FALSE, !.mode = "S", !.scause = cause]
  BY <1>2, <1>3 DEF TrapInv, TypeOK
<1>5. /\ d \in Cpu /\ d.on = cpu[h].on /\ d.tp = cpu[h].tp /\ d.stvec = cpu[h].stvec
      /\ d.sepc = a /\ d.spp = cpu[h].mode /\ d.spie = cpu[h].sie /\ ~d.sie /\ d.mode = "S"
      /\ d.scause = cause
  BY <1>1, <1>3, <1>4 DEF Cpu
<1>6. cpu' \in [Hart -> Cpu] /\ \A g \in Hart : g # h => cpu'[g] = cpu[g]
  BY <1>2, <1>3, <1>5 DEF TrapInv, TypeOK
<1>7. PICK l : l = IF cpu[h].mode = "S" THEN <<"kernelvec">> ELSE <<"uservec">>
  OBVIOUS
<1>8. l \in Places /\ l = <<cpu[h].stvec>>
  BY <1>7 DEF Places, ProcPlaces, InKernel, Handling
<1>9. /\ th' = [th EXCEPT ![t] = [th[t] EXCEPT !.at = l]]
      /\ [th[t] EXCEPT !.at = l] \in ThreadType
  BY <1>1, <1>8 DEF Trap, ThreadType
<1>10. /\ th' \in [Thread -> ThreadType] /\ th'[t] = [th[t] EXCEPT !.at = l]
       /\ \A s \in Thread : s # t => th'[s] = th[s]
  BY <1>9 DEF TrapInv, TypeOK
<1>11. \A s \in Thread : s # t => due'[s] = due[s]
  BY <1>1 DEF Trap, TrapInv, TypeOK
<1>12. ticks' = ticks /\ ~panic'
  BY DEF Trap
<1> QED
  BY <1>1, <1>3, <1>5, <1>6, <1>7, <1>10, <1>11, <1>12

\* A trap in user space: uservec finds the hart with interrupts off, the user's
\* registers in place, and where to return to in sepc.
LEMMA UserTrapInv ==
  ASSUME TrapInv, NEW h \in Hart, NEW cause \in Causes, Trap(h, cause), cpu[h].mode = "U"
  PROVE  TrapInv'
<1>1. PICK t \in Thread : t = On(h)
  BY HartFacts
<1>2. /\ cpu[h] \in Cpu /\ th[t] \in ThreadType /\ HartInv(h) /\ SavedInv(th[t], t, due[t])
      /\ h \notin Proc
  BY <1>1, HartFacts
<1>3. /\ th[t].at \in UserPc /\ cpu[h].tp = t /\ cpu[h].stvec = "uservec" /\ th[t].hartid = h
  BY <1>1, <1>2 DEF HartInv, RegInv
<1>4. /\ th[t].at \notin HartPlaces \union InKernel \union {<<"zombie">>} /\ th[t].at \in Places
  BY <1>3, NotUser DEF Places, ProcPlaces
<1>5. t \in Proc /\ Pc(h) = th[t].at /\ due[t].kernel = None /\ th[t].state = "RUNNING"
  <2>1. t \in Proc
    BY <1>2, <1>4 DEF SavedInv
  <2>2. Pc(h) = th[t].at
    BY <1>1, <1>4 DEF Pc, HartPlaces
  <2>3. due[t].kernel = None
    BY <1>2, <1>4 DEF SavedInv, InKernel
  <2> QED
    BY <1>1, <1>2, <2>1, <2>2, <2>3 DEF HartInv
<1>6. /\ cpu' \in [Hart -> Cpu] /\ th' \in [Thread -> ThreadType] /\ ticks' = ticks /\ ~panic'
      /\ \A g \in Hart : g # h => cpu'[g] = cpu[g]
      /\ \A s \in Thread : s # t => th'[s] = th[s] /\ due'[s] = due[s]
      /\ cpu'[h].on = t /\ cpu'[h].tp = t /\ cpu'[h].stvec = "uservec"
      /\ cpu'[h].sepc = th[t].at /\ cpu'[h].spp = "U"
      /\ ~cpu'[h].sie /\ cpu'[h].mode = "S" /\ cpu'[h].scause = cause
      /\ th'[t] = [th[t] EXCEPT !.at = <<"uservec">>]
  BY <1>1, <1>3, <1>4, <1>5, TrapEffect
<1>7. /\ th'[t].at = <<"uservec">> /\ th'[t].hartid = h /\ th'[t].state = th[t].state
  BY <1>2, <1>3, <1>6 DEF ThreadType
<1>8. /\ due' \in [Thread -> [user : UserPc \union {None}, kernel : Places \union {None}]]
      /\ due'[t].user = IF cause = "ecall" THEN After(th[t].at) ELSE th[t].at
      /\ due'[t].kernel = None
  <2>1. PICK u \in UserPc : u = IF cause = "ecall" THEN After(th[t].at) ELSE th[t].at
    BY <1>3, AfterInUser
  <2>2. due' = [due EXCEPT ![t] = [due[t] EXCEPT !.user = u]]
    BY <1>1, <2>1 DEF Trap, On
  <2> QED
    BY <1>5, <2>1, <2>2 DEF TrapInv, TypeOK
<1>9. TypeOK'
  BY <1>6, <1>8 DEF TrapInv, TypeOK
<1>10. <<"uservec">> \notin UserPc \union InKernel \union Handling
       /\ <<"uservec">> \in ProcPlaces
       /\ <<"uservec">> \notin {<<"kernelvec">>, <<"forkret">>, <<"zombie">>, <<"endkernel">>,
                                <<"restore">>}
  BY NotUser DEF InKernel, Base, Handling, ProcPlaces
<1>11. RegInv(cpu'[h], h, t, th'[t].at, due'[t])
  BY <1>3, <1>6, <1>7, <1>8, <1>10 DEF RegInv
<1>12. SavedInv(th'[t], t, due'[t])
  BY <1>5, <1>7, <1>8, <1>10 DEF SavedInv
<1>13. \A s \in Thread : s # t => Alike(th[s], th'[s]) /\ due'[s] = due[s]
  BY <1>6 DEF Alike
<1> QED
  BY <1>1, <1>6, <1>7, <1>9, <1>10, <1>11, <1>12, <1>13, StayStep

\* An interrupt in the kernel, which is taken only where interrupts are on: no
\* place of a handler, so what kerneltrap() has saved is not lost.
LEMMA KernelTrapInv ==
  ASSUME TrapInv, NEW h \in Hart, NEW cause \in Causes, Trap(h, cause), cpu[h].mode = "S"
  PROVE  TrapInv'
<1>1. PICK t \in Thread : t = On(h)
  BY HartFacts
<1>2. /\ cpu[h] \in Cpu /\ th[t] \in ThreadType /\ HartInv(h) /\ SavedInv(th[t], t, due[t])
      /\ h \notin Proc
  BY <1>1, HartFacts
<1>3. cpu[h].sie /\ cause \in {"timer", "external"}
  BY DEF Trap
<1>4. /\ th[t].at \notin UserPc
      /\ th[t].at \notin Handling \union {<<"uservec">>, <<"sret">>, <<"nap">>, <<"doze">>}
      /\ th[t].at \notin {<<"forkret">>, <<"zombie">>}
  BY <1>1, <1>2, <1>3 DEF HartInv, RegInv
<1>5. cpu[h].tp = h /\ cpu[h].stvec = "kernelvec"
  BY <1>1, <1>2, <1>4 DEF HartInv, RegInv
<1>6. /\ Pc(h) \in Interruptible(t) /\ Pc(h) \in Places
      /\ t \in Proc => th[t].at \in InKernel
  <2>1. CASE t \in Proc
    <3>1. th[t].at \in ProcPlaces
      BY <1>2, <2>1 DEF SavedInv
    <3>2. th[t].at \in Base
      BY <1>4, <3>1 DEF ProcPlaces, InKernel, Handling
    <3>3. th[t].at # <<"wfi">>
      BY <3>2 DEF Base
    <3> QED
      BY <1>1, <2>1, <3>2, <3>3 DEF Interruptible, Pc, Places, ProcPlaces, InKernel
  <2>2. CASE t \notin Proc
    <3>1. th[t].at \in {<<"scan">>, <<"wfi">>}
      BY <1>2, <1>4, <2>2 DEF SavedInv, HartPlaces, Handling
    <3> QED
      BY <1>1, <2>2, <3>1 DEF Interruptible, Pc, Places, HartPlaces
  <2> QED
    BY <2>1, <2>2
<1>7. /\ cpu' \in [Hart -> Cpu] /\ th' \in [Thread -> ThreadType] /\ ticks' = ticks /\ ~panic'
      /\ \A g \in Hart : g # h => cpu'[g] = cpu[g]
      /\ \A s \in Thread : s # t => th'[s] = th[s] /\ due'[s] = due[s]
      /\ cpu'[h].on = t /\ cpu'[h].tp = h /\ cpu'[h].stvec = "kernelvec"
      /\ cpu'[h].sepc = Pc(h) /\ cpu'[h].spp = "S" /\ cpu'[h].spie
      /\ ~cpu'[h].sie /\ cpu'[h].mode = "S" /\ cpu'[h].scause = cause
      /\ th'[t] = [th[t] EXCEPT !.at = <<"kernelvec">>]
  BY <1>1, <1>3, <1>5, <1>6, TrapEffect
<1>8. /\ th'[t].at = <<"kernelvec">> /\ th'[t].state = th[t].state
      /\ th'[t].epc = th[t].epc /\ th'[t].regs = th[t].regs
  BY <1>2, <1>7 DEF ThreadType
<1>9. /\ due' \in [Thread -> [user : UserPc \union {None}, kernel : Places \union {None}]]
      /\ due'[t].user = due[t].user /\ due'[t].kernel = Pc(h)
  <2>1. PICK k \in Places : k = Pc(h)
    BY <1>6
  <2>2. due' = [due EXCEPT ![t] = [due[t] EXCEPT !.kernel = k]]
    BY <1>1, <2>1 DEF Trap, On
  <2> QED
    BY <2>1, <2>2 DEF TrapInv, TypeOK
<1>10. TypeOK'
  BY <1>7, <1>9 DEF TrapInv, TypeOK
<1>11. /\ <<"kernelvec">> \in Handling /\ <<"kernelvec">> \in InKernel
       /\ <<"kernelvec">> \notin UserPc
       /\ <<"kernelvec">> \in ProcPlaces /\ <<"kernelvec">> \in HartPlaces
       /\ <<"kernelvec">> \notin {<<"uservec">>, <<"sret">>, <<"forkret">>, <<"zombie">>,
                                  <<"endkernel">>, <<"restore">>}
  BY NotUser DEF InKernel, Handling, ProcPlaces, HartPlaces
<1>12. RegInv(cpu'[h], h, t, th'[t].at, due'[t])
  BY <1>3, <1>7, <1>8, <1>9, <1>11 DEF RegInv
<1>13. t \in Proc => th[t].state = "RUNNING"
  BY <1>1, <1>2 DEF HartInv
<1>14. SavedInv(th'[t], t, due'[t])
  BY <1>2, <1>6, <1>8, <1>9, <1>11, <1>13 DEF SavedInv
<1>15. \A s \in Thread : s # t => Alike(th[s], th'[s]) /\ due'[s] = due[s]
  BY <1>7 DEF Alike
<1>16. th'[t].at \notin UserPc \union {<<"uservec">>} \union {<<"forkret">>, <<"zombie">>}
  BY <1>8, <1>11
<1>17. th'[t].state = th[t].state /\ cpu'[h].on = t /\ ~panic'
       /\ \A g \in Hart : g # h => cpu'[g] = cpu[g]
  BY <1>7, <1>8
<1> QED
  BY <1>1, <1>10, <1>12, <1>14, <1>15, <1>16, <1>17, StayStep

\* The places of a scheduler.
LEMMA ScanPlaces ==
  /\ <<"scan">> \notin ProcPlaces
  /\ \A l \in {<<"scan">>, <<"wfi">>} :
       /\ l \in Places /\ l \in HartPlaces /\ l \notin UserPc
       /\ l \notin Handling \union {<<"uservec">>, <<"sret">>, <<"nap">>, <<"doze">>}
       /\ l \notin {<<"forkret">>, <<"zombie">>, <<"kernelvec">>, <<"endkernel">>, <<"restore">>}
  BY NotUser, PlacesDiffer DEF Places, HartPlaces, ProcPlaces, InKernel, Base, Handling, UserPc

\* The scheduler at scan is that of the hart.
LEMMA ScanIsHart ==
  ASSUME TrapInv, NEW h \in Hart, At(h, "scan")
  PROVE  On(h) = h /\ cpu[h].mode = "S" /\ th[h].at = <<"scan">> /\ cpu[h].tp = h
         /\ cpu[h].stvec = "kernelvec" /\ due[h].kernel = None
<1>1. /\ On(h) = h \/ On(h) \in Proc
      /\ HartInv(h)
      /\ SavedInv(th[On(h)], On(h), due[On(h)]) /\ SavedInv(th[h], h, due[h]) /\ h \notin Proc
  BY HartFacts
<1>2. On(h) = h /\ cpu[h].mode = "S" /\ th[h].at = <<"scan">>
  BY <1>1, ScanPlaces DEF At, SavedInv
<1>3. cpu[h].tp = h /\ cpu[h].stvec = "kernelvec"
  BY <1>1, <1>2, ScanPlaces DEF HartInv, RegInv
<1>4. due[h].kernel = None
  BY <1>1, <1>2, ScanPlaces DEF SavedInv
<1> QED
  BY <1>2, <1>3, <1>4

\* The end of a round of the scheduler.
LEMMA ScanEndInv == ASSUME TrapInv, NEW h \in Hart, ScanEnd(h) PROVE TrapInv'
<1>1. /\ cpu[h] \in Cpu /\ th[h] \in ThreadType /\ h \in Thread /\ h \notin Proc
  BY HartFacts
<1>2. On(h) = h /\ cpu[h].mode = "S" /\ th[h].at = <<"scan">> /\ cpu[h].tp = h
      /\ cpu[h].stvec = "kernelvec" /\ due[h].kernel = None
  BY ScanIsHart DEF ScanEnd
<1>3. PICK l \in {<<"scan">>, <<"wfi">>} : l = IF th[h].found THEN <<"scan">> ELSE <<"wfi">>
  OBVIOUS
<1>4. /\ l \in Places /\ l \in HartPlaces /\ l \notin UserPc
      /\ l \notin Handling \union {<<"uservec">>, <<"sret">>, <<"nap">>, <<"doze">>}
      /\ l \notin {<<"forkret">>, <<"zombie">>, <<"kernelvec">>, <<"endkernel">>, <<"restore">>}
  BY <1>3, ScanPlaces
<1>5. /\ th' = [th EXCEPT ![h] = [th[h] EXCEPT !.at = l, !.found = FALSE]]
      /\ cpu' = [cpu EXCEPT ![h] = [cpu[h] EXCEPT !.sie = TRUE]]
      /\ due' = due /\ ticks' = ticks /\ ~panic'
  BY <1>3 DEF ScanEnd, IntrOn, Others, At
<1>6. /\ th'[h] = [th[h] EXCEPT !.at = l, !.found = FALSE]
      /\ cpu'[h] = [cpu[h] EXCEPT !.sie = TRUE]
      /\ \A s \in Thread : s # h => th'[s] = th[s]
      /\ \A g \in Hart : g # h => cpu'[g] = cpu[g]
  BY <1>1, <1>5 DEF TrapInv, TypeOK
<1>7. th'[h] \in ThreadType /\ th'[h].at = l /\ th'[h].state = th[h].state
  BY ZenonT(60), <1>1, <1>4, <1>6 DEF ThreadType
<1>8. /\ cpu'[h] \in Cpu /\ cpu'[h].on = h /\ cpu'[h].mode = "S" /\ cpu'[h].tp = h
      /\ cpu'[h].stvec = "kernelvec"
  BY <1>1, <1>2, <1>6 DEF Cpu, On
<1>9. TypeOK'
  BY <1>5, <1>7, <1>8 DEF TrapInv, TypeOK
<1>10. RegInv(cpu'[h], h, h, th'[h].at, due'[h])
  BY <1>4, <1>7, <1>8 DEF RegInv
<1>11. SavedInv(th'[h], h, due'[h])
  BY <1>1, <1>2, <1>4, <1>5, <1>7 DEF SavedInv
<1>12. \A s \in Thread : s # h => Alike(th[s], th'[s]) /\ due'[s] = due[s]
  BY <1>5, <1>6 DEF Alike
<1>13. th'[h].at \notin UserPc \union {<<"uservec">>} \union {<<"forkret">>, <<"zombie">>}
  BY <1>4, <1>7
<1> QED
  BY <1>1, <1>2, <1>5, <1>6, <1>7, <1>8, <1>9, <1>10, <1>11, <1>12, <1>13, StayStep

\* The scheduler of h switches to a process that runs nowhere: tp stays, and
\* interrupts come on again as they were for the process.
LEMMA DispatchInv == ASSUME TrapInv, NEW h \in Hart, NEW p \in Proc, Dispatch(h, p) PROVE TrapInv'
<1>1. /\ cpu[h] \in Cpu /\ th[h] \in ThreadType /\ h \in Thread /\ h \notin Proc
      /\ SavedInv(th[h], h, due[h])
  BY HartFacts
<1>2. On(h) = h /\ cpu[h].mode = "S" /\ th[h].at = <<"scan">> /\ cpu[h].tp = h
      /\ cpu[h].stvec = "kernelvec"
  BY ScanIsHart DEF Dispatch
<1>3. p \in Thread /\ p # h /\ th[p] \in ThreadType /\ SavedInv(th[p], p, due[p])
      /\ th[p].state = "RUNNABLE"
  BY <1>1 DEF Dispatch, TrapInv, TypeOK, Thread
<1>4. th[p].at \in {<<"forkret">>, <<"userret">>, <<"restore">>, <<"napping">>}
  BY <1>3 DEF SavedInv
<1>5. PICK l : l = IF th[p].at = <<"forkret">> THEN <<"userret">> ELSE th[p].at
  OBVIOUS
<1>6. /\ l \in {<<"userret">>, <<"restore">>, <<"napping">>}
      /\ l = <<"restore">> => th[p].at = <<"restore">>
      /\ l # <<"restore">> => th[p].at \in {<<"forkret">>, <<"userret">>, <<"napping">>}
  BY <1>4, <1>5
<1>7. /\ l \in Places /\ l \in InKernel /\ l \in ProcPlaces /\ l \notin UserPc
      /\ th[p].at \in InKernel
      /\ l \in Handling <=> l = <<"restore">>
      /\ th[p].at \in Handling <=> l = <<"restore">>
      /\ l \notin {<<"uservec">>, <<"sret">>, <<"nap">>, <<"doze">>, <<"forkret">>, <<"zombie">>,
                   <<"kernelvec">>, <<"endkernel">>}
  BY <1>6, NotUser DEF Places, ProcPlaces, InKernel, Base, Handling
<1>8. /\ th' = [th EXCEPT ![p] = [th[p] EXCEPT !.state = "RUNNING", !.intena = FALSE, !.at = l]]
      /\ due' = due /\ ticks' = ticks /\ ~panic'
  BY <1>5 DEF Dispatch, Others, At
<1>9. /\ th'[p] = [th[p] EXCEPT !.state = "RUNNING", !.intena = FALSE, !.at = l]
      /\ \A s \in Thread : s # p => th'[s] = th[s]
  BY <1>3, <1>8 DEF TrapInv, TypeOK
<1>10. /\ th'[p] \in ThreadType /\ th'[p].at = l /\ th'[p].state = "RUNNING"
       /\ th'[p].epc = th[p].epc /\ th'[p].regs = th[p].regs /\ th'[p].sepc = th[p].sepc
       /\ th'[p].spp = th[p].spp /\ th'[p].spie = th[p].spie
  BY ZenonT(60), <1>3, <1>7, <1>9 DEF ThreadType
<1>11. PICK c \in Cpu, i \in BOOLEAN :
          /\ c = PushOff(cpu[h])
          /\ i = IF th[p].at = <<"forkret">> THEN c.intena ELSE th[p].intena
  <2>1. /\ PushOff(cpu[h]) \in Cpu
        /\ PushOff(cpu[h]).intena \in BOOLEAN /\ th[p].intena \in BOOLEAN
    BY <1>1, <1>3, PushOffCpu DEF Cpu, ThreadType
  <2> QED
    BY <2>1
<1>12. c \in Cpu /\ c.mode = "S" /\ c.tp = h /\ c.stvec = "kernelvec"
  BY <1>1, <1>2, <1>11, PushOffCpu
<1>13. cpu' = [cpu EXCEPT ![h] = PopOff([c EXCEPT !.on = p, !.intena = i])]
  BY <1>11 DEF Dispatch
<1>14. PICK d : d = [c EXCEPT !.on = p, !.intena = i]
  OBVIOUS
<1>15. /\ d \in Cpu /\ d.mode = "S" /\ d.tp = h /\ d.stvec = "kernelvec" /\ d.on = p
       /\ d.intena = i
  BY <1>3, <1>11, <1>12, <1>14 DEF Cpu
<1>16. /\ cpu'[h] = PopOff(d)
       /\ \A g \in Hart : g # h => cpu'[g] = cpu[g]
  BY <1>13, <1>14 DEF TrapInv, TypeOK
<1>17. /\ cpu'[h] \in Cpu /\ cpu'[h].mode = "S" /\ cpu'[h].tp = h /\ cpu'[h].on = p
       /\ cpu'[h].stvec = "kernelvec" /\ cpu'[h].sie = i
  BY <1>15, <1>16 DEF PopOff, Cpu
<1>18. TypeOK'
  BY <1>8, <1>10, <1>13, <1>17 DEF TrapInv, TypeOK
<1>19. l = <<"restore">> => ~i
  BY <1>3, <1>6, <1>11 DEF SavedInv
<1>20. On(h)' = p
  BY <1>17 DEF On
<1>21. RegInv(cpu'[h], h, p, th'[p].at, due'[p])
  BY <1>7, <1>10, <1>17, <1>19 DEF RegInv
<1>22. HartInv(h)'
  <2>1. th'[h].at = <<"scan">>
    BY <1>1, <1>2, <1>3, <1>9
  <2> QED
    BY <1>7, <1>10, <1>20, <1>21, <2>1 DEF HartInv
<1>23. SavedInv(th'[p], p, due'[p])
  <2>1. th'[p].at = <<"restore">> => th[p].at = <<"restore">>
    BY <1>6, <1>10
  <2>2. /\ th'[p].at \in InKernel /\ th'[p].at \in ProcPlaces
        /\ th'[p].at \in Handling <=> th[p].at \in Handling
        /\ th'[p].at \notin {<<"endkernel">>, <<"zombie">>}
    BY <1>7, <1>10
  <2> QED
    BY <1>3, <1>7, <1>8, <1>10, <2>1, <2>2 DEF SavedInv
<1>24. SavedInv(th'[h], h, due'[h])
  BY <1>1, <1>3, <1>8, <1>9
<1>25. \A s \in Thread : s # On(h) /\ s # h /\ s # On(h)' => Alike(th[s], th'[s]) /\ due'[s] = due[s]
  BY <1>8, <1>9, <1>20 DEF Alike
<1> QED
  BY <1>2, <1>3, <1>8, <1>16, <1>18, <1>20, <1>22, <1>23, <1>24, <1>25, HartStep

\* Nothing of what the invariant reads changes, but somebody may be woken.
LEMMA AlikeStep ==
  ASSUME TrapInv, TypeOK', ~panic', cpu' = cpu, due' = due,
         \A t \in Thread : Alike(th[t], th'[t])
  PROVE  TrapInv'
<1>1. \A g \in Hart : On(g)' = On(g) /\ On(g) \in Thread /\ g \in Thread
  BY HartFacts DEF On
<1>2. ASSUME NEW g \in Hart PROVE HartInv(g)'
  <2>1. HartInv(g) /\ Alike(th[On(g)], th'[On(g)]) /\ Alike(th[g], th'[g])
    BY <1>1 DEF TrapInv
  <2> QED
    BY <1>1, <2>1 DEF HartInv, Alike
<1>3. ASSUME NEW t \in Thread PROVE SavedInv(th'[t], t, due'[t])
  BY SavedFrame DEF TrapInv
<1> QED
  BY <1>1, <1>2, <1>3 DEF TrapInv

\* kill() marks a process, and wakes it if it sleeps.
LEMMA KillInv == ASSUME TrapInv, NEW p \in Proc, Kill(p) PROVE TrapInv'
<1>1. p \in Thread /\ th[p] \in ThreadType
  BY DEF TrapInv, TypeOK, Thread
<1>2. PICK st \in {"RUNNABLE", "RUNNING", "SLEEPING", "ZOMBIE"} :
         st = IF th[p].state = "SLEEPING" THEN "RUNNABLE" ELSE th[p].state
  BY <1>1 DEF ThreadType
<1>3. /\ th' = [th EXCEPT ![p] = [th[p] EXCEPT !.killed = TRUE, !.state = st]]
      /\ cpu' = cpu /\ due' = due /\ ticks' = ticks /\ ~panic'
  BY <1>2 DEF Kill, Others
<1>4. /\ th'[p] = [th[p] EXCEPT !.killed = TRUE, !.state = st]
      /\ \A s \in Thread : s # p => th'[s] = th[s]
  BY <1>1, <1>3 DEF TrapInv, TypeOK
<1>5. th'[p] \in ThreadType /\ Alike(th[p], th'[p])
  BY ZenonT(60), <1>1, <1>2, <1>4 DEF ThreadType, Alike
<1>6. TypeOK'
  BY <1>3, <1>5 DEF TrapInv, TypeOK
<1>7. \A s \in Thread : Alike(th[s], th'[s])
  BY <1>4, <1>5 DEF Alike
<1> QED
  BY <1>3, <1>6, <1>7, AlikeStep

\* sret restores mode and interrupt enable, and leaves the rest.
LEMMA SretCpu ==
  ASSUME NEW c \in Cpu
  PROVE  /\ Sret(c) \in Cpu /\ Sret(c).mode = c.spp /\ Sret(c).sie = c.spie
         /\ Sret(c).tp = c.tp /\ Sret(c).stvec = c.stvec /\ Sret(c).on = c.on
  BY DEF Sret, Cpu

\* The return to user space: to epc, with the user's registers.
LEMMA UserSretInv == ASSUME TrapInv, NEW h \in Hart, UserSret(h) PROVE TrapInv'
<1>1. PICK t \in Thread : t = On(h)
  BY HartFacts
<1>2. /\ cpu[h] \in Cpu /\ th[t] \in ThreadType /\ HartInv(h) /\ SavedInv(th[t], t, due[t])
      /\ h \notin Proc
  BY <1>1, HartFacts
<1>3. /\ cpu[h].mode = "S" /\ th[t].at = <<"sret">>
      /\ ticks' = ticks /\ ~panic'
  BY <1>1 DEF UserSret, At
<1>4. th[t].at \in Plain /\ th[t].at \in InKernel /\ th[t].at \notin Handling
  BY <1>3, PlainPlaces DEF Plain
<1>5. t \in Proc /\ th[t].epc \in UserPc /\ th[t].regs = t /\ due[t].kernel = None
  BY <1>2, <1>4, PlainPlaces DEF SavedInv
<1>6. cpu[h].tp = h /\ cpu[h].stvec = "uservec" /\ cpu[h].on = t /\ th[t].state = "RUNNING"
  BY <1>1, <1>2, <1>3, <1>5 DEF HartInv, RegInv, On
<1>7. PICK e \in UserPc : e = th[t].epc
  BY <1>5
<1>8. e \in Places
  BY <1>7 DEF Places, ProcPlaces
<1>9. PICK c : c = [[cpu[h] EXCEPT !.spp = "U", !.spie = TRUE, !.sepc = e] EXCEPT !.tp = t]
  OBVIOUS
<1>10. /\ c \in Cpu /\ c.spp = "U" /\ c.tp = t /\ c.stvec = "uservec" /\ c.on = t
  BY <1>2, <1>6, <1>8, <1>9 DEF Cpu
<1>11. cpu' = [cpu EXCEPT ![h] = Sret(c)]
  BY <1>1, <1>5, <1>7, <1>9 DEF UserSret, Userret, On
<1>12. /\ cpu'[h] = Sret(c) /\ \A g \in Hart : g # h => cpu'[g] = cpu[g]
  BY <1>11 DEF TrapInv, TypeOK
<1>13. /\ cpu'[h] \in Cpu /\ cpu'[h].mode = "U" /\ cpu'[h].tp = t /\ cpu'[h].stvec = "uservec"
       /\ cpu'[h].on = t
  BY <1>10, <1>12, SretCpu
<1>14. th' = [th EXCEPT ![t] = [th[t] EXCEPT !.hartid = h, !.at = e, !.epc = None, !.regs = None]]
  BY <1>1, <1>6, <1>7 DEF UserSret, On
<1>15. /\ th'[t] = [th[t] EXCEPT !.hartid = h, !.at = e, !.epc = None, !.regs = None]
       /\ \A s \in Thread : s # t => th'[s] = th[s]
  BY <1>14 DEF TrapInv, TypeOK
<1>16. /\ th'[t] \in ThreadType /\ th'[t].hartid = h /\ th'[t].at = e
       /\ th'[t].state = th[t].state
  BY ZenonT(60), <1>2, <1>8, <1>15 DEF ThreadType
<1>17. /\ due' = [due EXCEPT ![t] = [due[t] EXCEPT !.user = None]]
       /\ due' \in [Thread -> [user : UserPc \union {None}, kernel : Places \union {None}]]
       /\ due'[t].kernel = due[t].kernel
       /\ \A s \in Thread : s # t => due'[s] = due[s]
  BY <1>1 DEF UserSret, On, TrapInv, TypeOK
<1>18. TypeOK'
  BY <1>3, <1>11, <1>13, <1>14, <1>16, <1>17 DEF TrapInv, TypeOK
<1>19. /\ e \notin InKernel \union HartPlaces \union {<<"uservec">>, <<"zombie">>}
       /\ e \notin Handling \union {<<"uservec">>, <<"sret">>, <<"nap">>, <<"doze">>}
  BY NotUser
<1>20. /\ e \notin {<<"kernelvec">>, <<"endkernel">>, <<"restore">>, <<"forkret">>, <<"zombie">>}
       /\ e \in ProcPlaces
  BY <1>19 DEF Handling, InKernel, ProcPlaces
<1>21. RegInv(cpu'[h], h, t, th'[t].at, due'[t])
  BY <1>13, <1>16, <1>19, <1>20 DEF RegInv
<1>22. SavedInv(th'[t], t, due'[t])
  BY <1>5, <1>6, <1>16, <1>17, <1>19, <1>20 DEF SavedInv
<1>23. \A s \in Thread : s # t => Alike(th[s], th'[s]) /\ due'[s] = due[s]
  BY <1>15, <1>17 DEF Alike
<1> QED
  BY <1>1, <1>3, <1>12, <1>13, <1>16, <1>18, <1>20, <1>21, <1>22, <1>23, StayStep

\* The return from kerneltrap() to the interrupted place, on whichever hart.
LEMMA RestoreInv == ASSUME TrapInv, NEW h \in Hart, Restore(h) PROVE TrapInv'
<1>1. PICK t \in Thread : t = On(h)
  BY HartFacts
<1>2. /\ cpu[h] \in Cpu /\ th[t] \in ThreadType /\ HartInv(h) /\ SavedInv(th[t], t, due[t])
      /\ h \notin Proc
  BY <1>1, HartFacts
<1>3. /\ cpu[h].mode = "S" /\ th[t].at \in {<<"endkernel">>, <<"restore">>}
      /\ ticks' = ticks /\ ~panic'
  BY <1>1 DEF Restore, At
<1>4. th[t].at \in Handling /\ th[t].at \in InKernel
      /\ th[t].at \notin {<<"uservec">>, <<"sret">>} \union UserPc
  BY <1>3, NotUser DEF Handling, InKernel
<1>5. /\ th[t].sepc = due[t].kernel /\ th[t].spp = "S" /\ th[t].spie
      /\ th[t].sepc \in Interruptible(t)
      /\ t \in Proc => th[t].epc = due[t].user /\ th[t].epc \in UserPc /\ th[t].regs = t
  BY <1>2, <1>3, <1>4 DEF SavedInv
<1>6. /\ cpu[h].tp = h /\ cpu[h].stvec = "kernelvec" /\ cpu[h].on = t
      /\ t \in Proc => th[t].state = "RUNNING"
  BY <1>1, <1>2, <1>3, <1>4 DEF HartInv, RegInv, On
<1>7. PICK a \in Interruptible(t) : a = th[t].sepc
  BY <1>5
<1>8. /\ a \in Places /\ a \in IF t \in Proc THEN ProcPlaces ELSE HartPlaces
      /\ a \notin UserPc /\ a \notin Handling
      /\ a \notin {<<"uservec">>, <<"sret">>, <<"nap">>, <<"doze">>, <<"forkret">>, <<"zombie">>,
                   <<"kernelvec">>, <<"endkernel">>, <<"restore">>}
  <2>1. CASE t \in Proc
    <3>1. a \in Base
      BY <1>7, <2>1 DEF Interruptible
    <3>2. a \notin {<<"sret">>, <<"nap">>, <<"doze">>}
      BY <3>1 DEF Base
    <3>3. a \in Plain
      BY <3>1 DEF Plain
    <3> QED
      BY <2>1, <3>2, <3>3, PlainPlaces DEF Handling
  <2>2. CASE t \notin Proc
    BY <1>7, <2>2, ScanPlaces DEF Interruptible
  <2> QED
    BY <2>1, <2>2
<1>9. PICK c : c = [cpu[h] EXCEPT !.sepc = a, !.spp = "S", !.spie = TRUE]
  OBVIOUS
<1>10. c \in Cpu /\ c.spp = "S" /\ c.tp = h /\ c.stvec = "kernelvec" /\ c.on = t /\ c.sepc = a
  BY <1>2, <1>6, <1>8, <1>9 DEF Cpu
<1>11. Restored(cpu[h], th[t]) = c
  BY <1>2, <1>5, <1>7, <1>9 DEF Restored, ThreadType
<1>12. cpu' = [cpu EXCEPT ![h] = Sret(c)]
  BY <1>1, <1>11 DEF Restore, Kernelvec
<1>13. /\ cpu'[h] = Sret(c) /\ \A g \in Hart : g # h => cpu'[g] = cpu[g]
  BY <1>12 DEF TrapInv, TypeOK
<1>14. /\ cpu'[h] \in Cpu /\ cpu'[h].mode = "S" /\ cpu'[h].tp = h /\ cpu'[h].stvec = "kernelvec"
       /\ cpu'[h].on = t
  BY <1>10, <1>13, SretCpu
<1>15. th' = [th EXCEPT ![t] = [th[t] EXCEPT !.at = a, !.sepc = None, !.spp = "S",
                                            !.spie = FALSE, !.dev = 0]]
  BY <1>1, <1>10, <1>11 DEF Restore
<1>16. /\ th'[t] = [th[t] EXCEPT !.at = a, !.sepc = None, !.spp = "S", !.spie = FALSE, !.dev = 0]
       /\ \A s \in Thread : s # t => th'[s] = th[s]
  BY <1>15 DEF TrapInv, TypeOK
<1>17. /\ th'[t] \in ThreadType /\ th'[t].at = a /\ th'[t].state = th[t].state
       /\ th'[t].epc = th[t].epc /\ th'[t].regs = th[t].regs
  BY ZenonT(60), <1>2, <1>8, <1>16 DEF ThreadType
<1>18. /\ due' = [due EXCEPT ![t] = [due[t] EXCEPT !.kernel = None]]
       /\ due' \in [Thread -> [user : UserPc \union {None}, kernel : Places \union {None}]]
       /\ due'[t].kernel = None /\ due'[t].user = due[t].user
       /\ \A s \in Thread : s # t => due'[s] = due[s]
  BY <1>1 DEF Restore, On, TrapInv, TypeOK
<1>19. TypeOK'
  BY <1>3, <1>12, <1>14, <1>15, <1>17, <1>18 DEF TrapInv, TypeOK
<1>20. RegInv(cpu'[h], h, t, th'[t].at, due'[t])
  BY <1>8, <1>14, <1>17 DEF RegInv
<1>21. SavedInv(th'[t], t, due'[t])
  BY <1>5, <1>6, <1>8, <1>17, <1>18 DEF SavedInv
<1>22. \A s \in Thread : s # t => Alike(th[s], th'[s]) /\ due'[s] = due[s]
  BY <1>16, <1>18 DEF Alike
<1>23. th'[t].at \notin UserPc \union {<<"uservec">>} \union {<<"forkret">>, <<"zombie">>}
  BY <1>8, <1>17
<1> QED
  BY <1>1, <1>3, <1>13, <1>14, <1>17, <1>19, <1>20, <1>21, <1>22, <1>23, StayStep

\* clockintr() wakes the sleepers, which changes nothing of what the invariant
\* reads but their state.
LEMMA TickedAlike ==
  ASSUME TrapInv, NEW s \in [Thread -> ThreadType]
  PROVE  /\ Ticked(s) \in [Thread -> ThreadType]
         /\ \A t \in Thread : Alike(s[t], Ticked(s)[t])
<1>1. ASSUME NEW t \in Thread
      PROVE  Ticked(s)[t] \in ThreadType /\ Alike(s[t], Ticked(s)[t])
  <2>1. CASE t \notin Proc \/ ~Napping(t)
    BY <2>1 DEF Ticked, Alike
  <2>2. CASE ~(t \notin Proc \/ ~Napping(t))
    <3>1. PICK st \in {"RUNNABLE", "RUNNING", "SLEEPING", "ZOMBIE"} :
             st = IF s[t].state = "SLEEPING" THEN "RUNNABLE" ELSE s[t].state
      BY DEF ThreadType
    <3>2. PICK e \in Nat : e = s[t].elapsed + 1
      BY DEF ThreadType
    <3>3. Ticked(s)[t] = [s[t] EXCEPT !.elapsed = e, !.state = st]
      BY <2>2, <3>1, <3>2 DEF Ticked
    <3>4. s[t] \in ThreadType
      OBVIOUS
    <3> QED
      BY ZenonT(60), <3>1, <3>2, <3>3, <3>4 DEF ThreadType, Alike
  <2> QED
    BY <2>1, <2>2
<1>2. Ticked(s) = [t \in Thread |-> Ticked(s)[t]]
  BY DEF Ticked
<1> QED
  BY <1>1, <1>2

\* devintr() and what follows it up to label l.
LEMMA DevintrEffect ==
  ASSUME TrapInv, NEW s \in [Thread -> ThreadType], NEW c \in Cpu, NEW l, <<l>> \in Places,
         Devintr(c, s, l)
  PROVE  /\ ticks' \in 0 .. UINT - 1 /\ th' \in [Thread -> ThreadType]
         /\ \A t \in Thread : t # c.on => Alike(s[t], th'[t])
         /\ th'[c.on].at = <<l>>
         /\ Alike([s[c.on] EXCEPT !.at = <<l>>], th'[c.on])
<1>1. PICK z : z = IF c.scause = "timer" /\ c.tp = 0 THEN Ticked(s) ELSE s
  OBVIOUS
<1>2. z \in [Thread -> ThreadType] /\ \A t \in Thread : Alike(s[t], z[t])
  BY <1>1, TickedAlike DEF Alike
<1>3. PICK u \in Thread : u = c.on
  BY DEF Cpu
<1>4. PICK d \in {0, 1, 2} : d = IF c.scause = "timer" THEN 2 ELSE 1
  OBVIOUS
<1>5. th' = [z EXCEPT ![u] = [z[u] EXCEPT !.at = <<l>>, !.dev = d]]
  BY <1>1, <1>3, <1>4 DEF Devintr
<1>6. /\ th'[u] = [z[u] EXCEPT !.at = <<l>>, !.dev = d]
      /\ \A t \in Thread : t # u => th'[t] = z[t]
  BY <1>2, <1>5
<1>7. z[u] \in ThreadType /\ s[u] \in ThreadType /\ Alike(s[u], z[u])
  BY <1>2
<1>8. th'[u] \in ThreadType /\ th'[u].at = <<l>> /\ Alike([s[u] EXCEPT !.at = <<l>>], th'[u])
  <2>1. /\ th'[u] \in ThreadType /\ th'[u].at = <<l>> /\ th'[u].epc = z[u].epc
        /\ th'[u].hartid = z[u].hartid /\ th'[u].regs = z[u].regs /\ th'[u].sepc = z[u].sepc
        /\ th'[u].spp = z[u].spp /\ th'[u].spie = z[u].spie /\ th'[u].intena = z[u].intena
        /\ th'[u].state = z[u].state
    BY ZenonT(60), <1>4, <1>6, <1>7 DEF ThreadType
  <2>2. PICK q : q = [s[u] EXCEPT !.at = <<l>>]
    OBVIOUS
  <2>3. /\ q.at = <<l>> /\ q.epc = s[u].epc /\ q.hartid = s[u].hartid /\ q.regs = s[u].regs
        /\ q.sepc = s[u].sepc /\ q.spp = s[u].spp /\ q.spie = s[u].spie
        /\ q.intena = s[u].intena /\ q.state = s[u].state
    BY <1>7, <2>2 DEF ThreadType
  <2>4. Alike(q, th'[u])
    BY <1>7, <2>1, <2>3 DEF Alike
  <2> QED
    BY <2>1, <2>2, <2>4
<1>9. th' \in [Thread -> ThreadType]
  BY <1>2, <1>5, <1>8
<1>10. ticks' \in 0 .. UINT - 1
  <2>1. ticks \in 0 .. UINT - 1 /\ UINT \in Nat \ {0}
    BY TrapAssumption DEF TrapInv, TypeOK
  <2>2. (ticks + 1) % UINT \in 0 .. UINT - 1
    BY <2>1
  <2> QED
    BY <2>1, <2>2 DEF Devintr
<1> QED
  BY <1>2, <1>3, <1>6, <1>8, <1>9, <1>10

\* usertrap() has saved what the process goes on with.
LEMMA FromUservec ==
  ASSUME TrapInv, NEW h \in Hart, NEW t \in Proc, t = On(h), th[t].at = <<"uservec">>,
         TypeOK', ~panic', due' = due,
         \A g \in Hart : g # h => cpu'[g] = cpu[g],
         \A s \in Thread : s # t => Alike(th[s], th'[s]),
         th'[t].at \in Base, th'[t].state = th[t].state,
         th'[t].epc = due[t].user, th'[t].regs = t,
         cpu'[h].on = t, cpu'[h].mode = "S", cpu'[h].tp = h, cpu'[h].stvec = "kernelvec"
  PROVE  TrapInv'
<1>0. t \in Thread /\ h \notin Proc
  BY TrapAssumption DEF Thread
<1>1. HartInv(h) /\ SavedInv(th[t], t, due[t])
  BY HartFacts
<1>2. th'[t].at \in Plain /\ th'[t].at \notin {<<"sret">>, <<"nap">>, <<"doze">>}
  BY DEF Plain, Base
<1>3. /\ th'[t].at \notin UserPc \union Handling
      /\ th'[t].at \in InKernel /\ th'[t].at \in ProcPlaces
      /\ th'[t].at \notin {<<"forkret">>, <<"zombie">>, <<"uservec">>, <<"restore">>,
                           <<"kernelvec">>, <<"endkernel">>}
  BY <1>2, PlainPlaces DEF Handling
<1>4. RegInv(cpu'[h], h, t, th'[t].at, due'[t])
  BY <1>2, <1>3 DEF RegInv
<1>5. due[t].user \in UserPc /\ due[t].kernel = None /\ th[t].state = "RUNNING"
  BY <1>0, <1>1, AfterInUser DEF HartInv, RegInv, SavedInv, Handling
<1>6. SavedInv(th'[t], t, due'[t])
  BY <1>2, <1>3, <1>5 DEF SavedInv
<1> QED
  BY <1>0, <1>3, <1>4, <1>6, StayStep

\* usertrap() otherwise: a system call, a fault, or a device.
LEMMA UsertrapInv == ASSUME TrapInv, NEW h \in Hart, Usertrap(h) PROVE TrapInv'
<1>0. CASE cpu[h].scause = "ecall" /\ th[On(h)].killed
  BY <1>0, UsertrapExitInv
<1>1. PICK t \in Thread : t = On(h)
  BY HartFacts
<1>2. /\ cpu[h] \in Cpu /\ th[t] \in ThreadType /\ HartInv(h) /\ SavedInv(th[t], t, due[t])
  BY <1>1, HartFacts
<1>3. /\ cpu[h].mode = "S" /\ th[t].at = <<"uservec">> /\ due' = due
  BY <1>1 DEF Usertrap, At
<1>4. /\ t \in Proc /\ th[t].hartid = h /\ cpu[h].spp = "U" /\ cpu[h].tp = t
      /\ cpu[h].sepc \in UserPc /\ cpu[h].scause \in Causes /\ cpu[h].on = t
      /\ due[t].user = IF cpu[h].scause = "ecall" THEN After(cpu[h].sepc) ELSE cpu[h].sepc
  BY <1>1, <1>2, <1>3 DEF SavedInv, HartPlaces, HartInv, RegInv, On
<1>5. PICK c : c = [[cpu[h] EXCEPT !.tp = h] EXCEPT !.stvec = "kernelvec"]
  OBVIOUS
<1>6. /\ c \in Cpu /\ c.tp = h /\ c.stvec = "kernelvec" /\ c.mode = "S" /\ c.on = t
      /\ c.spp = "U" /\ c.scause = cpu[h].scause /\ c.sepc = cpu[h].sepc
  BY <1>2, <1>3, <1>4, <1>5 DEF Cpu, Thread
<1>7. PICK a : a = [c EXCEPT !.sepc = None, !.scause = None]
  OBVIOUS
<1>8. a \in Cpu /\ a.tp = h /\ a.stvec = "kernelvec" /\ a.mode = "S" /\ a.on = t
  BY <1>6, <1>7 DEF Cpu
<1>9. PICK e \in UserPc : e = c.sepc
  BY <1>4, <1>6
<1>10. PICK r : r = [[th[t] EXCEPT !.regs = t, !.hartid = None] EXCEPT !.epc = e]
  OBVIOUS
<1>11. /\ r \in ThreadType /\ r.epc = e /\ r.regs = t /\ r.state = th[t].state
  BY <1>2, <1>9, <1>10 DEF ThreadType
<1>12. PICK s : s = [th EXCEPT ![t] = r]
  OBVIOUS
<1>13. /\ s \in [Thread -> ThreadType] /\ s[t] = r
       /\ \A u \in Thread : u # t => s[u] = th[u]
  BY <1>11, <1>12 DEF TrapInv, TypeOK
<1>14. /\ [Uservec(cpu[h], th[t]) EXCEPT !.stvec = "kernelvec"] = c
       /\ [th EXCEPT ![t] = [UservecSaved(cpu[h], @) EXCEPT !.epc = c.sepc]] = s
  BY <1>4, <1>5, <1>9, <1>10, <1>12 DEF Uservec, UservecSaved
<1>15. ~panic'
  BY <1>1, <1>6, <1>14 DEF Usertrap
<1>18. /\ c.scause = "ecall" /\ ~th[t].killed =>
            /\ cpu' = [cpu EXCEPT ![h] = [a EXCEPT !.sie = TRUE]]
            /\ th' = [s EXCEPT ![t].epc = After(@), ![t].at = <<"syscall">>]
       /\ c.scause = "fault" =>
            /\ cpu' = [cpu EXCEPT ![h] = a]
            /\ th' = [s EXCEPT ![t].killed = TRUE, ![t].at = <<"endtrap">>]
  BY <1>1, <1>7, <1>14 DEF Usertrap
<1>19. c.scause \in {"ecall", "fault"} => ticks' = ticks
  BY <1>1, <1>14 DEF Usertrap
<1>16. ticks \in 0 .. UINT - 1 /\ cpu \in [Hart -> Cpu]
       /\ due \in [Thread -> [user : UserPc \union {None}, kernel : Places \union {None}]]
  BY DEF TrapInv, TypeOK
<1>17. <<"endtrap">> \in Base /\ <<"syscall">> \in Base
       /\ <<"endtrap">> \in Places /\ <<"syscall">> \in Places
  BY DEF Base, Places, ProcPlaces, InKernel
<1>20. CASE cpu[h].scause = "ecall" /\ ~th[On(h)].killed
  <2>1. /\ cpu' = [cpu EXCEPT ![h] = [a EXCEPT !.sie = TRUE]] /\ ticks' = ticks
        /\ th' = [s EXCEPT ![t].epc = After(@), ![t].at = <<"syscall">>]
    BY <1>1, <1>6, <1>18, <1>19, <1>20
  <2>2. PICK f \in UserPc : f = After(e)
    BY AfterInUser
  <2>3. th' = [s EXCEPT ![t] = [r EXCEPT !.epc = f, !.at = <<"syscall">>]]
    BY <1>11, <1>13, <2>1, <2>2
  <2>4. /\ th'[t] = [r EXCEPT !.epc = f, !.at = <<"syscall">>]
        /\ \A u \in Thread : u # t => th'[u] = th[u]
    BY <1>13, <2>3
  <2>50. /\ th'[t] \in ThreadType /\ th'[t].at = <<"syscall">> /\ th'[t].state = r.state
         /\ th'[t].epc = f /\ th'[t].regs = r.regs
    BY ZenonT(60), <1>11, <1>17, <2>2, <2>4 DEF ThreadType
  <2>5. /\ th'[t] \in ThreadType /\ th'[t].at = <<"syscall">> /\ th'[t].state = th[t].state
        /\ th'[t].epc = due[t].user /\ th'[t].regs = t
    BY <1>4, <1>6, <1>9, <1>11, <1>20, <2>2, <2>50
  <2>6. /\ cpu'[h] = [a EXCEPT !.sie = TRUE] /\ \A g \in Hart : g # h => cpu'[g] = cpu[g]
    BY <1>16, <2>1
  <2>7. /\ cpu'[h] \in Cpu /\ cpu'[h].tp = h /\ cpu'[h].stvec = "kernelvec"
        /\ cpu'[h].mode = "S" /\ cpu'[h].on = t
    BY <1>8, <2>6 DEF Cpu
  <2>8. TypeOK'
    BY <1>3, <1>13, <1>16, <2>1, <2>3, <2>5, <2>7, <2>4, <2>6 DEF TypeOK
  <2>9. \A u \in Thread : u # t => Alike(th[u], th'[u])
    BY <2>4 DEF Alike
  <2>10. th'[t].at \in Base
    BY <1>17, <2>5
  <2> QED
    BY <1>1, <1>3, <1>4, <1>15, <2>5, <2>6, <2>7, <2>8, <2>9, <2>10, FromUservec
<1>21. CASE cpu[h].scause = "fault"
  <2>1. /\ cpu' = [cpu EXCEPT ![h] = a] /\ ticks' = ticks
        /\ th' = [s EXCEPT ![t].killed = TRUE, ![t].at = <<"endtrap">>]
    BY <1>6, <1>18, <1>19, <1>21
  <2>3. th' = [s EXCEPT ![t] = [r EXCEPT !.killed = TRUE, !.at = <<"endtrap">>]]
    BY <1>11, <1>13, <2>1
  <2>4. /\ th'[t] = [r EXCEPT !.killed = TRUE, !.at = <<"endtrap">>]
        /\ \A u \in Thread : u # t => th'[u] = th[u]
    BY <1>13, <2>3
  <2>50. /\ th'[t] \in ThreadType /\ th'[t].at = <<"endtrap">> /\ th'[t].state = r.state
         /\ th'[t].epc = r.epc /\ th'[t].regs = r.regs
    BY <1>11, <1>17, <2>4 DEF ThreadType
  <2>5. /\ th'[t] \in ThreadType /\ th'[t].at = <<"endtrap">> /\ th'[t].state = th[t].state
        /\ th'[t].epc = due[t].user /\ th'[t].regs = t
    BY <1>4, <1>6, <1>9, <1>11, <1>21, <2>50
  <2>6. /\ cpu'[h] = a /\ \A g \in Hart : g # h => cpu'[g] = cpu[g]
    BY <1>16, <2>1
  <2>8. TypeOK'
    BY <1>3, <1>8, <1>13, <1>16, <2>1, <2>3, <2>5 DEF TypeOK
  <2>9. \A u \in Thread : u # t => Alike(th[u], th'[u])
    BY <2>4 DEF Alike
  <2>10. th'[t].at \in Base
    BY <1>17, <2>5
  <2> QED
    BY <1>1, <1>3, <1>4, <1>8, <1>15, <2>5, <2>6, <2>8, <2>9, <2>10, FromUservec
<1>22. CASE cpu[h].scause \in {"timer", "external"}
  <2>1. cpu' = [cpu EXCEPT ![h] = a] /\ Devintr(c, s, "endtrap")
    BY <1>1, <1>6, <1>7, <1>14, <1>22 DEF Usertrap
  <2>2. /\ ticks' \in 0 .. UINT - 1 /\ th' \in [Thread -> ThreadType]
        /\ \A u \in Thread : u # t => Alike(s[u], th'[u])
        /\ th'[t].at = <<"endtrap">>
        /\ Alike([r EXCEPT !.at = <<"endtrap">>], th'[t])
    BY <1>6, <1>13, <1>17, <2>1, DevintrEffect
  <2>3. \A u \in Thread : u # t => Alike(th[u], th'[u])
    BY <1>13, <2>2
  <2>4. th[t].state = "RUNNING"
    BY <1>1, <1>2, <1>4, HartFacts DEF HartInv
  <2>5. th'[t].epc = due[t].user /\ th'[t].regs = t /\ th'[t].state = th[t].state
    BY <1>4, <1>6, <1>9, <1>11, <1>22, <2>2, <2>4 DEF Alike, ThreadType
  <2>6. /\ cpu'[h] = a /\ \A g \in Hart : g # h => cpu'[g] = cpu[g]
    BY <1>16, <2>1
  <2>8. TypeOK'
    BY <1>3, <1>8, <1>16, <2>1, <2>2 DEF TypeOK
  <2>10. th'[t].at \in Base
    BY <1>17, <2>2
  <2> QED
    BY <1>1, <1>3, <1>4, <1>8, <1>15, <2>3, <2>5, <2>6, <2>8, <2>10, FromUservec
<1> QED
  BY <1>0, <1>4, <1>20, <1>21, <1>22 DEF Causes

\* kerneltrap() up to its end: what it was entered with is on the stack.
LEMMA KerneltrapInv == ASSUME TrapInv, NEW h \in Hart, Kerneltrap(h) PROVE TrapInv'
<1>1. PICK t \in Thread : t = On(h)
  BY HartFacts
<1>2. /\ cpu[h] \in Cpu /\ th[t] \in ThreadType /\ HartInv(h) /\ SavedInv(th[t], t, due[t])
      /\ h \notin Proc
      /\ t = h \/ t \in Proc
  BY <1>1, HartFacts
<1>3. /\ cpu[h].mode = "S" /\ th[t].at = <<"kernelvec">> /\ due' = due
  BY <1>1 DEF Kerneltrap, At
<1>4. th[t].at \in Handling /\ th[t].at \in InKernel /\ th[t].at \notin {<<"uservec">>, <<"sret">>}
  BY <1>3 DEF Handling, InKernel
<1>5. /\ cpu[h].spp = "S" /\ cpu[h].spie /\ cpu[h].sepc = due[t].kernel /\ ~cpu[h].sie
      /\ cpu[h].tp = h /\ cpu[h].stvec = "kernelvec" /\ cpu[h].on = t
      /\ t \in Proc => th[t].state = "RUNNING"
  BY <1>1, <1>2, <1>3, <1>4 DEF HartInv, RegInv, On
<1>6. PICK r : r = [th[t] EXCEPT !.sepc = cpu[h].sepc, !.spp = cpu[h].spp, !.spie = cpu[h].spie]
  OBVIOUS
<1>7. /\ r \in ThreadType /\ r.sepc = due[t].kernel /\ r.spp = "S" /\ r.spie
      /\ r.epc = th[t].epc /\ r.regs = th[t].regs /\ r.state = th[t].state
  BY ZenonT(60), <1>2, <1>5, <1>6 DEF ThreadType, Cpu
<1>8. PICK s : s = [th EXCEPT ![t] = r]
  OBVIOUS
<1>9. /\ s \in [Thread -> ThreadType] /\ s[t] = r
      /\ \A u \in Thread : u # t => s[u] = th[u]
  BY <1>7, <1>8 DEF TrapInv, TypeOK
<1>10. /\ ~panic' /\ cpu' = [cpu EXCEPT ![h] = [cpu[h] EXCEPT !.scause = None]]
       /\ Devintr(cpu[h], s, "endkernel")
  BY <1>1, <1>5, <1>6, <1>8 DEF Kerneltrap
<1>11. <<"endkernel">> \in Places /\ <<"endkernel">> \in Handling
       /\ <<"endkernel">> \in ProcPlaces /\ <<"endkernel">> \in HartPlaces
       /\ <<"endkernel">> \in InKernel /\ <<"endkernel">> \notin UserPc
  BY PlacesDiffer DEF Places, ProcPlaces, InKernel, Handling, HartPlaces, UserPc
<1>12. /\ ticks' \in 0 .. UINT - 1 /\ th' \in [Thread -> ThreadType]
       /\ \A u \in Thread : u # t => Alike(s[u], th'[u])
       /\ th'[t].at = <<"endkernel">>
       /\ Alike([r EXCEPT !.at = <<"endkernel">>], th'[t])
  BY <1>2, <1>5, <1>9, <1>10, <1>11, DevintrEffect
<1>13. /\ th'[t].epc = th[t].epc /\ th'[t].regs = th[t].regs /\ th'[t].sepc = due[t].kernel
       /\ th'[t].spp = "S" /\ th'[t].spie
       /\ th'[t].state = th[t].state \/ (th[t].state = "SLEEPING" /\ th'[t].state = "RUNNABLE")
  BY <1>7, <1>12 DEF Alike, ThreadType
<1>14. \A u \in Thread : u # t => Alike(th[u], th'[u]) /\ due'[u] = due[u]
  BY <1>3, <1>9, <1>12
<1>15. /\ cpu'[h] = [cpu[h] EXCEPT !.scause = None]
       /\ \A g \in Hart : g # h => cpu'[g] = cpu[g]
  BY <1>10 DEF TrapInv, TypeOK
<1>16. /\ cpu'[h] \in Cpu /\ cpu'[h].on = t /\ cpu'[h].mode = "S" /\ cpu'[h].tp = h
       /\ cpu'[h].stvec = "kernelvec" /\ ~cpu'[h].sie
  BY <1>2, <1>3, <1>5, <1>15 DEF Cpu
<1>17. TypeOK'
  BY <1>3, <1>10, <1>12, <1>16 DEF TrapInv, TypeOK
<1>18. RegInv(cpu'[h], h, t, th'[t].at, due'[t])
  BY <1>11, <1>12, <1>16 DEF RegInv
<1>19. SavedInv(th'[t], t, due'[t])
  BY <1>2, <1>3, <1>4, <1>5, <1>11, <1>12, <1>13 DEF SavedInv
<1>20. On(h)' = t
  BY <1>16 DEF On
<1>21. HartInv(h)'
  <2>1. t # h => th'[h].at = <<"scan">>
    BY <1>1, <1>2, <1>14 DEF HartInv, Alike, Thread
  <2>2. t \in Proc => th'[t].state = "RUNNING"
    BY <1>5, <1>13
  <2>3. t = h \/ (t \in Proc /\ th'[t].state = "RUNNING" /\ th'[h].at = <<"scan">>)
    BY <1>2, <2>1, <2>2
  <2> QED
    BY <1>11, <1>12, <1>18, <1>20, <2>3 DEF HartInv
<1>22. SavedInv(th'[h], h, due'[h])
  <2>1. h \in Thread /\ SavedInv(th[h], h, due[h])
    BY HartFacts
  <2>2. CASE h = t
    BY <1>19, <2>2
  <2>3. CASE h # t
    BY <1>14, <2>1, <2>3, SavedFrame
  <2> QED
    BY <2>2, <2>3
<1> QED
  BY <1>1, <1>10, <1>14, <1>15, <1>17, <1>19, <1>20, <1>21, <1>22, HartStep

----------------------------------------------------------------------------
(***************************************************************************)
(* The theorems about traps                                                *)
(***************************************************************************)
\* The first instruction of a user program.
LEMMA FirstPc == <<"user", 0>> \in UserPc
  BY TrapAssumption DEF UserPc

\* main() and userinit() establish the invariant.
LEMMA InitTrapInv == Init => TrapInv
<1> SUFFICES ASSUME Init PROVE TrapInv
  OBVIOUS
<1>1. /\ Proc \intersect Hart = {} /\ Hart \subseteq Nat /\ UINT \in Nat \ {0, 1}
  BY TrapAssumption
<1>2. <<"user", 0>> \in UserPc /\ <<"user", 0>> \in Places
  BY FirstPc DEF Places, ProcPlaces
<1>3. /\ <<"forkret">> \in Places /\ <<"forkret">> \in InKernel /\ <<"forkret">> \in ProcPlaces
      /\ <<"forkret">> \notin Handling
      /\ <<"scan">> \in Places /\ <<"scan">> \in HartPlaces /\ <<"scan">> \notin Handling
      /\ <<"scan">> \notin UserPc
      /\ <<"scan">> \notin {<<"forkret">>, <<"zombie">>, <<"uservec">>, <<"sret">>, <<"nap">>, <<"doze">>,
                            <<"kernelvec">>, <<"endkernel">>, <<"restore">>}
  BY PlacesDiffer DEF Places, ProcPlaces, InKernel, Handling, HartPlaces, UserPc
<1>4. ASSUME NEW h \in Hart
      PROVE  /\ cpu[h] \in Cpu /\ On(h) = h /\ cpu[h].mode = "S" /\ cpu[h].tp = h
             /\ cpu[h].stvec = "kernelvec"
  BY DEF Init, Cpu, On, Thread
<1>5. ASSUME NEW t \in Proc
      PROVE  /\ th[t] \in ThreadType /\ th[t].at = <<"forkret">> /\ th[t].epc = <<"user", 0>>
             /\ th[t].regs = t /\ th[t].state = "RUNNABLE"
  BY <1>2, <1>3 DEF Init, ThreadType, Thread0, Thread
<1>6. ASSUME NEW t \in Hart
      PROVE  th[t] \in ThreadType /\ th[t].at = <<"scan">>
  <2>1. t \in Thread /\ t \notin Proc
    BY <1>1 DEF Thread
  <2>2. th[t] = [Thread0 EXCEPT !.at = <<"scan">>]
    BY <2>1 DEF Init
  <2>3. Thread0 \in ThreadType
    BY <1>2, <1>3 DEF ThreadType, Thread0
  <2> QED
    BY <1>3, <2>2, <2>3 DEF ThreadType
<1>7. ASSUME NEW t \in Thread
      PROVE  /\ due[t] \in [user : UserPc \union {None}, kernel : Places \union {None}]
             /\ due[t].kernel = None /\ (t \in Proc => due[t].user = <<"user", 0>>)
  BY <1>2 DEF Init
<1>8. TypeOK
  <2>1. cpu \in [Hart -> Cpu]
    BY <1>4 DEF Init
  <2>2. th \in [Thread -> ThreadType]
    BY <1>5, <1>6 DEF Init, Thread
  <2>3. due \in [Thread -> [user : UserPc \union {None}, kernel : Places \union {None}]]
    BY <1>7 DEF Init
  <2>4. ticks = UINT - 1
    BY DEF Init
  <2>5. ticks \in 0 .. UINT - 1
    BY <1>1, <2>4
  <2> QED
    BY <2>1, <2>2, <2>3, <2>5 DEF TypeOK
<1>9. ASSUME NEW h \in Hart PROVE HartInv(h)
  <2>1. RegInv(cpu[h], h, h, th[h].at, due[h])
    BY <1>3, <1>4, <1>6 DEF RegInv
  <2> QED
    BY <1>3, <1>4, <1>6, <2>1 DEF HartInv
<1>10. ASSUME NEW t \in Thread PROVE SavedInv(th[t], t, due[t])
  <2>1. CASE t \in Proc
    BY <1>2, <1>3, <1>5, <1>7, <2>1 DEF SavedInv
  <2>2. CASE t \in Hart
    BY <1>1, <1>3, <1>6, <1>7, <2>2 DEF SavedInv
  <2> QED
    BY <2>1, <2>2 DEF Thread
<1>11. ~panic /\ \A g, h \in Hart : g # h => On(g) # On(h)
  BY <1>4 DEF Init
<1> QED
  BY <1>8, <1>9, <1>10, <1>11 DEF TrapInv

\* Every step keeps it.
LEMMA TrapInvStep == TrapInv /\ [Next]_vars => TrapInv'
<1> SUFFICES ASSUME TrapInv, [Next]_vars PROVE TrapInv'
  OBVIOUS
<1> HIDE DEF TrapInv
<1>1. ASSUME NEW h \in Hart, Handler(h) PROVE TrapInv'
  BY <1>1, UsertrapInv, KerneltrapInv, KernelYieldInv, RestoreInv, UserSretInv DEF Handler
<1>2. ASSUME NEW h \in Hart, Own(h) PROVE TrapInv'
  <2>1. CASE EndTrap(h)
    BY <2>1, EndTrapInv, EndTrapSchedInv
  <2>2. CASE Nap(h)
    BY <2>2, NapOverInv, NapTestInv
  <2>3. ASSUME NEW n \in Naps, SysSleep(h, n) PROVE TrapInv'
    BY <2>3, SysSleepInv
  <2>4. ASSUME NEW p \in Proc, Dispatch(h, p) PROVE TrapInv'
    BY <2>4, DispatchInv
  <2> QED
    BY <1>2, <2>1, <2>2, <2>3, <2>4, UserStepInv, UsertrapretInv, SysOtherInv, NapLockInv,
       NapSleepInv, ScanEndInv DEF Own
<1>3. ASSUME NEW h \in Hart, NEW c \in Causes, Trap(h, c) PROVE TrapInv'
  <2>1. cpu[h] \in Cpu
    BY HartFacts
  <2>2. cpu[h].mode = "U" \/ cpu[h].mode = "S"
    BY <2>1 DEF Cpu
  <2> QED
    BY <1>3, <2>2, UserTrapInv, KernelTrapInv
<1>4. ASSUME NEW p \in Proc, Kill(p) PROVE TrapInv'
  BY <1>4, KillInv
<1>5. CASE UNCHANGED vars
  BY <1>5 DEF vars, TrapInv, TypeOK, HartInv, On
<1> QED
  BY <1>1, <1>2, <1>3, <1>4, <1>5 DEF Next, Causes

\* The registers of every hart and what every thread has saved fit together.
THEOREM TrapInvariance == Spec => []TrapInv
  BY InitTrapInv, TrapInvStep, PTL DEF Spec

\* usertrap() and kerneltrap() do not panic, cpuid() is right in the kernel, a
\* user program has its own registers, and no thread runs on two harts.
THEOREM TrapChecksHold == Spec => []TrapChecks
<1>1. TrapInv => TrapChecks
  BY DEF TrapInv, TrapChecks, HartInv, RegInv, On
<1> QED
  BY <1>1, TrapInvariance, PTL

\* Only userret enters user mode, and what the history says of the other steps
\* of a hart is what the invariant says.
LEMMA KeepsMode ==
  ASSUME TrapInv, NEW h \in Hart,
         Usertrap(h) \/ Kerneltrap(h) \/ KernelYield(h) \/ Own(h)
  PROVE  due' = due /\ \A g \in Hart : cpu'[g].mode = "U" => cpu[g].mode = "U"
<1>0. /\ cpu[h] \in Cpu /\ cpu \in [Hart -> Cpu] /\ On(h) \in Thread
  BY HartFacts DEF TrapInv, TypeOK
<1>1. ASSUME NEW c \in Cpu, c.mode = "S", NEW p, NEW st, NEW l, Sched(h, c, p, st, l)
      PROVE  \A g \in Hart : cpu'[g].mode = "U" => cpu[g].mode = "U"
  <2>1. cpu' = [cpu EXCEPT ![h] = PopOff([c EXCEPT !.on = h])]
    BY <1>1 DEF Sched
  <2>2. PopOff([c EXCEPT !.on = h]).mode = "S"
    BY <1>1 DEF PopOff, Cpu
  <2> QED
    BY <1>0, <2>1, <2>2
<1>2. PushOff(cpu[h]) \in Cpu /\ PushOff(cpu[h]).mode = cpu[h].mode
      /\ PopOff(cpu[h]).mode = cpu[h].mode
  BY <1>0, PushOffCpu DEF PopOff, Cpu
<1>3. CASE Usertrap(h)
  <2>1. TrapInv' /\ cpu[h].mode = "S" /\ due' = due
    BY <1>3, UsertrapInv DEF Usertrap, At
  <2>2. PICK c : c = [Uservec(cpu[h], th[On(h)]) EXCEPT !.stvec = "kernelvec"]
    OBVIOUS
  <2>3. PICK a : a = [c EXCEPT !.sepc = None, !.scause = None]
    OBVIOUS
  <2>4. /\ Exit(h, a) \/ cpu' = [cpu EXCEPT ![h] = a]
             \/ cpu' = [cpu EXCEPT ![h] = [a EXCEPT !.sie = TRUE]]
        /\ a.mode = "S" /\ [a EXCEPT !.sie = TRUE].mode = "S"
    <3>1. a.mode = "S" /\ [a EXCEPT !.sie = TRUE].mode = "S"
      BY <1>0, <2>1, <2>2, <2>3 DEF Cpu, Uservec
    <3> QED
      BY <1>3, <2>2, <2>3, <3>1 DEF Usertrap
  <2>5. CASE Exit(h, a)
    <3>1. cpu' = [cpu EXCEPT ![h] = PopOff([PushOff(a) EXCEPT !.on = h])]
      BY <2>5 DEF Exit, Sched
    <3>2. PopOff([PushOff(a) EXCEPT !.on = h]).mode = "S"
      BY <1>0, <2>1, <2>2, <2>3 DEF PopOff, PushOff, Cpu, Uservec
    <3> QED
      BY <1>0, <2>1, <3>1, <3>2
  <2> QED
    BY <1>0, <2>1, <2>4, <2>5
<1>4. CASE Kerneltrap(h)
  <2>1. cpu' = [cpu EXCEPT ![h] = [cpu[h] EXCEPT !.scause = None]] /\ due' = due
    BY <1>4 DEF Kerneltrap
  <2>2. [cpu[h] EXCEPT !.scause = None].mode = cpu[h].mode
    BY <1>0 DEF Cpu
  <2> QED
    BY <1>0, <2>1, <2>2
<1>5. CASE KernelYield(h)
  BY <1>1, <1>2, <1>5 DEF KernelYield, Yield, Others, At
<1>6. CASE EndTrap(h)
  BY <1>1, <1>2, <1>6 DEF EndTrap, Yield, Exit, Others, At
<1>7. CASE Nap(h)
  <2>1. cpu[h].mode = "S" /\ due' = due
    BY <1>7 DEF Nap, At
  <2>2. CASE Early(On(h)) /\ ~th[On(h)].killed
    BY <1>7, <2>1, <2>2 DEF Nap
  <2>3. CASE ~(Early(On(h)) /\ ~th[On(h)].killed)
    BY <1>0, <1>2, <1>7, <2>1, <2>3 DEF Nap
  <2> QED
    BY <2>2, <2>3
<1>71. CASE NapSleep(h)
  BY <1>0, <1>1, <1>71 DEF NapSleep, At
<1>8. CASE NapLock(h) \/ (\E n \in Naps : SysSleep(h, n))
  BY <1>0, <1>2, <1>8 DEF NapLock, SysSleep
<1>9. CASE UserStep(h) \/ SysOther(h) \/ SysUptime(h)
  BY <1>9 DEF UserStep, SysOther, SysUptime, Others
<1>10. CASE Usertrapret(h)
  <2>1. cpu' = [cpu EXCEPT ![h] = [IntrOff(cpu[h]) EXCEPT !.stvec = "uservec"]] /\ due' = due
    BY <1>10 DEF Usertrapret, Others
  <2>2. [IntrOff(cpu[h]) EXCEPT !.stvec = "uservec"].mode = cpu[h].mode
    BY <1>0 DEF IntrOff, Cpu
  <2> QED
    BY <1>0, <2>1, <2>2
<1>11. CASE ScanEnd(h)
  <2>1. cpu' = [cpu EXCEPT ![h] = IntrOn(cpu[h])] /\ due' = due
    BY <1>11 DEF ScanEnd, Others
  <2>2. IntrOn(cpu[h]).mode = cpu[h].mode
    BY <1>0 DEF IntrOn, Cpu
  <2> QED
    BY <1>0, <2>1, <2>2
<1>12. ASSUME NEW p \in Proc, Dispatch(h, p)
       PROVE  due' = due /\ \A g \in Hart : cpu'[g].mode = "U" => cpu[g].mode = "U"
  <2>1. PICK c, i : c \in Cpu /\ c = PushOff(cpu[h]) /\ c.mode = cpu[h].mode
           /\ cpu' = [cpu EXCEPT ![h] = PopOff([c EXCEPT !.on = p, !.intena = i])]
    BY <1>2, <1>12 DEF Dispatch
  <2>2. PopOff([c EXCEPT !.on = p, !.intena = i]).mode = cpu[h].mode
    BY <2>1 DEF PopOff, Cpu
  <2> QED
    BY <1>0, <1>12, <2>1, <2>2 DEF Dispatch, Others
<1> QED
  BY <1>3, <1>4, <1>5, <1>6, <1>7, <1>71, <1>8, <1>9, <1>10, <1>11, <1>12 DEF Own

\* Control comes back to where it was, for what runs on hart h.
Resumed(h) ==
  LET t == cpu[h].on
  IN  /\ (cpu[h].mode = "S" /\ cpu'[h].mode = "U") => th'[t].at = due[t].user
      /\ (due[t].kernel # None /\ due'[t].kernel = None) => th'[t].at = due[t].kernel

\* sret to user space goes where the trap came from, or behind the ecall.
LEMMA UserSretResumes ==
  ASSUME TrapInv, NEW h \in Hart, UserSret(h), NEW f \in Hart
  PROVE  Resumed(f)
<1>1. PICK t \in Thread : t = On(h)
  BY HartFacts
<1>2. SavedInv(th[t], t, due[t]) /\ HartInv(h) /\ h \notin Proc /\ th[t] \in ThreadType
  BY <1>1, HartFacts
<1>3. th[t].at = <<"sret">>
  BY <1>1 DEF UserSret, At
<1>4. t \in Proc /\ th[t].epc = due[t].user
  BY <1>2, <1>3 DEF SavedInv, HartPlaces, InKernel
<1>5. /\ \A g \in Hart : g # h => cpu'[g] = cpu[g]
      /\ due' = [due EXCEPT ![t] = [due[t] EXCEPT !.user = None]]
  BY <1>1 DEF UserSret, On, TrapInv, TypeOK
<1>6. \A s \in Thread : due'[s].kernel = due[s].kernel
  BY <1>5 DEF TrapInv, TypeOK
<1>7. th'[t].at = th[t].epc
  BY <1>1, <1>2 DEF UserSret, TrapInv, TypeOK, ThreadType
<1>8. cpu[f].on \in Thread /\ (f = h => cpu[f].on = t)
  BY <1>1, HartFacts DEF On
<1> QED
  BY <1>4, <1>5, <1>6, <1>7, <1>8, SMTT(30) DEF Resumed

\* sret in the kernel goes where the interrupt came from, on whichever hart.
LEMMA RestoreResumes ==
  ASSUME TrapInv, NEW h \in Hart, Restore(h), NEW f \in Hart
  PROVE  Resumed(f)
<1>1. PICK t \in Thread : t = On(h)
  BY HartFacts
<1>2. /\ SavedInv(th[t], t, due[t]) /\ th[t] \in ThreadType /\ cpu[h] \in Cpu
      /\ cpu \in [Hart -> Cpu] /\ th \in [Thread -> ThreadType]
  BY <1>1, HartFacts DEF TrapInv, TypeOK
<1>3. th[t].at \in {<<"endkernel">>, <<"restore">>}
  BY <1>1 DEF Restore, At
<1>4. th[t].sepc = due[t].kernel /\ th[t].spp = "S"
  BY <1>2, <1>3 DEF SavedInv
<1>5. PICK c : c = Restored(cpu[h], th[t])
  OBVIOUS
<1>6. c \in Cpu /\ c.spp = "S" /\ c.sepc = due[t].kernel
  BY <1>2, <1>4, <1>5 DEF Restored, Cpu, ThreadType
<1>7. cpu' = [cpu EXCEPT ![h] = Sret(c)]
  BY <1>1, <1>5 DEF Restore, Kernelvec
<1>8. cpu'[h].mode = "S" /\ \A g \in Hart : g # h => cpu'[g] = cpu[g]
  BY <1>2, <1>6, <1>7, SretCpu
<1>9. th'[t].at = due[t].kernel
  <2>1. th' = [th EXCEPT ![t] = [th[t] EXCEPT !.at = c.sepc, !.sepc = None, !.spp = "S",
                                             !.spie = FALSE, !.dev = 0]]
    BY <1>1, <1>5 DEF Restore
  <2> QED
    BY <1>2, <1>6, <2>1 DEF ThreadType
<1>10. \A s \in Thread : s # t => due'[s] = due[s]
  BY <1>1 DEF Restore, On, TrapInv, TypeOK
<1>11. cpu[f].on \in Thread /\ (f # h => cpu[f].on # t) /\ (f = h => cpu[f].on = t)
  BY <1>1, HartFacts DEF On, TrapInv
<1> QED
  BY <1>8, <1>9, <1>10, <1>11, SMTT(30) DEF Resumed

\* A trap loses no place to come back to: in the kernel there is none yet.
LEMMA TrapResumes ==
  ASSUME TrapInv, NEW h \in Hart, NEW cause, Trap(h, cause), NEW f \in Hart
  PROVE  Resumed(f)
<1>1. PICK t \in Thread : t = On(h)
  BY HartFacts
<1>2. /\ SavedInv(th[t], t, due[t]) /\ HartInv(h) /\ cpu[h] \in Cpu /\ cpu \in [Hart -> Cpu]
      /\ due \in [Thread -> [user : UserPc \union {None}, kernel : Places \union {None}]]
  BY <1>1, HartFacts DEF TrapInv, TypeOK
<1>3. cpu'[h].mode = "S" /\ \A g \in Hart : g # h => cpu'[g] = cpu[g]
  BY <1>2 DEF Trap, Cpu
<1>4. cpu[h].mode = "S" => due[t].kernel = None
  <2>1. cpu[h].mode = "S" => cpu[h].sie
    BY DEF Trap
  <2>2. cpu[h].mode = "S" => th[t].at \notin Handling
    BY <1>1, <1>2, <2>1 DEF HartInv, RegInv
  <2> QED
    BY <1>2, <2>2 DEF SavedInv
<1>5. cpu[h].mode = "U" => due'[t].kernel = due[t].kernel
  BY <1>1, <1>2 DEF Trap, On
<1>6. \A s \in Thread : s # t => due'[s] = due[s]
  BY <1>1, <1>2 DEF Trap, On
<1>7. cpu[f].on \in Thread /\ (f # h => cpu[f].on # t) /\ (f = h => cpu[f].on = t)
  BY <1>1, HartFacts DEF On, TrapInv
<1>8. cpu[h].mode = "U" \/ cpu[h].mode = "S"
  BY <1>2 DEF Cpu
<1> QED
  BY <1>3, <1>4, <1>5, <1>6, <1>7, <1>8, SMTT(30) DEF Resumed

\* Whatever is interrupted, nested, preempted and moved to another hart goes on
\* where it was, and a system call behind its ecall.
THEOREM Resumes == Spec => ResumesWhereInterrupted
<1>1. TrapInv /\ [Next]_vars => [\A h \in Hart : Resumed(h)]_vars
  <2> SUFFICES ASSUME TrapInv, Next, NEW f \in Hart PROVE Resumed(f)
    OBVIOUS
  <2> HIDE DEF TrapInv
  <2>1. ASSUME NEW h \in Hart, Usertrap(h) \/ Kerneltrap(h) \/ KernelYield(h) \/ Own(h)
        PROVE  Resumed(f)
    BY <2>1, KeepsMode DEF Resumed
  <2>2. ASSUME NEW p \in Proc, Kill(p) PROVE Resumed(f)
    BY <2>2 DEF Kill, Others, Resumed
  <2> QED
    BY <2>1, <2>2, UserSretResumes, RestoreResumes, TrapResumes DEF Next, Handler
<1>2. ResumesWhereInterrupted <=> [][\A h \in Hart : Resumed(h)]_vars
  BY DEF ResumesWhereInterrupted, Resumed
<1> QED
  BY <1>1, <1>2, TrapInvariance, PTL DEF Spec

----------------------------------------------------------------------------
(***************************************************************************)
(* The clock                                                               *)
(***************************************************************************)
\* The clock's part of the invariant reads the same of r and s.
SameNap(r, s) == s.at = r.at /\ s.ticks0 = r.ticks0 /\ s.elapsed = r.elapsed

\* A step of hart h that counts no tick and is not the start of a trap, and that
\* touches thread t, which runs on no other hart.
LEMMA ClockStep ==
  ASSUME TrapInv, ClockInv, NEW h \in Hart, NEW t \in Thread, ticks' = ticks,
         \A g \in Hart : g # h => cpu'[g] = cpu[g] /\ On(g) # t,
         \A s \in Thread : s # t => SameNap(th[s], th'[s]) /\ due'[s] = due[s],
         t \in Proc => NapInv(th'[t], due'[t]),
         t \in Proc /\ th'[t].ticks0 # None /\ Punctual => th'[t].elapsed < UINT - 1,
         th'[On(h)'].at \notin {<<"uservec">>, <<"kernelvec">>}
  PROVE  ClockInv'
<1>1. Proc \subseteq Thread
  BY DEF Thread
<1>2. ASSUME NEW p \in Proc PROVE NapInv(th[p], due[p])'
  <2>1. CASE p = t
    BY <2>1 DEF NapInv, InNap
  <2>2. CASE p # t
    <3>1. NapInv(th[p], due[p]) /\ SameNap(th[p], th'[p]) /\ due'[p] = due[p]
      BY <1>1, <2>2 DEF ClockInv
    <3> QED
      BY <3>1 DEF NapInv, InNap, SameNap
  <2> QED
    BY <2>1, <2>2
<1>3. ASSUME NEW g \in Hart, Counting(g)' PROVE Punctual'
  <2>1. g # h
    BY <1>3 DEF Counting
  <2>2. cpu'[g] = cpu[g] /\ On(g)' = On(g) /\ On(g) # t /\ On(g) \in Thread
    BY <2>1, HartFacts DEF On
  <2>3. th'[On(g)].at = th[On(g)].at
    BY <2>2 DEF SameNap
  <2>4. Counting(g)
    BY <1>3, <2>2, <2>3 DEF Counting
  <2>5. Punctual
    BY <2>4 DEF ClockInv
  <2>6. ASSUME NEW p \in Proc, th'[p].ticks0 # None PROVE th'[p].elapsed < UINT - 1
    <3>1. CASE p = t
      BY <2>5, <2>6, <3>1
    <3>2. CASE p # t
      BY <1>1, <2>5, <2>6, <3>2 DEF Punctual, Napping, SameNap
    <3> QED
      BY <3>1, <3>2
  <2> QED
    BY <2>6 DEF Punctual, Napping
<1> QED
  BY <1>2, <1>3 DEF ClockInv

\* The same where the clock's fields of t stay, and t is in a nap only if it was.
LEMMA ClockStay ==
  ASSUME TrapInv, ClockInv, NEW h \in Hart, NEW t \in Thread, ticks' = ticks,
         \A g \in Hart : g # h => cpu'[g] = cpu[g] /\ On(g) # t,
         \A s \in Thread : s # t => SameNap(th[s], th'[s]) /\ due'[s] = due[s],
         th'[t].ticks0 = th[t].ticks0, th'[t].elapsed = th[t].elapsed,
         t \in Proc => (InNap(th'[t], due'[t]) => InNap(th[t], due[t])),
         th'[On(h)'].at \notin {<<"uservec">>, <<"kernelvec">>}
  PROVE  ClockInv'
<1>1. t \in Proc => NapInv(th'[t], due'[t])
  BY DEF ClockInv, NapInv
<1>2. t \in Proc /\ th'[t].ticks0 # None /\ Punctual => th'[t].elapsed < UINT - 1
  BY DEF Punctual, Napping
<1> QED
  BY <1>1, <1>2, ClockStep

\* No sleep() ends in this step.
NoNapEnds == \A p \in Proc : th[p].at = <<"nap">> => th'[p].at # <<"endtrap">>

\* A thread runs on one hart.
LEMMA RunsOnce ==
  ASSUME TrapInv, NEW h \in Hart
  PROVE  \A g \in Hart : g # h => On(g) # On(h)
  BY DEF TrapInv

\* sched() by the process of hart h, in a nap or not.
LEMMA SchedClock ==
  ASSUME TrapInv, ClockInv, NEW h \in Hart, NEW c \in Cpu, NEW st, NEW l,
         On(h) \in Proc, Sched(h, c, On(h), st, l), ticks' = ticks, due' = due,
         InNap([at |-> <<l>>], due[On(h)]) => InNap(th[On(h)], due[On(h)]),
         <<l>> # <<"endtrap">>
  PROVE  ClockInv' /\ NoNapEnds
<1>1. PICK t \in Thread : t = On(h)
  BY HartFacts
<1>2. /\ th[t] \in ThreadType /\ th[h] \in ThreadType /\ h \notin Proc /\ h \in Thread
      /\ HartInv(h) /\ t \in Proc /\ t # h /\ th \in [Thread -> ThreadType]
      /\ cpu \in [Hart -> Cpu]
  BY <1>1, HartFacts DEF TrapInv, TypeOK
<1>3. /\ cpu' = [cpu EXCEPT ![h] = PopOff([c EXCEPT !.on = h])]
      /\ th' = [th EXCEPT ![t] = [th[t] EXCEPT !.state = st, !.at = <<l>>,
                                              !.intena = c.intena, !.dev = 0],
                          ![h] = [th[h] EXCEPT !.found = TRUE]]
  BY <1>1, <1>2 DEF Sched
<1>4. On(h)' = h /\ \A g \in Hart : g # h => cpu'[g] = cpu[g]
  BY <1>2, <1>3 DEF On, PopOff, Cpu
<1>5. /\ th'[t] = [th[t] EXCEPT !.state = st, !.at = <<l>>, !.intena = c.intena, !.dev = 0]
      /\ th'[h] = [th[h] EXCEPT !.found = TRUE]
      /\ \A s \in Thread : s # t /\ s # h => th'[s] = th[s]
  BY <1>2, <1>3
<1>6. /\ th'[t].at = <<l>> /\ th'[t].ticks0 = th[t].ticks0 /\ th'[t].elapsed = th[t].elapsed
      /\ SameNap(th[h], th'[h]) /\ th'[h].at = th[h].at
  BY <1>2, <1>5 DEF SameNap, ThreadType
<1>7. \A s \in Thread : s # t => SameNap(th[s], th'[s]) /\ due'[s] = due[s]
  BY <1>5, <1>6 DEF SameNap
<1>8. th[h].at = <<"scan">>
  BY <1>1, <1>2 DEF HartInv
<1>9. th'[On(h)'].at \notin {<<"uservec">>, <<"kernelvec">>}
  BY <1>4, <1>6, <1>8
<1>10. InNap(th'[t], due'[t]) => InNap(th[t], due[t])
  BY <1>1, <1>6 DEF InNap
<1>11. \A g \in Hart : g # h => cpu'[g] = cpu[g] /\ On(g) # t
  BY <1>1, <1>4, RunsOnce
<1>12. NoNapEnds
  BY <1>6, <1>7 DEF NoNapEnds, SameNap, Thread
<1> QED
  BY <1>6, <1>7, <1>9, <1>10, <1>11, <1>12, ClockStay

\* A step of hart h that writes thread t, which runs there afterwards.
LEMMA ClockOne ==
  ASSUME TrapInv, ClockInv, NEW h \in Hart, NEW t \in Thread, NEW q,
         ticks' = ticks, th' = [th EXCEPT ![t] = q], cpu'[h].on = t,
         \A g \in Hart : g # h => cpu'[g] = cpu[g] /\ On(g) # t,
         \A s \in Thread : s # t => due'[s] = due[s],
         q.ticks0 = th[t].ticks0, q.elapsed = th[t].elapsed,
         t \in Proc => (InNap(q, due'[t]) => InNap(th[t], due[t])),
         q.at \notin {<<"uservec">>, <<"kernelvec">>},
         th[t].at # <<"nap">> \/ q.at # <<"endtrap">>
  PROVE  ClockInv' /\ NoNapEnds
<1>1. th'[t] = q /\ \A s \in Thread : s # t => th'[s] = th[s]
  BY DEF TrapInv, TypeOK
<1>2. \A s \in Thread : s # t => SameNap(th[s], th'[s]) /\ due'[s] = due[s]
  BY <1>1 DEF SameNap
<1>3. th'[On(h)'].at \notin {<<"uservec">>, <<"kernelvec">>}
  BY <1>1 DEF On
<1>4. NoNapEnds
  BY <1>1 DEF NoNapEnds, Thread
<1> QED
  BY <1>1, <1>2, <1>3, <1>4, ClockStay

\* The labels at which a thread neither sleeps nor is interrupted.
Awake == {<<"syscall">>, <<"endtrap">>, <<"userret">>, <<"sret">>, <<"scan">>, <<"wfi">>}

\* A thread there, or in user space, is in no sleep().
LEMMA AwakePlaces ==
  ASSUME NEW q, NEW d, q.at \in Awake \union UserPc
  PROVE  ~InNap(q, d) /\ q.at \notin {<<"uservec">>, <<"kernelvec">>}
<1>1. CASE q.at \in Awake
  BY <1>1 DEF Awake, InNap, Handling
<1>2. CASE q.at \in UserPc
  BY <1>2, NotUser DEF InNap, Handling, InKernel, Base
<1> QED
  BY <1>1, <1>2

\* The same for the steps of a thread that is at such a place afterwards.
LEMMA AwakeStep ==
  ASSUME TrapInv, ClockInv, NEW h \in Hart, NEW t \in Thread, t = On(h), NEW q, NEW c,
         ticks' = ticks, th' = [th EXCEPT ![t] = q], cpu' = [cpu EXCEPT ![h] = c], c.on = t,
         \A s \in Thread : s # t => due'[s] = due[s],
         q.ticks0 = th[t].ticks0, q.elapsed = th[t].elapsed,
         q.at \in Awake \union UserPc, th[t].at # <<"nap">>
  PROVE  ClockInv' /\ NoNapEnds
<1>1. cpu'[h].on = t /\ \A g \in Hart : g # h => cpu'[g] = cpu[g] /\ On(g) # t
  BY RunsOnce DEF TrapInv, TypeOK
<1> QED
  BY <1>1, AwakePlaces, ClockOne

\* The steps that lead to such a place.
LEMMA AwakeClock ==
  ASSUME TrapInv, ClockInv, NEW h \in Hart,
         \/ UserStep(h) \/ SysOther(h) \/ SysUptime(h) \/ Usertrapret(h) \/ UserSret(h)
         \/ ScanEnd(h)
  PROVE  ClockInv' /\ NoNapEnds
<1>1. PICK t \in Thread : t = On(h)
  BY HartFacts
<1>2. /\ th[t] \in ThreadType /\ HartInv(h) /\ cpu[h] \in Cpu /\ cpu[h].on = t
      /\ cpu = [cpu EXCEPT ![h] = cpu[h]] /\ cpu \in [Hart -> Cpu]
      /\ SavedInv(th[t], t, due[t])
  BY <1>1, HartFacts DEF TrapInv, TypeOK, On
<1>3. CASE UserStep(h)
  <2>1. th[t].at \in UserPc
    BY <1>1, <1>2, <1>3 DEF UserStep, HartInv, RegInv
  <2>2. PICK a \in UserPc : a = After(th[t].at)
    BY <2>1, AfterInUser
  <2>3. PICK q : q = [th[t] EXCEPT !.at = a]
    OBVIOUS
  <2>4. th' = [th EXCEPT ![t] = q] /\ cpu' = cpu /\ due' = due /\ ticks' = ticks
    BY <1>1, <1>3, <2>2, <2>3 DEF UserStep, Others
  <2>5. q.at = a /\ q.ticks0 = th[t].ticks0 /\ q.elapsed = th[t].elapsed
    BY <1>2, <2>3 DEF ThreadType
  <2>6. th[t].at # <<"nap">>
    BY <2>1, NotUser DEF InKernel
  <2>7. q.at \in Awake \union UserPc
    BY <2>2, <2>5
  <2>8. cpu' = [cpu EXCEPT ![h] = cpu[h]]
    BY <1>2, <2>4
  <2> QED
    BY <1>1, <1>2, <2>4, <2>5, <2>6, <2>7, <2>8, AwakeStep
<1>4. CASE SysOther(h) \/ SysUptime(h)
  <2>1. PICK q : q = [th[t] EXCEPT !.at = <<"endtrap">>]
    OBVIOUS
  <2>2. /\ th' = [th EXCEPT ![t] = q] /\ cpu' = cpu /\ due' = due /\ ticks' = ticks
        /\ th[t].at = <<"syscall">>
    BY <1>1, <1>4, <2>1 DEF SysOther, SysUptime, At, Others
  <2>3. /\ q.at = <<"endtrap">> /\ q.ticks0 = th[t].ticks0 /\ q.elapsed = th[t].elapsed
    BY <1>2, <2>1 DEF ThreadType
  <2>4. q.at \in Awake \union UserPc /\ th[t].at # <<"nap">>
    BY <2>2, <2>3 DEF Awake
  <2>5. cpu' = [cpu EXCEPT ![h] = cpu[h]]
    BY <1>2, <2>2
  <2> QED
    BY <1>1, <1>2, <2>2, <2>3, <2>4, <2>5, AwakeStep
<1>5. CASE Usertrapret(h)
  <2>1. PICK q : q = [th[t] EXCEPT !.at = <<"sret">>]
    OBVIOUS
  <2>2. PICK c : c = [IntrOff(cpu[h]) EXCEPT !.stvec = "uservec"]
    OBVIOUS
  <2>3. /\ th' = [th EXCEPT ![t] = q] /\ cpu' = [cpu EXCEPT ![h] = c]
        /\ due' = due /\ ticks' = ticks /\ th[t].at = <<"userret">>
    BY <1>1, <1>5, <2>1, <2>2 DEF Usertrapret, At, Others
  <2>4. /\ q.at = <<"sret">> /\ q.ticks0 = th[t].ticks0 /\ q.elapsed = th[t].elapsed
        /\ c.on = t
    BY <1>2, <2>1, <2>2 DEF ThreadType, IntrOff, Cpu
  <2>5. q.at \in Awake \union UserPc /\ th[t].at # <<"nap">>
    BY <2>3, <2>4 DEF Awake
  <2> QED
    BY <1>1, <2>3, <2>4, <2>5, AwakeStep
<1>6. CASE UserSret(h)
  <2>1. PICK q : q = [th[t] EXCEPT !.hartid = cpu[h].tp, !.at = th[t].epc, !.epc = None,
                                  !.regs = None]
    OBVIOUS
  <2>2. PICK d : d = [cpu[h] EXCEPT !.spp = "U", !.spie = TRUE, !.sepc = th[t].epc]
    OBVIOUS
  <2>3. PICK c : c = Userret(d, th[t])
    OBVIOUS
  <2>4. /\ th' = [th EXCEPT ![t] = q] /\ cpu' = [cpu EXCEPT ![h] = c]
        /\ ticks' = ticks /\ th[t].at = <<"sret">>
        /\ due' = [due EXCEPT ![t] = [due[t] EXCEPT !.user = None]]
    BY <1>1, <1>6, <2>1, <2>2, <2>3 DEF UserSret, At
  <2>5. /\ q.at = th[t].epc /\ q.ticks0 = th[t].ticks0 /\ q.elapsed = th[t].elapsed
    BY <1>2, <2>1 DEF ThreadType
  <2>6. c.on = t
    BY <1>2, <2>2, <2>3 DEF Userret, Sret, Cpu
  <2>7. t \in Proc
    BY <1>2, <2>4 DEF SavedInv, HartPlaces
  <2>8. th[t].epc \in UserPc
    BY <1>2, <2>4, <2>7 DEF SavedInv, InKernel
  <2>9. q.at \in Awake \union UserPc /\ th[t].at # <<"nap">>
    BY <2>4, <2>5, <2>8
  <2>10. \A s \in Thread : s # t => due'[s] = due[s]
    BY <2>4 DEF TrapInv, TypeOK
  <2> QED
    BY <1>1, <2>4, <2>5, <2>6, <2>9, <2>10, AwakeStep
<1>7. CASE ScanEnd(h)
  <2>1. PICK l \in {<<"scan">>, <<"wfi">>} : l = IF th[h].found THEN <<"scan">> ELSE <<"wfi">>
    OBVIOUS
  <2>2. t = h
    BY <1>1, <1>7, ScanIsHart DEF ScanEnd
  <2>3. PICK q : q = [th[t] EXCEPT !.at = l, !.found = FALSE]
    OBVIOUS
  <2>4. PICK c : c = IntrOn(cpu[h])
    OBVIOUS
  <2>5. /\ th' = [th EXCEPT ![t] = q] /\ cpu' = [cpu EXCEPT ![h] = c]
        /\ due' = due /\ ticks' = ticks /\ th[t].at = <<"scan">>
    BY <1>1, <1>7, <2>1, <2>2, <2>3, <2>4 DEF ScanEnd, At, Others
  <2>6. /\ q.at = l /\ q.ticks0 = th[t].ticks0 /\ q.elapsed = th[t].elapsed /\ c.on = t
    BY <1>2, <2>3, <2>4 DEF ThreadType, IntrOn, Cpu
  <2>7. q.at \in Awake \union UserPc /\ th[t].at # <<"nap">>
    BY <2>1, <2>5, <2>6 DEF Awake
  <2> QED
    BY <1>1, <2>5, <2>6, <2>7, AwakeStep
<1> QED
  BY <1>3, <1>4, <1>5, <1>6, <1>7

\* The end of usertrap(): exit(), yield() or the way back.
LEMMA EndTrapClock ==
  ASSUME TrapInv, ClockInv, NEW h \in Hart, EndTrap(h)
  PROVE  ClockInv' /\ NoNapEnds
<1>1. PICK t \in Thread : t = On(h)
  BY HartFacts
<1>2. /\ th[t] \in ThreadType /\ HartInv(h) /\ cpu[h] \in Cpu /\ cpu[h].on = t
      /\ cpu \in [Hart -> Cpu] /\ SavedInv(th[t], t, due[t])
  BY <1>1, HartFacts DEF TrapInv, TypeOK, On
<1>3. th[t].at = <<"endtrap">> /\ due' = due /\ ticks' = ticks
  BY <1>1 DEF EndTrap, At, Others
<1>4. t \in Proc
  BY <1>2, <1>3 DEF SavedInv, HartPlaces
<1>5. PushOff(cpu[h]) \in Cpu
  BY <1>2, PushOffCpu
<1>6. ASSUME NEW st, NEW l \in {"zombie", "userret"}, Sched(h, PushOff(cpu[h]), t, st, l)
      PROVE  ClockInv' /\ NoNapEnds
  <2>1. ~InNap([at |-> <<l>>], due[On(h)]) /\ <<l>> # <<"endtrap">>
    BY DEF InNap, Handling
  <2> QED
    BY <1>1, <1>3, <1>4, <1>5, <1>6, <2>1, SchedClock
<1>7. CASE th[t].killed \/ th[t].dev = 2
  <2>1. \/ Sched(h, PushOff(cpu[h]), t, "ZOMBIE", "zombie")
        \/ Sched(h, PushOff(cpu[h]), t, "RUNNABLE", "userret")
    BY <1>1, <1>7 DEF EndTrap, Exit, Yield
  <2> QED
    BY <1>6, <2>1
<1>8. CASE ~(th[t].killed \/ th[t].dev = 2)
  <2>1. PICK q : q = [th[t] EXCEPT !.at = <<"userret">>, !.dev = 0]
    OBVIOUS
  <2>2. th' = [th EXCEPT ![t] = q] /\ cpu' = cpu
    BY <1>1, <1>8, <2>1 DEF EndTrap
  <2>3. q.at = <<"userret">> /\ q.ticks0 = th[t].ticks0 /\ q.elapsed = th[t].elapsed
    BY <1>2, <2>1 DEF ThreadType
  <2>4. q.at \in Awake \union UserPc /\ th[t].at # <<"nap">>
    BY <1>3, <2>3 DEF Awake
  <2>5. cpu' = [cpu EXCEPT ![h] = cpu[h]]
    BY <1>2, <2>2
  <2> QED
    BY <1>1, <1>2, <1>3, <2>2, <2>3, <2>4, <2>5, AwakeStep
<1> QED
  BY <1>7, <1>8

\* yield() in kerneltrap().
LEMMA KernelYieldClock ==
  ASSUME TrapInv, ClockInv, NEW h \in Hart, KernelYield(h)
  PROVE  ClockInv' /\ NoNapEnds
<1>1. /\ th[On(h)].at = <<"endkernel">> /\ On(h) \in Proc /\ due' = due /\ ticks' = ticks
      /\ Sched(h, PushOff(cpu[h]), On(h), "RUNNABLE", "restore")
  BY DEF KernelYield, At, Others, Yield
<1>2. PushOff(cpu[h]) \in Cpu
  BY HartFacts, PushOffCpu
<1>3. InNap([at |-> <<"restore">>], due[On(h)]) => InNap(th[On(h)], due[On(h)])
  BY <1>1 DEF InNap, Handling
<1> QED
  BY <1>1, <1>2, <1>3, SchedClock

\* The return to the interrupted place, a nap if that was one.
LEMMA RestoreClock ==
  ASSUME TrapInv, ClockInv, NEW h \in Hart, Restore(h)
  PROVE  ClockInv' /\ NoNapEnds
<1>1. PICK t \in Thread : t = On(h)
  BY HartFacts
<1>2. /\ SavedInv(th[t], t, due[t]) /\ th[t] \in ThreadType /\ cpu[h] \in Cpu
      /\ cpu \in [Hart -> Cpu] /\ cpu[h].on = t
  BY <1>1, HartFacts DEF TrapInv, TypeOK, On
<1>3. th[t].at \in {<<"endkernel">>, <<"restore">>} /\ ticks' = ticks
  BY <1>1 DEF Restore, At
<1>4. th[t].at \in Handling
  BY <1>3 DEF Handling
<1>5. th[t].sepc = due[t].kernel /\ due[t].kernel \in Interruptible(t)
  BY <1>2, <1>3, <1>4 DEF SavedInv
<1>6. PICK c : c = Restored(cpu[h], th[t])
  OBVIOUS
<1>7. c \in Cpu /\ c.sepc = due[t].kernel /\ c.on = t
  BY ZenonT(60), <1>2, <1>5, <1>6 DEF Restored, Cpu, ThreadType
<1>8. cpu' = [cpu EXCEPT ![h] = Sret(c)] /\ Sret(c).on = t
  BY <1>1, <1>6, <1>7, SretCpu DEF Restore, Kernelvec
<1>9. PICK q : q = [th[t] EXCEPT !.at = c.sepc, !.sepc = None, !.spp = "S", !.spie = FALSE,
                                !.dev = 0]
  OBVIOUS
<1>10. /\ th' = [th EXCEPT ![t] = q]
       /\ \A s \in Thread : s # t => due'[s] = due[s]
  BY <1>1, <1>6, <1>9 DEF Restore, TrapInv, TypeOK
<1>11. q.at = due[t].kernel /\ q.ticks0 = th[t].ticks0 /\ q.elapsed = th[t].elapsed
  BY <1>2, <1>7, <1>9 DEF ThreadType
<1>12. /\ q.at \notin Handling \union {<<"nap">>, <<"doze">>, <<"uservec">>, <<"kernelvec">>}
       /\ q.at = <<"napping">> => InNap(th[t], due[t])
  BY <1>4, <1>5, <1>11 DEF Interruptible, Base, Handling, InNap
<1>13. InNap(q, due'[t]) => InNap(th[t], due[t])
  BY <1>12 DEF InNap
<1>14. cpu'[h].on = t /\ \A g \in Hart : g # h => cpu'[g] = cpu[g] /\ On(g) # t
  BY <1>1, <1>2, <1>8, RunsOnce
<1>15. th[t].at # <<"nap">>
  BY <1>3
<1> QED
  BY <1>3, <1>10, <1>11, <1>12, <1>13, <1>14, <1>15, ClockOne

\* sleep() takes tickslock again.
LEMMA NapLockClock ==
  ASSUME TrapInv, ClockInv, NEW h \in Hart, NapLock(h)
  PROVE  ClockInv' /\ NoNapEnds
<1>1. PICK t \in Thread : t = On(h)
  BY HartFacts
<1>2. /\ th[t] \in ThreadType /\ cpu[h] \in Cpu /\ cpu \in [Hart -> Cpu] /\ cpu[h].on = t
  BY <1>1, HartFacts DEF TrapInv, TypeOK, On
<1>3. PICK q : q = [th[t] EXCEPT !.at = <<"nap">>]
  OBVIOUS
<1>4. /\ th' = [th EXCEPT ![t] = q] /\ cpu' = [cpu EXCEPT ![h] = PushOff(cpu[h])]
      /\ th[t].at = <<"napping">> /\ due' = due /\ ticks' = ticks
  BY <1>1, <1>3 DEF NapLock, At
<1>5. q.at = <<"nap">> /\ q.ticks0 = th[t].ticks0 /\ q.elapsed = th[t].elapsed
  BY <1>2, <1>3 DEF ThreadType
<1>6. PushOff(cpu[h]).on = t
  BY <1>2 DEF PushOff, Cpu
<1>7. cpu'[h].on = t /\ \A g \in Hart : g # h => cpu'[g] = cpu[g] /\ On(g) # t
  BY <1>1, <1>2, <1>4, <1>6, RunsOnce
<1>8. InNap(th[t], due[t])
  BY <1>4 DEF InNap
<1>9. q.at \notin {<<"uservec">>, <<"kernelvec">>} /\ q.at # <<"endtrap">>
  BY <1>5
<1> QED
  BY <1>4, <1>5, <1>7, <1>8, <1>9, ClockOne

\* The scheduler switches to a process.
LEMMA DispatchClock ==
  ASSUME TrapInv, ClockInv, NEW h \in Hart, NEW p \in Proc, Dispatch(h, p)
  PROVE  ClockInv' /\ NoNapEnds
<1>1. /\ p \in Thread /\ th[p] \in ThreadType /\ cpu[h] \in Cpu /\ cpu \in [Hart -> Cpu]
      /\ SavedInv(th[p], p, due[p]) /\ th[p].state = "RUNNABLE"
  BY HartFacts DEF TrapInv, TypeOK, Dispatch, Thread
<1>2. th[p].at \in {<<"forkret">>, <<"userret">>, <<"restore">>, <<"napping">>}
  BY <1>1 DEF SavedInv
<1>3. PICK l : l = IF th[p].at = <<"forkret">> THEN <<"userret">> ELSE th[p].at
  OBVIOUS
<1>4. PICK q : q = [th[p] EXCEPT !.state = "RUNNING", !.intena = FALSE, !.at = l]
  OBVIOUS
<1>5. th' = [th EXCEPT ![p] = q] /\ due' = due /\ ticks' = ticks
  BY <1>3, <1>4 DEF Dispatch, Others
<1>6. q.at = l /\ q.ticks0 = th[p].ticks0 /\ q.elapsed = th[p].elapsed
  BY <1>1, <1>4 DEF ThreadType
<1>7. l \in {<<"userret">>, <<"restore">>, <<"napping">>} /\ (l # <<"userret">> => l = th[p].at)
  BY <1>2, <1>3
<1>8. InNap(q, due'[p]) => InNap(th[p], due[p])
  BY <1>5, <1>6, <1>7 DEF InNap, Handling
<1>9. PICK c, i : c \in Cpu /\ cpu' = [cpu EXCEPT ![h] = PopOff([c EXCEPT !.on = p, !.intena = i])]
  BY <1>1, PushOffCpu DEF Dispatch
<1>10. PopOff([c EXCEPT !.on = p, !.intena = i]).on = p
  BY <1>9 DEF PopOff, Cpu
<1>11. \A g \in Hart : On(g) # p
  BY <1>1, HartFacts DEF HartInv
<1>12. cpu'[h].on = p /\ \A g \in Hart : g # h => cpu'[g] = cpu[g] /\ On(g) # p
  BY <1>1, <1>9, <1>10, <1>11
<1>13. q.at \notin {<<"uservec">>, <<"kernelvec">>} /\ q.at # <<"endtrap">>
  BY <1>6, <1>7
<1> QED
  BY <1>1, <1>5, <1>6, <1>8, <1>12, <1>13, ClockOne

\* sleep(n) begins.
LEMMA SysSleepClock ==
  ASSUME TrapInv, ClockInv, NEW h \in Hart, NEW n \in Naps, SysSleep(h, n)
  PROVE  ClockInv' /\ NoNapEnds
<1>1. PICK t \in Thread : t = On(h)
  BY HartFacts
<1>2. /\ th[t] \in ThreadType /\ cpu[h] \in Cpu /\ cpu \in [Hart -> Cpu] /\ cpu[h].on = t
      /\ ticks \in 0 .. UINT - 1 /\ UINT \in Nat \ {0, 1} /\ th \in [Thread -> ThreadType]
  BY <1>1, HartFacts, TrapAssumption DEF TrapInv, TypeOK, On
<1>3. PICK m : m = IF n < 0 THEN 0 ELSE n
  OBVIOUS
<1>4. PICK q : q = [th[t] EXCEPT !.n = m, !.ticks0 = ticks, !.elapsed = 0, !.at = <<"nap">>]
  OBVIOUS
<1>5. /\ th' = [th EXCEPT ![t] = q] /\ cpu' = [cpu EXCEPT ![h] = PushOff(cpu[h])]
      /\ th[t].at = <<"syscall">> /\ due' = due /\ ticks' = ticks
  BY <1>1, <1>3, <1>4 DEF SysSleep, At
<1>6. q.at = <<"nap">> /\ q.ticks0 = ticks /\ q.elapsed = 0
  BY <1>2, <1>4 DEF ThreadType
<1>7. th'[t] = q /\ \A s \in Thread : s # t => th'[s] = th[s]
  BY <1>2, <1>5
<1>8. PushOff(cpu[h]).on = t
  BY <1>2 DEF PushOff, Cpu
<1>9. cpu'[h].on = t /\ \A g \in Hart : g # h => cpu'[g] = cpu[g] /\ On(g) # t
  BY <1>1, <1>2, <1>5, <1>8, RunsOnce
<1>10. NapInv(th'[t], due'[t])
  <2>1. ticks # None /\ ticks - ticks = 0 /\ 0 < UINT /\ ticks < UINT
    BY <1>2, TrapAssumption
  <2> QED
    BY <1>6, <1>7, <2>1 DEF NapInv
<1>11. th'[t].elapsed < UINT - 1
  BY <1>2, <1>6, <1>7
<1>12. \A s \in Thread : s # t => SameNap(th[s], th'[s]) /\ due'[s] = due[s]
  BY <1>5, <1>7 DEF SameNap
<1>13. th'[On(h)'].at \notin {<<"uservec">>, <<"kernelvec">>}
  BY <1>6, <1>7, <1>9 DEF On
<1>14. NoNapEnds
  BY <1>6, <1>7 DEF NoNapEnds, Thread
<1> QED
  BY <1>5, <1>9, <1>10, <1>11, <1>12, <1>13, <1>14, ClockStep

\* The loop of sys_sleep() goes on to sleep().
LEMMA NapTestClock ==
  ASSUME TrapInv, ClockInv, NEW h \in Hart, Nap(h), Early(On(h)) /\ ~th[On(h)].killed
  PROVE  ClockInv' /\ NoNapEnds
<1>1. PICK t \in Thread : t = On(h)
  BY HartFacts
<1>2. th[t] \in ThreadType /\ cpu[h].on = t
  BY <1>1, HartFacts DEF On
<1>3. PICK q : q = [th[t] EXCEPT !.at = <<"doze">>]
  OBVIOUS
<1>4. /\ th' = [th EXCEPT ![t] = q] /\ cpu' = cpu
      /\ th[t].at = <<"nap">> /\ due' = due /\ ticks' = ticks
  BY <1>1, <1>3 DEF Nap, At
<1>5. q.at = <<"doze">> /\ q.ticks0 = th[t].ticks0 /\ q.elapsed = th[t].elapsed
  BY <1>2, <1>3 DEF ThreadType
<1>6. cpu'[h].on = t /\ \A g \in Hart : g # h => cpu'[g] = cpu[g] /\ On(g) # t
  BY <1>1, <1>2, <1>4, RunsOnce
<1>7. InNap(th[t], due[t])
  BY <1>4 DEF InNap
<1>8. q.at \notin {<<"uservec">>, <<"kernelvec">>} /\ q.at # <<"endtrap">>
  BY <1>5
<1> QED
  BY <1>4, <1>5, <1>6, <1>7, <1>8, ClockOne

\* sleep() gives the hart up.
LEMMA NapSleepClock ==
  ASSUME TrapInv, ClockInv, NEW h \in Hart, NapSleep(h)
  PROVE  ClockInv' /\ NoNapEnds
<1>1. /\ th[On(h)].at = <<"doze">> /\ due' = due /\ ticks' = ticks
      /\ Sched(h, cpu[h], On(h), "SLEEPING", "napping")
  BY DEF NapSleep, At
<1>2. cpu[h] \in Cpu /\ SavedInv(th[On(h)], On(h), due[On(h)])
  BY HartFacts
<1>3. On(h) \in Proc
  BY <1>1, <1>2 DEF SavedInv, HartPlaces
<1>4. InNap([at |-> <<"napping">>], due[On(h)]) => InNap(th[On(h)], due[On(h)])
  BY <1>1 DEF InNap
<1>5. <<"napping">> # <<"endtrap">>
  OBVIOUS
<1> QED
  BY <1>1, <1>2, <1>3, <1>4, <1>5, SchedClock

\* sleep(n) is over.
LEMMA NapOverClock ==
  ASSUME TrapInv, ClockInv, NEW h \in Hart, Nap(h), ~(Early(On(h)) /\ ~th[On(h)].killed)
  PROVE  ClockInv' /\ \A s \in Thread : s # On(h) => th'[s].at = th[s].at
<1>1. PICK t \in Thread : t = On(h)
  BY HartFacts
<1>2. /\ th[t] \in ThreadType /\ cpu[h] \in Cpu /\ cpu \in [Hart -> Cpu] /\ cpu[h].on = t
      /\ th \in [Thread -> ThreadType]
  BY <1>1, HartFacts DEF TrapInv, TypeOK, On
<1>3. PICK q : q = [th[t] EXCEPT !.at = <<"endtrap">>, !.n = 0, !.ticks0 = None, !.elapsed = 0]
  OBVIOUS
<1>4. /\ th' = [th EXCEPT ![t] = q] /\ cpu' = [cpu EXCEPT ![h] = PopOff(cpu[h])]
      /\ due' = due /\ ticks' = ticks
  BY <1>1, <1>3 DEF Nap
<1>5. q.at = <<"endtrap">> /\ q.ticks0 = None
  BY <1>2, <1>3 DEF ThreadType
<1>6. th'[t] = q /\ \A s \in Thread : s # t => th'[s] = th[s]
  BY <1>2, <1>4
<1>7. PopOff(cpu[h]).on = t
  BY <1>2 DEF PopOff, Cpu
<1>8. cpu'[h].on = t /\ \A g \in Hart : g # h => cpu'[g] = cpu[g] /\ On(g) # t
  BY <1>1, <1>2, <1>4, <1>7, RunsOnce
<1>9. NapInv(th'[t], due'[t])
  <2>1. q.at \in Awake \union UserPc
    BY <1>5 DEF Awake
  <2>2. ~InNap(q, due'[t])
    BY <2>1, AwakePlaces
  <2> QED
    BY <1>5, <1>6, <2>2 DEF NapInv
<1>10. \A s \in Thread : s # t => SameNap(th[s], th'[s]) /\ due'[s] = due[s]
  BY <1>4, <1>6 DEF SameNap
<1>11. th'[On(h)'].at \notin {<<"uservec">>, <<"kernelvec">>}
  BY <1>5, <1>6, <1>8 DEF On
<1> QED
  BY <1>1, <1>4, <1>5, <1>6, <1>8, <1>9, <1>10, <1>11, ClockStep

\* kill().
LEMMA KillClock == ASSUME TrapInv, ClockInv, NEW p \in Proc, Kill(p) PROVE ClockInv' /\ NoNapEnds
<1>1. p \in Thread /\ th[p] \in ThreadType /\ th \in [Thread -> ThreadType]
  BY DEF TrapInv, TypeOK, Thread
<1>2. PICK st : st = IF th[p].state = "SLEEPING" THEN "RUNNABLE" ELSE th[p].state
  OBVIOUS
<1>3. /\ th' = [th EXCEPT ![p] = [th[p] EXCEPT !.killed = TRUE, !.state = st]]
      /\ cpu' = cpu /\ due' = due /\ ticks' = ticks
  BY <1>2 DEF Kill, Others
<1>4. \A s \in Thread : SameNap(th[s], th'[s])
  BY <1>1, <1>3 DEF SameNap, ThreadType
<1>5. \A q \in Proc : NapInv(th[q], due[q])'
  BY <1>3, <1>4 DEF ClockInv, NapInv, InNap, SameNap, Thread
<1>6. Punctual => Punctual'
  BY <1>4 DEF Punctual, Napping, SameNap, Thread
<1>7. \A g \in Hart : Counting(g)' => Counting(g)
  BY <1>3, <1>4, HartFacts DEF Counting, SameNap, On
<1>8. NoNapEnds
  BY <1>4 DEF NoNapEnds, SameNap, Thread
<1> QED
  BY <1>5, <1>6, <1>7, <1>8 DEF ClockInv

\* A trap begins: the timer of hart 0 only when it is in time.
LEMMA TrapClock ==
  ASSUME TrapInv, ClockInv, NEW h \in Hart, NEW cause \in Causes, Trap(h, cause)
  PROVE  ClockInv' /\ NoNapEnds
<1>1. PICK t \in Thread : t = On(h)
  BY HartFacts
<1>2. /\ SavedInv(th[t], t, due[t]) /\ HartInv(h) /\ cpu[h] \in Cpu /\ cpu \in [Hart -> Cpu]
      /\ due \in [Thread -> [user : UserPc \union {None}, kernel : Places \union {None}]]
      /\ th[t] \in ThreadType /\ th \in [Thread -> ThreadType] /\ cpu[h].on = t
  BY <1>1, HartFacts DEF TrapInv, TypeOK, On
<1>3. PICK l \in {<<"uservec">>, <<"kernelvec">>} : l = <<cpu[h].stvec>>
  BY <1>2 DEF Cpu
<1>4. /\ th' = [th EXCEPT ![t] = [th[t] EXCEPT !.at = l]] /\ ticks' = ticks
  BY <1>1, <1>3 DEF Trap, On
<1>5. /\ th'[t].at = l /\ th'[t].ticks0 = th[t].ticks0 /\ th'[t].elapsed = th[t].elapsed
      /\ \A s \in Thread : s # t => th'[s] = th[s]
  BY <1>2, <1>4 DEF ThreadType
<1>6. /\ \A g \in Hart : g # h => cpu'[g] = cpu[g] /\ On(g) # t
      /\ cpu'[h].scause = cause /\ cpu'[h].on = t
  BY <1>1, <1>2, RunsOnce DEF Trap, Cpu
<1>7. /\ \A s \in Thread : s # t => due'[s] = due[s]
      /\ cpu[h].mode = "U" => due'[t].kernel = due[t].kernel
      /\ cpu[h].mode = "S" => due'[t].kernel = Pc(h)
  BY <1>1, <1>2 DEF Trap, On
<1>8. InNap(th'[t], due'[t]) => InNap(th[t], due[t])
  <2>1. CASE cpu[h].mode = "U"
    <3>1. l = <<"uservec">>
      BY <1>1, <1>2, <1>3, <2>1 DEF HartInv, RegInv
    <3> QED
      BY <1>5, <3>1 DEF InNap, Handling
  <2>2. CASE cpu[h].mode = "S"
    <3>1. due'[t].kernel = <<"napping">> => th[t].at = <<"napping">>
      BY <1>1, <1>7, <2>2 DEF Pc
    <3>2. l \notin {<<"nap">>, <<"doze">>, <<"napping">>}
      BY <1>3
    <3> QED
      BY <1>5, <3>1, <3>2 DEF InNap
  <2> QED
    BY <1>2, <2>1, <2>2 DEF Cpu
<1>9. ASSUME NEW p \in Proc PROVE NapInv(th[p], due[p])'
  <2>1. NapInv(th[p], due[p]) /\ p \in Thread
    BY DEF ClockInv, Thread
  <2>2. CASE p = t
    BY <1>4, <1>5, <1>8, <2>1, <2>2 DEF NapInv, InNap
  <2>3. CASE p # t
    BY <1>4, <1>5, <1>7, <2>1, <2>3 DEF NapInv, InNap
  <2> QED
    BY <2>2, <2>3
<1>10. Punctual => Punctual'
  BY <1>5 DEF Punctual, Napping, Thread
<1>11. ASSUME NEW g \in Hart, Counting(g)' PROVE Punctual'
  <2>1. CASE g = h
    BY <1>6, <1>10, <1>11, <2>1 DEF Counting, Trap
  <2>2. CASE g # h
    <3>1. On(g) \in Thread /\ On(g)' = On(g) /\ cpu'[g] = cpu[g] /\ th'[On(g)] = th[On(g)]
      BY <1>5, <1>6, <2>2, HartFacts DEF On
    <3> QED
      BY <1>10, <1>11, <3>1 DEF Counting, ClockInv
  <2> QED
    BY <2>1, <2>2
<1>12. NoNapEnds
  BY <1>3, <1>5 DEF NoNapEnds, Thread
<1> QED
  BY <1>9, <1>11, <1>12 DEF ClockInv

\* The clock is counted: ticks and the history of every nap go up by one.
LEMMA TickArith ==
  ASSUME NEW k \in 0 .. UINT - 1, NEW z \in Nat, NEW e \in Nat, z < UINT, e < UINT - 1,
         k - z \in {e, e - UINT}
  PROVE  ((k + 1) % UINT) - z \in {e + 1, (e + 1) - UINT} /\ e + 1 < UINT
<1>1. UINT \in Nat \ {0, 1}
  BY TrapAssumption
<1>2. (k + 1) % UINT = IF k + 1 = UINT THEN 0 ELSE k + 1
  BY <1>1
<1>3. PICK m : m = (k + 1) % UINT
  OBVIOUS
<1>4. CASE k + 1 = UINT
  <2>1. m = 0 /\ k = UINT - 1
    BY <1>1, <1>2, <1>3, <1>4
  <2>2. UINT - 1 - z \in {e, e - UINT} /\ z \in Nat /\ e \in Nat /\ z < UINT
    BY <2>1
  <2>3. 0 - z \in {e + 1, (e + 1) - UINT}
    BY <1>1, <2>2
  <2> QED
    BY <1>1, <1>3, <2>1, <2>3
<1>5. CASE k + 1 # UINT
  <2>1. m = k + 1
    BY <1>1, <1>2, <1>3, <1>5
  <2>2. (k + 1) - z \in {e + 1, (e + 1) - UINT}
    BY <1>1
  <2> QED
    BY <1>1, <1>3, <2>1, <2>2
<1> QED
  BY <1>4, <1>5

\* devintr() on hart h from usertrap() or kerneltrap(), with the registers and
\* the threads as they are by then.
LEMMA DevintrClock ==
  ASSUME TrapInv, ClockInv, NEW h \in Hart, NEW t \in Thread, t = On(h),
         th[t].at \in {<<"uservec">>, <<"kernelvec">>}, NEW c \in Cpu, c.on = t, c.tp = h,
         c.scause = cpu[h].scause, NEW s \in [Thread -> ThreadType],
         \A u \in Thread : SameNap(th[u], s[u]),
         NEW l \in {"endtrap", "endkernel"}, Devintr(c, s, l),
         l = "endtrap" => ~InNap([at |-> <<l>>], due[t]),
         l = "endkernel" => th[t].at \in Handling,
         due' = due, cpu'[h].on = t, \A g \in Hart : g # h => cpu'[g] = cpu[g]
  PROVE  ClockInv' /\ NoNapEnds
<1>1. h = 0 /\ c.scause = "timer" => Punctual
  BY DEF ClockInv, Counting
<1>2. PICK z : z = IF c.scause = "timer" /\ c.tp = 0 THEN Ticked(s) ELSE s
  OBVIOUS
<1>3. PICK d : d = IF c.scause = "timer" THEN 2 ELSE 1
  OBVIOUS
<1>4. /\ th' = [z EXCEPT ![t] = [z[t] EXCEPT !.at = <<l>>, !.dev = d]]
      /\ z \in [Thread -> ThreadType]
  BY <1>2, <1>3, TickedAlike DEF Devintr
<1>5. /\ th'[t].at = <<l>> /\ th'[t].ticks0 = z[t].ticks0 /\ th'[t].elapsed = z[t].elapsed
      /\ \A u \in Thread : u # t => th'[u] = z[u]
  BY <1>4 DEF ThreadType
<1>6. \A u \in Thread : z[u].at = th[u].at
  BY <1>2, TickedAlike DEF Alike, SameNap
<1>7. CASE c.scause = "timer" /\ h = 0
  <2>1. Punctual /\ ticks' = (ticks + 1) % UINT
    BY <1>1, <1>7 DEF Devintr
  <2>2. ASSUME NEW p \in Proc
        PROVE  /\ th'[p].ticks0 = th[p].ticks0
               /\ th[p].ticks0 # None => th'[p].elapsed = th[p].elapsed + 1
    <3>1. p \in Thread /\ s[p] \in ThreadType /\ SameNap(th[p], s[p])
      BY DEF Thread
    <3>2. /\ z[p].ticks0 = s[p].ticks0
          /\ th[p].ticks0 # None => z[p].elapsed = s[p].elapsed + 1
      BY <1>2, <1>7, <3>1 DEF Ticked, Napping, ThreadType
    <3> QED
      BY <1>5, <3>1, <3>2 DEF SameNap
  <2>3. ASSUME NEW p \in Proc PROVE NapInv(th[p], due[p])'
    <3>1. NapInv(th[p], due[p]) /\ p \in Thread /\ th[p] \in ThreadType /\ ticks \in 0 .. UINT - 1
      BY DEF ClockInv, Thread, TrapInv, TypeOK
    <3>2. InNap(th'[p], due'[p]) => InNap(th[p], due[p])
      BY <1>5, <1>6, <3>1 DEF InNap, Handling
    <3>3. CASE th[p].ticks0 = None
      BY <2>2, <3>1, <3>2, <3>3 DEF NapInv, InNap
    <3>4. CASE th[p].ticks0 # None
      <4>1. /\ th[p].elapsed < UINT - 1 /\ ticks - th[p].ticks0 \in {th[p].elapsed, th[p].elapsed - UINT}
            /\ th[p].ticks0 \in Nat /\ th[p].elapsed \in Nat /\ th[p].ticks0 < UINT
        BY <2>1, <3>1, <3>4 DEF Punctual, Napping, NapInv, ThreadType
      <4>2. /\ ticks' - th[p].ticks0 \in {th[p].elapsed + 1, (th[p].elapsed + 1) - UINT}
            /\ th[p].elapsed + 1 < UINT
        BY <2>1, <3>1, <4>1, TickArith
      <4> QED
        BY <2>2, <3>4, <4>1, <4>2 DEF NapInv
    <3> QED
      BY <3>3, <3>4
  <2>4. \A g \in Hart : ~Counting(g)'
    BY <1>5, <1>7 DEF Counting, On
  <2>5. NoNapEnds
    BY <1>5, <1>6 DEF NoNapEnds, Thread
  <2> QED
    BY <2>3, <2>4, <2>5 DEF ClockInv
<1>8. CASE ~(c.scause = "timer" /\ h = 0)
  <2>1. z = s /\ ticks' = ticks
    BY <1>2, <1>8 DEF Devintr
  <2>2. \A u \in Thread : u # t => SameNap(th[u], th'[u]) /\ due'[u] = due[u]
    BY <1>5, <2>1
  <2>3. th'[t].ticks0 = th[t].ticks0 /\ th'[t].elapsed = th[t].elapsed
    BY <1>5, <2>1 DEF SameNap
  <2>4. InNap(th'[t], due'[t]) => InNap(th[t], due[t])
    BY <1>5 DEF InNap, Handling
  <2>5. th'[On(h)'].at \notin {<<"uservec">>, <<"kernelvec">>}
    BY <1>5 DEF On
  <2>6. \A g \in Hart : g # h => cpu'[g] = cpu[g] /\ On(g) # t
    BY RunsOnce
  <2>7. NoNapEnds
    BY <1>5, <1>6, <2>1 DEF NoNapEnds, Thread
  <2> QED
    BY <2>1, <2>2, <2>3, <2>4, <2>5, <2>6, <2>7, ClockStay
<1> QED
  BY <1>7, <1>8

\* kerneltrap().
LEMMA KerneltrapClock ==
  ASSUME TrapInv, ClockInv, NEW h \in Hart, Kerneltrap(h)
  PROVE  ClockInv' /\ NoNapEnds
<1>1. PICK t \in Thread : t = On(h)
  BY HartFacts
<1>2. /\ cpu[h] \in Cpu /\ th[t] \in ThreadType /\ HartInv(h) /\ cpu[h].on = t
      /\ th \in [Thread -> ThreadType] /\ cpu \in [Hart -> Cpu]
  BY <1>1, HartFacts DEF TrapInv, TypeOK, On
<1>3. /\ cpu[h].mode = "S" /\ th[t].at = <<"kernelvec">> /\ due' = due
  BY <1>1 DEF Kerneltrap, At
<1>4. cpu[h].tp = h
  BY <1>1, <1>2, <1>3 DEF HartInv, RegInv
<1>5. PICK r : r = [th[t] EXCEPT !.sepc = cpu[h].sepc, !.spp = cpu[h].spp, !.spie = cpu[h].spie]
  OBVIOUS
<1>6. r \in ThreadType /\ SameNap(th[t], r)
  BY ZenonT(60), <1>2, <1>5 DEF ThreadType, Cpu, SameNap
<1>7. PICK s : s = [th EXCEPT ![t] = r]
  OBVIOUS
<1>8. s \in [Thread -> ThreadType] /\ \A u \in Thread : SameNap(th[u], s[u])
  BY <1>2, <1>6, <1>7 DEF SameNap
<1>9. /\ cpu' = [cpu EXCEPT ![h] = [cpu[h] EXCEPT !.scause = None]]
      /\ Devintr(cpu[h], s, "endkernel")
  BY <1>1, <1>2, <1>5, <1>7 DEF Kerneltrap
<1>10. cpu'[h].on = t /\ \A g \in Hart : g # h => cpu'[g] = cpu[g]
  BY <1>2, <1>9 DEF Cpu
<1>11. th[t].at \in Handling /\ th[t].at \in {<<"uservec">>, <<"kernelvec">>}
  BY <1>3 DEF Handling
<1> QED
  BY <1>1, <1>2, <1>3, <1>4, <1>8, <1>9, <1>10, <1>11, DevintrClock

\* usertrap().
LEMMA UsertrapClock ==
  ASSUME TrapInv, ClockInv, NEW h \in Hart, Usertrap(h)
  PROVE  ClockInv' /\ NoNapEnds
<1>1. PICK t \in Thread : t = On(h)
  BY HartFacts
<1>2. /\ cpu[h] \in Cpu /\ th[t] \in ThreadType /\ HartInv(h) /\ SavedInv(th[t], t, due[t])
      /\ cpu[h].on = t /\ th \in [Thread -> ThreadType] /\ cpu \in [Hart -> Cpu]
  BY <1>1, HartFacts DEF TrapInv, TypeOK, On
<1>3. /\ cpu[h].mode = "S" /\ th[t].at = <<"uservec">> /\ due' = due
  BY <1>1 DEF Usertrap, At
<1>4. /\ t \in Proc /\ th[t].hartid = h /\ cpu[h].tp = t
      /\ cpu[h].sepc \in UserPc /\ cpu[h].scause \in Causes
  BY <1>1, <1>2, <1>3 DEF SavedInv, HartPlaces, HartInv, RegInv
<1>5. PICK c : c = [[cpu[h] EXCEPT !.tp = h] EXCEPT !.stvec = "kernelvec"]
  OBVIOUS
<1>6. /\ c \in Cpu /\ c.tp = h /\ c.on = t /\ c.scause = cpu[h].scause /\ c.sepc = cpu[h].sepc
  BY <1>2, <1>5 DEF Cpu, Thread
<1>7. PICK a : a = [c EXCEPT !.sepc = None, !.scause = None]
  OBVIOUS
<1>8. a \in Cpu /\ a.on = t
  BY <1>6, <1>7 DEF Cpu
<1>9. PICK e \in UserPc : e = c.sepc
  BY <1>4, <1>6
<1>10. PICK r : r = [[th[t] EXCEPT !.regs = t, !.hartid = None] EXCEPT !.epc = e]
  OBVIOUS
<1>11. r \in ThreadType /\ SameNap(th[t], r) /\ r.epc = e
  BY ZenonT(60), <1>2, <1>9, <1>10 DEF ThreadType, SameNap
<1>12. PICK s : s = [th EXCEPT ![t] = r]
  OBVIOUS
<1>13. s \in [Thread -> ThreadType] /\ s[t] = r /\ \A u \in Thread : SameNap(th[u], s[u])
  BY <1>2, <1>11, <1>12 DEF SameNap
<1>14. /\ [Uservec(cpu[h], th[t]) EXCEPT !.stvec = "kernelvec"] = c
       /\ [th EXCEPT ![t] = [UservecSaved(cpu[h], @) EXCEPT !.epc = c.sepc]] = s
  BY <1>4, <1>5, <1>9, <1>10, <1>12 DEF Uservec, UservecSaved
<1>15. /\ c.scause = "ecall" /\ ~th[t].killed =>
            /\ cpu' = [cpu EXCEPT ![h] = [a EXCEPT !.sie = TRUE]]
            /\ th' = [s EXCEPT ![t].epc = After(@), ![t].at = <<"syscall">>]
       /\ c.scause = "fault" =>
            /\ cpu' = [cpu EXCEPT ![h] = a]
            /\ th' = [s EXCEPT ![t].killed = TRUE, ![t].at = <<"endtrap">>]
       /\ c.scause = "ecall" /\ th[t].killed => Exit(h, a)
  BY <1>1, <1>7, <1>14 DEF Usertrap
<1>16. c.scause \in {"ecall", "fault"} => ticks' = ticks
  BY <1>1, <1>14 DEF Usertrap
<1>17. /\ \A k : [s EXCEPT ![t] = k] = [th EXCEPT ![t] = k]
       /\ th[t].at # <<"nap">>
  BY <1>2, <1>3, <1>12
<1>20. CASE c.scause = "ecall" /\ th[t].killed
  <2>1. Sched(h, PushOff(a), t, "ZOMBIE", "zombie")
    BY <1>1, <1>2, <1>8, <1>15, <1>20 DEF Exit
  <2>2. PushOff(a) \in Cpu /\ ticks' = ticks
    BY <1>8, <1>16, <1>20, PushOffCpu
  <2>3. ~InNap([at |-> <<"zombie">>], due[On(h)]) /\ <<"zombie">> # <<"endtrap">>
    BY DEF InNap, Handling
  <2> QED
    BY <1>1, <1>3, <1>4, <2>1, <2>2, <2>3, SchedClock
<1>21. CASE c.scause = "ecall" /\ ~th[t].killed
  <2>1. PICK q : q = [r EXCEPT !.epc = After(e), !.at = <<"syscall">>]
    OBVIOUS
  <2>2. th' = [s EXCEPT ![t] = q]
    BY <1>11, <1>13, <1>15, <1>21, <2>1
  <2>3. /\ q.at = <<"syscall">> /\ q.ticks0 = th[t].ticks0 /\ q.elapsed = th[t].elapsed
    BY <1>11, <2>1 DEF ThreadType, SameNap
  <2>4. q.at \in Awake \union UserPc
    BY <2>3 DEF Awake
  <2>5. th' = [th EXCEPT ![t] = q] /\ ticks' = ticks
        /\ cpu' = [cpu EXCEPT ![h] = [a EXCEPT !.sie = TRUE]]
    BY <1>15, <1>16, <1>17, <1>21, <2>2
  <2>6. [a EXCEPT !.sie = TRUE].on = t
    BY <1>8 DEF Cpu
  <2> QED
    BY <1>1, <1>3, <1>17, <2>3, <2>4, <2>5, <2>6, AwakeStep
<1>22. CASE c.scause = "fault"
  <2>1. PICK q : q = [r EXCEPT !.killed = TRUE, !.at = <<"endtrap">>]
    OBVIOUS
  <2>2. th' = [s EXCEPT ![t] = q]
    BY <1>11, <1>13, <1>15, <1>22, <2>1
  <2>3. /\ q.at = <<"endtrap">> /\ q.ticks0 = th[t].ticks0 /\ q.elapsed = th[t].elapsed
    BY <1>11, <2>1 DEF ThreadType, SameNap
  <2>4. q.at \in Awake \union UserPc
    BY <2>3 DEF Awake
  <2>5. th' = [th EXCEPT ![t] = q] /\ ticks' = ticks /\ cpu' = [cpu EXCEPT ![h] = a]
    BY <1>15, <1>16, <1>17, <1>22, <2>2
  <2> QED
    BY <1>1, <1>3, <1>8, <1>17, <2>3, <2>4, <2>5, AwakeStep
<1>23. CASE c.scause \in {"timer", "external"}
  <2>1. cpu' = [cpu EXCEPT ![h] = a] /\ Devintr(c, s, "endtrap")
    BY <1>1, <1>6, <1>7, <1>14, <1>23 DEF Usertrap
  <2>2. cpu'[h].on = t /\ \A g \in Hart : g # h => cpu'[g] = cpu[g]
    BY <1>2, <1>8, <2>1
  <2>3. ~InNap([at |-> <<"endtrap">>], due[t])
    BY DEF InNap, Handling
  <2>4. th[t].at \in {<<"uservec">>, <<"kernelvec">>}
    BY <1>3
  <2> QED
    BY <1>1, <1>3, <1>6, <1>13, <2>1, <2>2, <2>3, <2>4, DevintrClock
<1> QED
  BY <1>4, <1>6, <1>20, <1>21, <1>22, <1>23 DEF Causes

\* Every step keeps the clock's part of the invariant, and no sleep() ends but
\* in its own loop.
LEMMA ClockNext ==
  ASSUME TrapInv, ClockInv, Next
  PROVE  ClockInv' /\ (NoNapEnds \/ \E h \in Hart : Nap(h))
<1>1. ASSUME NEW h \in Hart, Handler(h) PROVE ClockInv' /\ NoNapEnds
  BY <1>1, UsertrapClock, KerneltrapClock, KernelYieldClock, RestoreClock, AwakeClock DEF Handler
<1>2. ASSUME NEW h \in Hart, Nap(h) PROVE ClockInv'
  BY <1>2, NapTestClock, NapOverClock
<1>3. ASSUME NEW h \in Hart, Own(h), ~Nap(h) PROVE ClockInv' /\ NoNapEnds
  <2>1. ASSUME NEW n \in Naps, SysSleep(h, n) PROVE ClockInv' /\ NoNapEnds
    BY <2>1, SysSleepClock
  <2>2. ASSUME NEW p \in Proc, Dispatch(h, p) PROVE ClockInv' /\ NoNapEnds
    BY <2>2, DispatchClock
  <2> QED
    BY <1>3, <2>1, <2>2, AwakeClock, EndTrapClock, NapLockClock,
       NapSleepClock DEF Own
<1>4. ASSUME NEW h \in Hart, NEW c \in Causes, Trap(h, c) PROVE ClockInv' /\ NoNapEnds
  BY <1>4, TrapClock
<1>5. ASSUME NEW p \in Proc, Kill(p) PROVE ClockInv' /\ NoNapEnds
  BY <1>5, KillClock
<1> QED
  BY <1>1, <1>2, <1>3, <1>4, <1>5 DEF Next, Causes

\* The whole invariant: while a process sleeps, ticks have gone on by what the
\* history has counted, also when they have wrapped.
THEOREM Invariance == Spec => []IInv
<1>1. Init => IInv
  <2> SUFFICES ASSUME Init PROVE ClockInv
    BY InitTrapInv DEF IInv
  <2>1. ASSUME NEW p \in Proc PROVE NapInv(th[p], due[p])
    <3>1. th[p] = [Thread0 EXCEPT !.regs = p] /\ p \in Thread
      BY DEF Init, Thread
    <3>2. th[p].at = <<"forkret">> /\ th[p].ticks0 = None
      BY <3>1 DEF Thread0
    <3> QED
      BY <3>2 DEF NapInv, InNap, Handling
  <2>2. ASSUME NEW h \in Hart PROVE ~Counting(h)
    <3>1. On(h) = h /\ h \in Thread /\ h \notin Proc
      BY TrapAssumption DEF Init, On, Thread
    <3>2. th[h] = [Thread0 EXCEPT !.at = <<"scan">>]
      BY <3>1 DEF Init
    <3>3. th[h].at = <<"scan">>
      BY <3>2 DEF Thread0
    <3> QED
      BY <3>1, <3>3 DEF Counting
  <2> QED
    BY <2>1, <2>2 DEF ClockInv
<1>2. IInv /\ [Next]_vars => IInv'
  <2> SUFFICES ASSUME TrapInv, ClockInv, [Next]_vars PROVE ClockInv'
    BY TrapInvStep DEF IInv
  <2>1. CASE UNCHANGED vars
    BY <2>1 DEF vars, ClockInv, NapInv, InNap, Counting, Punctual, Napping, On
  <2> QED
    BY <2>1, ClockNext
<1> QED
  BY <1>1, <1>2, PTL DEF Spec

\* The test of sys_sleep(), in uint, is about the ticks that have really gone by.
LEMMA ElapsedExact ==
  ASSUME NEW k \in 0 .. UINT - 1, NEW z \in Nat, NEW e \in Nat, e < UINT,
         k - z \in {e, e - UINT}
  PROVE  (k - z) % UINT = e
<1>1. UINT \in Nat \ {0, 1}
  BY TrapAssumption
<1>2. CASE k - z = e
  BY <1>1, <1>2
<1>3. CASE k - z = e - UINT
  <2>1. (e - UINT) % UINT = e
    BY <1>1
  <2> QED
    BY <1>3, <2>1
<1> QED
  BY <1>2, <1>3

\* sleep(n) returns to a process that is not killed after n ticks or more,
\* however far ticks were from their wrap and whoever ran in between.
THEOREM NoShortNapHolds == Spec => NoShortNap
<1>1. IInv /\ [Next]_vars =>
        [\A p \in Proc : th[p].at = <<"nap">> /\ th'[p].at = <<"endtrap">> /\ ~th[p].killed =>
           th[p].elapsed >= th[p].n]_vars
  <2> SUFFICES ASSUME TrapInv, ClockInv, Next, NEW p \in Proc, th[p].at = <<"nap">>,
                      th'[p].at = <<"endtrap">>, ~th[p].killed
               PROVE  th[p].elapsed >= th[p].n
    BY DEF IInv
  <2>1. ~NoNapEnds
    BY DEF NoNapEnds
  <2>2. PICK h \in Hart : Nap(h)
    BY <2>1, ClockNext
  <2>3. ~(Early(On(h)) /\ ~th[On(h)].killed)
    BY <2>1, <2>2, NapTestClock
  <2>4. p \in Thread /\ \A s \in Thread : s # On(h) => th'[s].at = th[s].at
    BY <2>2, <2>3, NapOverClock DEF Thread
  <2>5. p = On(h)
    BY <2>4
  <2>6. ~Early(p)
    BY <2>3, <2>5
  <2>7. /\ NapInv(th[p], due[p]) /\ th[p] \in ThreadType /\ ticks \in 0 .. UINT - 1
        /\ InNap(th[p], due[p])
    BY <2>4 DEF ClockInv, TrapInv, TypeOK, InNap
  <2>8. /\ th[p].ticks0 \in Nat /\ th[p].elapsed \in Nat /\ th[p].n \in Nat
        /\ th[p].elapsed < UINT /\ ticks - th[p].ticks0 \in {th[p].elapsed, th[p].elapsed - UINT}
    BY <2>7 DEF NapInv, ThreadType
  <2>9. (ticks - th[p].ticks0) % UINT = th[p].elapsed
    BY <2>7, <2>8, ElapsedExact
  <2> QED
    BY <2>6, <2>8, <2>9 DEF Early
<1> QED
  BY <1>1, Invariance, PTL DEF Spec, NoShortNap

----------------------------------------------------------------------------
(***************************************************************************)
(* The system call counter                                                 *)
(***************************************************************************)
\* What a slot keeps, whoever uses it: the counter has counted every call of
\* its process, and those since the last answer are among them.
SlotInv(p) ==
  /\ done[p] + S!InCall(p) <= syscall_count[p]
  /\ since[p] <= done[p]
  /\ state[p] # "ALIVE" => call[p] = "none"
  /\ state[p] = "ALIVE" /\ last[p] # None =>
       syscall_count[p] = last[p] + since[p] + S!InCall(p)
CountInv == S!TypeOK /\ \A p \in S!Slots : SlotInv(p)

\* A slot's part of the state, before and after a step that leaves it alone.
LEMMA SlotFrame ==
  ASSUME NEW p, SlotInv(p), state'[p] = state[p], call'[p] = call[p], done'[p] = done[p],
         syscall_count'[p] = syscall_count[p], last'[p] = last[p], since'[p] = since[p]
  PROVE  SlotInv(p)'
  BY DEF SlotInv, S!InCall

\* The fields of a slot have their types, and a counter can count the calls of
\* the process in it.
LEMMA SlotFacts ==
  ASSUME CountInv, NEW p \in S!Slots
  PROVE  /\ SlotInv(p) /\ MaxCount \in Nat /\ None \notin Nat
         /\ syscall_count[p] \in 0 .. MaxCount /\ done[p] \in 0 .. MaxCount
         /\ since[p] \in 0 .. MaxCount
         /\ last[p] # None => last[p] \in 0 .. MaxCount
  BY CounterAssumption DEF CountInv, S!TypeOK, S!SizeAssumption

\* syscall() with a number in the table.
LEMMA EnterCount ==
  ASSUME CountInv, NEW p \in S!Slots, NEW c \in S!Calls, S!Enter(p, c)
  PROVE  CountInv'
<1>1. c # "none" /\ c \in S!Calls \union {"none"}
  BY DEF S!Calls
<1>2. /\ syscall_count' = [syscall_count EXCEPT ![p] = syscall_count[p] + 1]
      /\ call' = [call EXCEPT ![p] = c] /\ syscall_count[p] < MaxCount
      /\ state[p] = "ALIVE" /\ call[p] = "none"
      /\ UNCHANGED <<state, done, last, since>>
  BY DEF S!Enter, S!Executes
<1>3. syscall_count[p] + 1 \in 0 .. MaxCount
  BY <1>2, SlotFacts
<1>4. S!TypeOK'
  BY <1>1, <1>2, <1>3 DEF CountInv, S!TypeOK
<1>5. /\ syscall_count'[p] = syscall_count[p] + 1 /\ call'[p] = c
      /\ \A q \in S!Slots : q # p => syscall_count'[q] = syscall_count[q] /\ call'[q] = call[q]
  BY <1>2 DEF CountInv, S!TypeOK
<1>6. SlotInv(p)'
  BY <1>1, <1>2, <1>5, SlotFacts DEF SlotInv, S!InCall
<1>7. \A q \in S!Slots : q # p => SlotInv(q)'
  BY <1>2, <1>5, SlotFrame DEF CountInv
<1> QED
  BY <1>4, <1>6, <1>7 DEF CountInv

\* A call returns: the process has done one more.
LEMMA ReturnCount ==
  ASSUME CountInv, NEW p \in S!Slots, S!Return(p), state[p] = "ALIVE", call[p] # "none",
         state'[p] = "ALIVE", last' = last, syscall_count' = syscall_count,
         state' \in [S!Slots -> {"UNUSED", "ALIVE", "ZOMBIE"}],
         \A q \in S!Slots : q # p => \/ state'[q] = state[q]
                                     \/ state[q] # "ALIVE" /\ state'[q] # "ALIVE"
  PROVE  CountInv'
<1>1. /\ call' = [call EXCEPT ![p] = "none"] /\ done' = [done EXCEPT ![p] = done[p] + 1]
      /\ since' = [since EXCEPT ![p] = since[p] + 1]
  BY DEF S!Return
<1>2. /\ done[p] + 1 <= syscall_count[p] /\ since[p] <= done[p]
  BY SlotFacts DEF SlotInv, S!InCall
<1>3. done[p] + 1 \in 0 .. MaxCount /\ since[p] + 1 \in 0 .. MaxCount
  BY <1>2, SlotFacts
<1>4. S!TypeOK'
  BY <1>1, <1>3 DEF CountInv, S!TypeOK
<1>5. /\ call'[p] = "none" /\ done'[p] = done[p] + 1 /\ since'[p] = since[p] + 1
      /\ \A q \in S!Slots : q # p =>
            call'[q] = call[q] /\ done'[q] = done[q] /\ since'[q] = since[q]
  BY <1>1 DEF CountInv, S!TypeOK
<1>6. SlotInv(p)'
  BY <1>2, <1>5, SlotFacts DEF SlotInv, S!InCall
<1>7. ASSUME NEW q \in S!Slots, q # p PROVE SlotInv(q)'
  BY <1>5, <1>7 DEF CountInv, SlotInv, S!InCall
<1> QED
  BY <1>4, <1>6, <1>7 DEF CountInv

\* getsyscallcount() answers with the counter.
LEMMA GetCount ==
  ASSUME CountInv, NEW p \in S!Slots, S!GetSyscallCount(p)
  PROVE  CountInv'
<1>1. /\ call' = [call EXCEPT ![p] = "none"] /\ done' = [done EXCEPT ![p] = done[p] + 1]
      /\ since' = [since EXCEPT ![p] = 0] /\ last' = [last EXCEPT ![p] = syscall_count[p]]
      /\ UNCHANGED <<state, syscall_count>> /\ state[p] = "ALIVE" /\ call[p] = "getsyscallcount"
  BY DEF S!GetSyscallCount, S!Executes
<1>2. done[p] + 1 <= syscall_count[p]
  BY <1>1, SlotFacts DEF SlotInv, S!InCall
<1>3. /\ done[p] + 1 \in 0 .. MaxCount /\ 0 \in 0 .. MaxCount
      /\ syscall_count[p] \in (0 .. MaxCount) \union {None}
  BY <1>2, SlotFacts
<1>4. S!TypeOK'
  BY <1>1, <1>3 DEF CountInv, S!TypeOK
<1>5. /\ call'[p] = "none" /\ done'[p] = done[p] + 1 /\ since'[p] = 0
      /\ last'[p] = syscall_count[p]
      /\ \A q \in S!Slots : q # p => call'[q] = call[q] /\ done'[q] = done[q]
                                     /\ since'[q] = since[q] /\ last'[q] = last[q]
  BY <1>1 DEF CountInv, S!TypeOK
<1>6. SlotInv(p)'
  BY <1>1, <1>2, <1>5, SlotFacts DEF SlotInv, S!InCall
<1>7. \A q \in S!Slots : q # p => SlotInv(q)'
  BY <1>1, <1>5, SlotFrame DEF CountInv
<1> QED
  BY <1>4, <1>6, <1>7 DEF CountInv

\* fork() takes a free slot with whatever its counter holds.
LEMMA ForkCount ==
  ASSUME CountInv, NEW p \in S!Slots, S!Fork(p)
  PROVE  CountInv'
<1>1. PICK q \in S!Slots :
        /\ state[q] = "UNUSED" /\ state' = [state EXCEPT ![q] = "ALIVE"]
        /\ done' = [done EXCEPT ![p] = @ + 1, ![q] = 0]
        /\ since' = [since EXCEPT ![p] = @ + 1, ![q] = 0]
        /\ last' = [last EXCEPT ![q] = None]
  BY DEF S!Fork
<1>2. /\ state[p] = "ALIVE" /\ call[p] = "fork" /\ call' = [call EXCEPT ![p] = "none"]
      /\ syscall_count' = syscall_count
  BY DEF S!Fork, S!Executes
<1>3. p # q
  BY <1>1, <1>2
<1>4. /\ done[p] + 1 <= syscall_count[p] /\ since[p] <= done[p]
  BY <1>2, SlotFacts DEF SlotInv, S!InCall
<1>5. done[p] + 1 \in 0 .. MaxCount /\ since[p] + 1 \in 0 .. MaxCount /\ 0 \in 0 .. MaxCount
  BY <1>4, SlotFacts
<1>6. /\ call'[p] = "none" /\ done'[p] = done[p] + 1 /\ since'[p] = since[p] + 1
      /\ last'[p] = last[p] /\ state'[p] = state[p]
      /\ call'[q] = call[q] /\ done'[q] = 0 /\ since'[q] = 0 /\ last'[q] = None
      /\ \A r \in S!Slots : r # p /\ r # q =>
           /\ call'[r] = call[r] /\ done'[r] = done[r] /\ since'[r] = since[r]
           /\ last'[r] = last[r] /\ state'[r] = state[r]
  BY <1>1, <1>2, <1>3 DEF CountInv, S!TypeOK
<1>7. S!TypeOK'
  <2>1. done' \in [S!Slots -> 0 .. MaxCount] /\ since' \in [S!Slots -> 0 .. MaxCount]
    BY <1>1, <1>5 DEF CountInv, S!TypeOK
  <2> QED
    BY <1>1, <1>2, <2>1 DEF CountInv, S!TypeOK
<1>8. SlotInv(p)'
  BY <1>2, <1>4, <1>6, SlotFacts DEF SlotInv, S!InCall
<1>9. SlotInv(q)'
  <2>1. call[q] = "none" /\ syscall_count[q] \in 0 .. MaxCount
    BY <1>1, SlotFacts DEF SlotInv
  <2> QED
    BY <1>2, <1>6, <2>1, SlotFacts DEF SlotInv, S!InCall
<1>10. \A r \in S!Slots : r # p /\ r # q => SlotInv(r)'
  BY <1>2, <1>6, SlotFrame DEF CountInv
<1> QED
  BY <1>7, <1>8, <1>9, <1>10 DEF CountInv

\* exit() leaves a zombie in the slot.
LEMMA ExitCount ==
  ASSUME CountInv, NEW p \in S!Slots, S!Exit(p)
  PROVE  CountInv'
<1>1. /\ state' = [state EXCEPT ![p] = "ZOMBIE"] /\ call' = [call EXCEPT ![p] = "none"]
      /\ UNCHANGED <<syscall_count, done, last, since>>
  BY DEF S!Exit
<1>2. S!TypeOK'
  BY <1>1 DEF CountInv, S!TypeOK
<1>3. /\ state'[p] = "ZOMBIE" /\ call'[p] = "none"
      /\ \A q \in S!Slots : q # p => state'[q] = state[q] /\ call'[q] = call[q]
  BY <1>1 DEF CountInv, S!TypeOK
<1>4. SlotInv(p)'
  BY <1>1, <1>3, SlotFacts DEF SlotInv, S!InCall
<1>5. \A q \in S!Slots : q # p => SlotInv(q)'
  BY <1>1, <1>3, SlotFrame DEF CountInv
<1> QED
  BY <1>2, <1>4, <1>5 DEF CountInv

\* The difference of two answers of getsyscallcount() is the number of valid
\* calls in between, for every size of the process table.
THEOREM CounterExact == S!Spec => []DifferencesExact
<1>1. S!Init => CountInv
  <2> SUFFICES ASSUME S!Init PROVE CountInv
    OBVIOUS
  <2>1. 0 \in 0 .. MaxCount
    BY CounterAssumption DEF S!SizeAssumption
  <2>2. S!TypeOK
    BY <2>1 DEF S!Init, S!TypeOK
  <2>3. \A p \in S!Slots : SlotInv(p)
    BY DEF S!Init, SlotInv, S!InCall
  <2> QED
    BY <2>2, <2>3 DEF CountInv
<1>2. CountInv /\ [S!Next]_S!vars => CountInv'
  <2> SUFFICES ASSUME CountInv, [S!Next]_S!vars PROVE CountInv'
    OBVIOUS
  <2>1. CASE UNCHANGED S!vars
    BY <2>1 DEF S!vars, CountInv, S!TypeOK, SlotInv, S!InCall
  <2>2. ASSUME NEW p \in S!Slots, S!Unknown(p) PROVE CountInv'
    BY <2>2 DEF S!Unknown, S!AfterUnknown, CountInv, S!TypeOK, SlotInv, S!InCall
  <2>3. ASSUME NEW p \in S!Slots, S!Other(p) \/ S!ForkFail(p) PROVE CountInv'
    <3>1. /\ state[p] = "ALIVE" /\ call[p] # "none" /\ S!Return(p)
          /\ state' = state /\ last' = last /\ syscall_count' = syscall_count
      BY <2>3 DEF S!Other, S!ForkFail, S!Executes
    <3>2. state \in [S!Slots -> {"UNUSED", "ALIVE", "ZOMBIE"}]
      BY DEF CountInv, S!TypeOK
    <3> QED
      BY <3>1, <3>2, ReturnCount
  <2>4. ASSUME NEW p \in S!Slots, S!Wait(p) PROVE CountInv'
    <3>1. /\ state[p] = "ALIVE" /\ call[p] # "none" /\ S!Return(p)
          /\ last' = last /\ syscall_count' = syscall_count
          /\ \/ \E q \in S!Slots : /\ state[q] = "ZOMBIE"
                                   /\ state' = [state EXCEPT ![q] = "UNUSED"]
             \/ state' = state
      BY <2>4 DEF S!Wait, S!Executes
    <3>2. /\ state' \in [S!Slots -> {"UNUSED", "ALIVE", "ZOMBIE"}] /\ state'[p] = "ALIVE"
          /\ \A q \in S!Slots : q # p => \/ state'[q] = state[q]
                                         \/ state[q] # "ALIVE" /\ state'[q] # "ALIVE"
      BY <3>1 DEF CountInv, S!TypeOK
    <3> QED
      BY <3>1, <3>2, ReturnCount
  <2> QED
    BY <2>1, <2>2, <2>3, <2>4, EnterCount, GetCount, ForkCount, ExitCount DEF S!Next
<1>3. CountInv => DifferencesExact
  BY DEF CountInv, SlotInv, DifferencesExact, S!DifferencesExact
<1> QED
  BY <1>1, <1>2, <1>3, PTL DEF S!Spec
=============================================================================
