------------------------------ MODULE MiniShell -----------------------------
(***************************************************************************)
(* The mini-shells of lab 7: variables, if blocks and external commands    *)
(* (mini-shell-1.c), background and stopped jobs and the SIGTSTP handler   *)
(* (mini-shell-2.c), and fg (mini-shell-3.c).  The three programs share    *)
(* their text up to what each adds; shell says which one runs.             *)
(*                                                                         *)
(* A line of input is what the first characters of it make of it, with one *)
(* variable and one redirection at most.  The children are processes of    *)
(* their own: they exec, exit, are stopped by the terminal and are killed  *)
(* between any two steps of the shell, and their pids are reused once      *)
(* waitpid() has reaped them.                                              *)
(***************************************************************************)
EXTENDS Integers, Sequences, FiniteSets, SequencesExt

CONSTANTS Shells,            \* the versions to look at, of 1, 2 and 3
          Pid,               \* the pids fork() may return
          Name, Value,       \* variables, and their values other than ""
          MAX_VARS, MAX_BLOCK_LINES,
          MAX_JOBS,          \* as each of the programs defines it
          MaxFd,             \* the descriptors the shell may have open
          Assigning,         \* bound: the versions in which lines with variables are typed
          None

SizeAssumption ==
  /\ Shells \subseteq 1 .. 3
  /\ MAX_VARS \in Nat \ {0} /\ MAX_JOBS \in [1 .. 3 -> Nat \ {0}]
  /\ MAX_BLOCK_LINES \in Nat \ {0} /\ MaxFd \in Nat
  /\ None \notin Pid /\ "" \notin Value

VARIABLES
  shell,       \* the program that runs
  pc,          \* where it is, see PCs
  line,        \* the line in execution, or the condition of the if being read
  block,       \* block[], the lines between then and fi
  incond,      \* the command in execution is the condition
  todo,        \* the lines of the block still to be executed
  local_vars, global_vars, env,
  fds,         \* descriptors that redirections have left open in the shell
  child,       \* child[p]: what the process with pid p is doing
  jobs,        \* jobs[0 .. job_count - 1]
  fg_pid,
  cur,         \* the pid that waitpid() is called for
  idx,         \* the job fg resumes, or 0
  status,      \* what waitpid() has answered
  astray       \* history: fork() has failed in mini-shell-3, which does not test it

inputvars == <<block, incond, todo>>
varvars == <<local_vars, global_vars, env>>
jobvars == <<jobs, fg_pid, cur, idx, status>>
vars == <<shell, pc, line, inputvars, varvars, fds, child, jobvars, astray>>

----------------------------------------------------------------------------
\* A value written in a line: a literal, or $name.
Expr == Value \union {<<"$", n>> : n \in Name}

\* An external command: in the background or not, redirected or not.
Command == {<<"run", b, r>> : b \in BOOLEAN, r \in BOOLEAN}

\* What a line is to execute_command(); set and jobs, which only print, are one.
Line == {<<"assign", n, e>> : n \in Name, e \in Expr}
        \union {<<"export", n, e>> : n \in Name, e \in Expr}
        \union {<<"reexport", n>> : n \in Name}
        \union {<<"fg", k>> : k \in 0 .. MAX_JOBS[3]}
        \union {<<"show">>, <<"exit">>, <<"fi">>}
        \union Command

\* The lines that are typed.
Input == {l \in Line : l[1] \in {"assign", "export", "reexport"} => shell \in Assigning}

\* The value of line while there is nothing to execute.
NoLine == <<"show">>

(***************************************************************************)
(* The labels:                                                             *)
(*   prompt    in fgets() of main()                                        *)
(*   then      in the first fgets() of handle_if_block()                   *)
(*   body      in the loop that reads the block                            *)
(*   exec      in execute_command()                                        *)
(*   external  in execute_external_command(), before fork()                *)
(*   forked    after fork(), or after fg's kill(), fg_pid not yet set      *)
(*   wait      in waitpid()                                                *)
(*   waited    back from waitpid(), fg_pid still set                       *)
(*   overrun   mini-shell-3 has written past the end of jobs[]; what it    *)
(*             does from there is undefined, and is not followed           *)
(*   exited                                                                *)
(***************************************************************************)
Reading == {"prompt", "then", "body"}
PCs == Reading \union {"exec", "external", "forked", "wait", "waited", "overrun", "exited"}

Zombie == {"exit0", "exit1", "killed"}

Table == UNION {[1 .. n -> Name \X (Value \union {""})] : n \in 0 .. MAX_VARS}

TypeOK ==
  /\ shell \in Shells /\ pc \in PCs
  /\ line \in Line /\ incond \in BOOLEAN
  /\ block \in Seq(Line) /\ Len(block) <= MAX_BLOCK_LINES
  /\ todo \in Seq(Line)
  /\ local_vars \in Table /\ global_vars \in Table
  /\ env \in [Name -> Value \union {""}]
  /\ fds \in 0 .. MaxFd
  /\ child \in [Pid -> {"none", "new", "run", "stop", "stopped"} \union Zombie]
  /\ jobs \in Seq([pid : Pid \union {None}, stopped : BOOLEAN]) /\ Len(jobs) <= MAX_JOBS[shell]
  /\ fg_pid \in Pid \union {None} /\ cur \in Pid \union {None}
  /\ idx \in 0 .. MAX_JOBS[shell]
  /\ status \in Zombie \union {"stopped"}
  /\ astray \in BOOLEAN

Init ==
  /\ shell \in Shells /\ pc = "prompt"
  /\ line = NoLine /\ incond = FALSE
  /\ block = <<>> /\ todo = <<>>
  /\ local_vars = <<>> /\ global_vars = <<>> /\ env = [n \in Name |-> ""]
  /\ fds = 0
  /\ child = [p \in Pid |-> "none"]
  /\ jobs = <<>> /\ fg_pid = None /\ cur = None /\ idx = 0
  /\ status = "exit0" /\ astray = FALSE

----------------------------------------------------------------------------
(***************************************************************************)
(* Variables                                                               *)
(***************************************************************************)

\* The entries of table s for name n; the code takes the first.
Entries(s, n) == {i \in 1 .. Len(s) : s[i][1] = n}
First(s, n) == CHOOSE i \in Entries(s, n) : \A j \in Entries(s, n) : i <= j

\* get_var_value(): local, then global, then the environment ("" if unset).
GetVarValue(n) ==
  IF Entries(local_vars, n) # {} THEN local_vars[First(local_vars, n)][2]
  ELSE IF Entries(global_vars, n) # {} THEN global_vars[First(global_vars, n)][2]
  ELSE env[n]

\* expand_variables(), when the line is executed.
Expand(e) == IF e \in Value THEN e ELSE GetVarValue(e[2])

\* set_local_var() and set_global_var() on their table: overwrite, append, or
\* drop when the table is full.
Put(s, n, v) ==
  IF Entries(s, n) # {} THEN [s EXCEPT ![First(s, n)] = <<n, v>>]
  ELSE IF Len(s) < MAX_VARS THEN Append(s, <<n, v>>)
  ELSE s

----------------------------------------------------------------------------
(***************************************************************************)
(* Reading lines                                                           *)
(***************************************************************************)

\* main()'s loop and process_line(): a line to execute, or the head of an if.
ReadLine ==
  /\ pc = "prompt"
  /\ \/ \E l \in Input : line' = l /\ pc' = "exec"
     \/ \E c \in Command : line' = c /\ pc' = "then"
  /\ UNCHANGED <<shell, block, incond, todo, varvars, fds, child, jobvars, astray>>

\* End of the input: main() ends, handle_if_block() gives up.
Eof ==
  /\ pc \in Reading
  /\ pc' = IF pc = "prompt" THEN "exited" ELSE "prompt"
  /\ block' = <<>> /\ line' = NoLine
  /\ UNCHANGED <<shell, incond, todo, varvars, fds, child, jobvars, astray>>

\* handle_if_block(): the next line has to be then, any other is dropped with
\* the if.
ReadThen ==
  /\ pc = "then"
  /\ \/ pc' = "body" /\ UNCHANGED line
     \/ pc' = "prompt" /\ line' = NoLine
  /\ UNCHANGED <<shell, inputvars, varvars, fds, child, jobvars, astray>>

\* handle_if_block(): room for another line.
BlockRoom == Len(block) < MAX_BLOCK_LINES

\* handle_if_block(): collect the lines up to fi; a line too many ends it.
ReadBody ==
  /\ pc = "body"
  /\ \E l \in Input \ {<<"fi">>} :
       IF BlockRoom
       THEN block' = Append(block, l) /\ UNCHANGED <<pc, line>>
       ELSE block' = <<>> /\ pc' = "prompt" /\ line' = NoLine
  /\ UNCHANGED <<shell, incond, todo, varvars, fds, child, jobvars, astray>>

\* fi: execute_external_command() of the condition.
ReadFi ==
  /\ pc = "body"
  /\ incond' = TRUE /\ pc' = "external"
  /\ UNCHANGED <<shell, line, block, todo, varvars, fds, child, jobvars, astray>>

\* The line is done; ls are the lines of the block left to execute.
Proceed(ls) ==
  IF ls = <<>>
  THEN pc' = "prompt" /\ todo' = <<>> /\ line' = NoLine
  ELSE pc' = "exec" /\ line' = Head(ls) /\ todo' = Tail(ls)

\* execute_external_command() returns r: the condition decides on the block.
Result(r) ==
  /\ Proceed(IF ~incond THEN todo ELSE IF r = 0 THEN block ELSE <<>>)
  /\ incond' = FALSE
  /\ block' = <<>>

----------------------------------------------------------------------------
(***************************************************************************)
(* execute_command()                                                       *)
(***************************************************************************)
Is(k) == pc = "exec" /\ line[1] = k

Assign ==
  /\ Is("assign")
  /\ local_vars' = Put(local_vars, line[2], Expand(line[3]))
  /\ Proceed(todo)
  /\ UNCHANGED <<shell, block, incond, global_vars, env, fds, child, jobvars, astray>>

\* export name=value, and export name with the value it has.
Export ==
  /\ Is("export") \/ Is("reexport")
  /\ LET n == line[2]
         v == IF Is("export") THEN Expand(line[3]) ELSE GetVarValue(n)
     IN  /\ env' = [env EXCEPT ![n] = v]
         /\ global_vars' = Put(global_vars, n, v)
  /\ Proceed(todo)
  /\ UNCHANGED <<shell, block, incond, local_vars, fds, child, jobvars, astray>>

\* set and jobs only print.
Show ==
  /\ Is("show")
  /\ Proceed(todo)
  /\ UNCHANGED <<shell, block, incond, varvars, fds, child, jobvars, astray>>

Exit ==
  /\ Is("exit")
  /\ pc' = "exited"
  /\ UNCHANGED <<shell, line, inputvars, varvars, fds, child, jobvars, astray>>

\* Everything else is an external command: fi (or then, or if) where it does
\* not belong too, and fg before mini-shell-3.
Other ==
  /\ pc = "exec"
  /\ line[1] \in {"run", "fi"} \/ (line[1] = "fg" /\ shell < 3)
  /\ pc' = "external"
  /\ UNCHANGED <<shell, line, inputvars, varvars, fds, child, jobvars, astray>>

\* The job fg resumes: the last one marked as stopped, or number k if it is
\* one and is stopped.  0 is none.
FgJob(k) ==
  LET S == {i \in 1 .. Len(jobs) : jobs[i].stopped} IN
  IF k = 0 THEN IF S = {} THEN 0 ELSE CHOOSE i \in S : \A j \in S : j <= i
  ELSE IF k \in S THEN k ELSE 0

FgNone ==
  /\ Is("fg") /\ shell = 3 /\ FgJob(line[2]) = 0
  /\ Proceed(todo)
  /\ UNCHANGED <<shell, block, incond, varvars, fds, child, jobvars, astray>>

\* The children that pid p names in kill() and waitpid(): None is -1, all of them.
Named(p) == IF p = None THEN Pid ELSE {p}

\* kill(p, SIGCONT)
Continued(p) ==
  [q \in Pid |-> IF q \in Named(p) /\ child[q] \in {"stop", "stopped"} THEN "run"
                 ELSE child[q]]

\* fg: jobs[idx].stopped = 0 and SIGCONT.
Resumed(i) == [jobs EXCEPT ![i].stopped = FALSE]

Fg ==
  /\ Is("fg") /\ shell = 3
  /\ idx' = FgJob(line[2]) /\ idx' # 0
  /\ jobs' = Resumed(idx')
  /\ cur' = jobs[idx'].pid
  /\ child' = Continued(cur')
  /\ pc' = "forked" /\ line' = NoLine
  /\ UNCHANGED <<shell, inputvars, varvars, fds, fg_pid, status, astray>>

----------------------------------------------------------------------------
(***************************************************************************)
(* execute_external_command()                                              *)
(***************************************************************************)

\* mini-shell-1 takes & for an argument like any other.
Background == line[1] = "run" /\ line[2] /\ shell > 1
Redirected == line[1] = "run" /\ line[3]

\* open() fails: -1, nothing is forked.
OpenFail ==
  /\ pc = "external" /\ Redirected
  /\ Result(-1)
  /\ UNCHANGED <<shell, varvars, fds, child, jobvars, astray>>

\* open() succeeds; the shell does not close what it gets.
Opened ==
  /\ Redirected => fds < MaxFd
  /\ fds' = IF Redirected THEN fds + 1 ELSE fds

\* fork() fails in mini-shell-1 and 2: -1.
ForkFail ==
  /\ pc = "external" /\ shell # 3
  /\ Opened
  /\ Result(-1)
  /\ UNCHANGED <<shell, varvars, child, jobvars, astray>>

\* A new entry of jobs[].  mini-shell-2 leaves a job out when the table is
\* full; mini-shell-3 does not look.
Full == Len(jobs) = MAX_JOBS[shell]
Overruns == shell = 3 /\ Full
NewJob(p, s) == IF Full THEN jobs ELSE Append(jobs, [pid |-> p, stopped |-> s])

\* fork() has returned p, or -1 to a mini-shell-3 that does not notice.
Parent(p) ==
  /\ idx' = 0
  /\ \/ /\ ~Background
        /\ pc' = "forked" /\ cur' = p /\ line' = NoLine
        /\ UNCHANGED <<jobs, inputvars>>
     \/ /\ Background /\ ~Overruns
        /\ jobs' = NewJob(p, FALSE)
        /\ Result(0)
        /\ UNCHANGED cur
     \/ /\ Background /\ Overruns
        /\ pc' = "overrun"
        /\ UNCHANGED <<line, inputvars, jobs, cur>>

Fork(p) ==
  /\ pc = "external"
  /\ child[p] = "none"
  /\ Opened
  /\ child' = [child EXCEPT ![p] = "new"]
  /\ Parent(p)
  /\ UNCHANGED <<shell, varvars, fg_pid, status, astray>>

ForkUntested ==
  /\ pc = "external" /\ shell = 3
  /\ Opened
  /\ Parent(None)
  /\ astray' = TRUE
  /\ UNCHANGED <<shell, varvars, child, fg_pid, status>>

\* fg_pid = pid, which mini-shell-1 does not have.
SetFg ==
  /\ pc = "forked"
  /\ fg_pid' = IF shell > 1 THEN cur ELSE None
  /\ pc' = "wait"
  /\ UNCHANGED <<shell, line, inputvars, varvars, fds, child, jobs, cur, idx, status, astray>>

\* What waitpid() returns for: WUNTRACED asks for stops, each reported once.
Reportable == IF shell > 1 THEN Zombie \union {"stop"} ELSE Zombie

WaitPid ==
  /\ pc = "wait"
  /\ \E p \in Named(cur) :
       /\ child[p] \in Reportable
       /\ LET s == IF child[p] = "stop" THEN "stopped" ELSE child[p] IN
            /\ status' = s
            /\ child' = [child EXCEPT ![p] = IF s = "stopped" THEN s ELSE "none"]
  /\ pc' = "waited"
  /\ UNCHANGED <<shell, line, inputvars, varvars, fds, jobs, fg_pid, cur, idx, astray>>

\* There is no such child: waitpid() fails, which nobody tests, and status is read
\* without having been set.
WaitFail ==
  /\ pc = "wait"
  /\ \A p \in Named(cur) : child[p] = "none"
  /\ status' \in Zombie \union {"stopped"}
  /\ pc' = "waited"
  /\ UNCHANGED <<shell, line, inputvars, varvars, fds, child, jobs, fg_pid, cur, idx, astray>>

\* After waitpid(): a stopped command becomes a job, or its job is marked again;
\* a job that has ended is taken out.
Ended_First(i) == RemoveAt(jobs, 1)
Ended(i) == RemoveAt(jobs, i)

JobsAfterWait ==
  IF status = "stopped"
  THEN IF idx = 0 THEN NewJob(cur, TRUE) ELSE [jobs EXCEPT ![idx].stopped = TRUE]
  ELSE IF idx = 0 THEN jobs ELSE Ended(idx)

\* A stopped command of mini-shell-3 for which the table has no room.
NoRoom == Overruns /\ status = "stopped" /\ idx = 0

Waited ==
  /\ pc = "waited" /\ ~NoRoom
  /\ jobs' = JobsAfterWait
  /\ fg_pid' = None /\ cur' = None /\ idx' = 0 /\ status' = "exit0"
  /\ Result(IF status = "exit0" THEN 0 ELSE -1)
  /\ UNCHANGED <<shell, varvars, fds, child, astray>>

WaitedNoRoom ==
  /\ pc = "waited" /\ NoRoom
  /\ pc' = "overrun"
  /\ UNCHANGED <<shell, line, inputvars, varvars, fds, child, jobvars, astray>>

----------------------------------------------------------------------------
(***************************************************************************)
(* Signals and children                                                    *)
(***************************************************************************)
\* A step of somebody else.  The model ends when the shell does.
Outside == /\ pc \notin {"exited", "overrun"}
           /\ UNCHANGED <<shell, pc, line, inputvars, varvars, fds, jobvars, astray>>

\* sigtstp_handler(), between any two steps: pass the signal on.  A child that
\* has not called signal(SIGTSTP, SIG_DFL) yet runs the handler it inherited.
Handler ==
  /\ shell > 1
  /\ fg_pid # None /\ child[fg_pid] = "run"
  /\ child' = [child EXCEPT ![fg_pid] = "stop"]
  /\ Outside

\* SIGTSTP from the terminal reaches the children too, which are all in the
\* shell's process group.
Terminal ==
  /\ shell > 1
  /\ \E p \in Pid : child[p] = "run"
  /\ child' = [p \in Pid |-> IF child[p] = "run" THEN "stop" ELSE child[p]]
  /\ Outside

\* The child calls execvp(), which may fail.
ChildExec(p) ==
  /\ child[p] = "new"
  /\ child' \in {[child EXCEPT ![p] = s] : s \in {"run", "exit1"}}
  /\ Outside

ChildExit(p) ==
  /\ child[p] = "run"
  /\ child' \in {[child EXCEPT ![p] = s] : s \in {"exit0", "exit1"}}
  /\ Outside

\* Somebody kills the child.
ChildKilled(p) ==
  /\ child[p] \in {"new", "run", "stop", "stopped"}
  /\ child' = [child EXCEPT ![p] = "killed"]
  /\ Outside

----------------------------------------------------------------------------
Execute == Assign \/ Export \/ Show \/ Exit \/ Other \/ FgNone \/ Fg

External == \/ OpenFail \/ ForkFail \/ (\E p \in Pid : Fork(p)) \/ ForkUntested
            \/ SetFg \/ WaitPid \/ WaitFail \/ Waited \/ WaitedNoRoom

Next == \/ ReadLine \/ Eof \/ ReadThen \/ ReadBody \/ ReadFi
        \/ Execute \/ External
        \/ Handler \/ Terminal
        \/ \E p \in Pid : ChildExec(p) \/ ChildExit(p) \/ ChildKilled(p)

Spec == Init /\ [][Next]_vars

\* The shell goes on while it has something to do, and a child that is left
\* alone ends.  Nobody is obliged to type anything.
Fairness == /\ WF_vars(Execute \/ External)
            /\ \A p \in Pid : WF_vars(ChildExec(p)) /\ WF_vars(ChildExit(p))

FairSpec == Spec /\ Fairness

----------------------------------------------------------------------------
(***************************************************************************)
(* Properties                                                              *)
(***************************************************************************)
Listed == {jobs[i].pid : i \in 1 .. Len(jobs)}

\* jobs[]: at the prompt the table lists every child that was not reaped (but for
\* those the full table of mini-shell-2 leaves out): no stopped command is
\* forgotten.  As long as fork() has not failed in mini-shell-3, it lists each
\* once and nothing else, so that fg's kill() and waitpid() never hit a pid that is
\* somebody else's by now, and a job that print_job_status() shows as Stopped does
\* not run.  After such a failure a job with pid -1 or with the pid of a child that
\* waitpid(-1) has reaped may be listed.  Nothing is claimed once mini-shell-3, which
\* does not test for MAX_JOBS, has written past the table; up to there everything
\* keeps its type and its bounds.
ListsExactly ==
  /\ \A i \in 1 .. Len(jobs) : jobs[i].stopped => child[jobs[i].pid] \notin {"new", "run"}
  /\ pc = "prompt" =>
       /\ \A i, j \in 1 .. Len(jobs) : jobs[i].pid = jobs[j].pid => i = j
       /\ \A p \in Listed : child[p] # "none"

JobsExact ==
  pc # "overrun" =>
    /\ TypeOK
    /\ pc = "prompt" =>
         \A p \in Pid : child[p] # "none" => p \in Listed \/ (shell = 2 /\ Full)
    /\ ~astray => ListsExactly

\* execute_external_command() and fg: whatever is stopped, resumed or killed, the
\* shell gets back to its prompt, unless mini-shell-3 writes past its table or has
\* taken a failed fork() for a child: waitpid(-1) may then wait for a job that is
\* stopped for good.
PromptReturns ==
  (pc \in PCs \ Reading) ~> (pc \in {"prompt", "exited", "overrun"} \/ astray)
=============================================================================
