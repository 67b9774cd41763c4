----------------------------- MODULE MCMiniShell ----------------------------
(***************************************************************************)
(* MiniShell under names that neither Xv6Sh nor WebServerMt uses, for the  *)
(* module that checks it beside the one and the module that proves it      *)
(* beside the other.                                                       *)
(***************************************************************************)
EXTENDS Integers, Sequences, FiniteSets

CONSTANTS Shells, MiniPid, Name, Value, MAX_VARS, MAX_BLOCK_LINES, MAX_JOBS, MaxFd, Assigning,
          MiniNone

VARIABLES shell, pc, miniline, block, incond, todo, local_vars, global_vars, env, fds,
          child, jobs, fg_pid, cur, idx, status, astray

minivars == <<shell, pc, miniline, block, incond, todo, local_vars, global_vars, env, fds,
              child, jobs, fg_pid, cur, idx, status, astray>>

M == INSTANCE MiniShell WITH Pid <- MiniPid, line <- miniline, None <- MiniNone

\* MiniShell: at the prompt the job table has every child there is, and nothing else
\* as long as no fork() of mini-shell-3 has failed; mini-shell-3 may overrun it.
JobsExact == M!JobsExact
=============================================================================
