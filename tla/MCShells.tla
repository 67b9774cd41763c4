------------------------------ MODULE MCShells ------------------------------
(***************************************************************************)
(* The shell of xv6 and the mini-shells of lab 7, for TLC.  They have      *)
(* nothing to do with each other: which says what the machine runs.        *)
(***************************************************************************)
EXTENDS Xv6Sh, MCMiniShell

VARIABLE which

ASSUME M!SizeAssumption

\* mini-shell-2 gets a table that two children fill up, mini-shell-3 one in
\* which fg has to choose.
Jobs == <<1, 1, 2>>

\* All lines of up to four tokens; a pipeline that needs one process too many,
\* redirections of both kinds, a block in the background.
Tokens == {"a", "|", "(", ")", ";", "&", "<"}
ShLines == UNION {[1 .. n -> Tokens] : n \in 0 .. 4}
           \union {<<"cd", "a">>, <<"a", "|", "b", "|", "c">>, <<"a", ">", "f", "b", "<", "g">>,
                   <<"a", ">>", "f", ">", "g">>, <<"(", "a", "|", "b", ")", "&">>}

MCInit == /\ Init /\ M!Init
          /\ which \in {"mini-shell", "sh"}
          /\ which = "sh" => shell = 1

MCNext == \/ which = "sh" /\ Next /\ UNCHANGED <<which, minivars>>
          \/ which = "mini-shell" /\ M!Next /\ UNCHANGED <<which, vars>>

MCSpec == MCInit /\ [][MCNext]_<<which, vars, minivars>> /\ Fairness /\ M!Fairness

\* Xv6Sh and MiniShell: the prompt comes back, whatever is run, fails, is
\* stopped, resumed or killed.
PromptsReturn == PromptReturns /\ M!PromptReturns
=============================================================================
