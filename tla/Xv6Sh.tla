-------------------------------- MODULE Xv6Sh -------------------------------
(***************************************************************************)
(* The shell of xv6 (user/sh.c): the parser of a line, and the processes   *)
(* and descriptors with which runcmd() runs what it has parsed.            *)
(*                                                                         *)
(* A line is a sequence of tokens, as gettoken() cuts it.  A command is    *)
(* <<"EXEC", argv>>, <<"REDIR", cmd, file, fd>>, <<"PIPE", left, right>>,  *)
(* <<"LIST", left, right>> or <<"BACK", cmd>>.  Processes are entries of a *)
(* table of limited size; a program that the shell has started is a filter *)
(* that ends when its input does, or earlier.                              *)
(***************************************************************************)
EXTENDS Integers, Sequences, FiniteSets, SequencesExt

CONSTANTS Pid,          \* the process table: 1 .. n, 1 is the shell
          NOFILE,       \* descriptors of a process
          MAXARGS,
          Lines,        \* what may be typed
          MaxLines,     \* bound: lines that are typed
          Closed        \* the content of a descriptor that is not open

ASSUME ShAssumption == NOFILE >= 5 /\ MAXARGS >= 1 /\ Pid = 1 .. Cardinality(Pid)

Symbols == {"|", "(", ")", ";", "&", "<", ">", ">>"}

----------------------------------------------------------------------------
(***************************************************************************)
(* The parser.  A function of it returns the command and what is left of   *)
(* the line, or Syntax, for a panic().  argv[] and file point into the     *)
(* line: they are positions from its end until nulterminate().             *)
(***************************************************************************)
Syntax == [cmd |-> <<"SYNTAX">>, rest |-> <<>>]
Ok(cmd, rest) == [cmd |-> cmd, rest |-> rest]

Peek(s, toks) == s # <<>> /\ Head(s) \in toks
\* gettoken() = 'a'
Word(s) == s # <<>> /\ Head(s) \notin Symbols

RECURSIVE ParseLine(_), ParsePipe(_), ParseRedirs(_), ParseArgs(_, _), Backs(_)

\* parseredirs()
ParseRedirs(r) ==
  IF r = Syntax \/ ~Peek(r.rest, {"<", ">", ">>"}) THEN r
  ELSE IF ~Word(Tail(r.rest)) THEN Syntax
  ELSE ParseRedirs(Ok(<<"REDIR", r.cmd, Len(r.rest) - 1, IF Head(r.rest) = "<" THEN 0 ELSE 1>>,
                      Tail(Tail(r.rest))))

\* parseexec(): argv has the arguments up to here, r the redirections of
\* <<"EXEC", <<>>>> and the rest; the command is put together at the end.
RECURSIVE WithArgs(_, _)
WithArgs(cmd, argv) == IF cmd[1] = "EXEC" THEN <<"EXEC", argv>>
                       ELSE <<"REDIR", WithArgs(cmd[2], argv), cmd[3], cmd[4]>>

TooMany_OffByOne(argv) == Len(argv) > MAXARGS
TooMany(argv) == Len(argv) >= MAXARGS

ParseArgs(r, argv) ==
  IF r = Syntax THEN Syntax
  ELSE IF r.rest = <<>> \/ Peek(r.rest, {"|", ")", "&", ";"})
       THEN Ok(WithArgs(r.cmd, argv), r.rest)
  ELSE IF ~Word(r.rest) \/ TooMany(Append(argv, Len(r.rest))) THEN Syntax
  ELSE ParseArgs(ParseRedirs(Ok(r.cmd, Tail(r.rest))), Append(argv, Len(r.rest)))

\* parseblock()
Unclosed(r) == IF r = Syntax \/ ~Peek(r.rest, {")"}) THEN Syntax
               ELSE ParseRedirs(Ok(r.cmd, Tail(r.rest)))
ParseBlock(s) == Unclosed(ParseLine(Tail(s)))

ParseExec(s) ==
  IF Peek(s, {"("}) THEN ParseBlock(s)
  ELSE ParseArgs(ParseRedirs(Ok(<<"EXEC", <<>>>>, s)), <<>>)

Join(type, left, right) ==
  IF right = Syntax THEN Syntax ELSE Ok(<<type, left.cmd, right.cmd>>, right.rest)

PipeRest(left) == IF left = Syntax \/ ~Peek(left.rest, {"|"}) THEN left
                  ELSE Join("PIPE", left, ParsePipe(Tail(left.rest)))
ParsePipe(s) == PipeRest(ParseExec(s))

Backs(r) == IF r = Syntax \/ ~Peek(r.rest, {"&"}) THEN r
            ELSE Backs(Ok(<<"BACK", r.cmd>>, Tail(r.rest)))

LineRest(left) == IF left = Syntax \/ ~Peek(left.rest, {";"}) THEN left
                  ELSE Join("LIST", left, ParseLine(Tail(left.rest)))
ParseLine(s) == LineRest(Backs(ParsePipe(s)))

\* nulterminate(): cut the words out of the line s.
RECURSIVE Nulterminate(_, _)
Nulterminate(s, c) ==
  LET at(n) == s[Len(s) - n + 1]
  IN  CASE c[1] = "EXEC" -> <<"EXEC", [i \in DOMAIN c[2] |-> at(c[2][i])]>>
        [] c[1] = "REDIR" -> <<"REDIR", Nulterminate(s, c[2]), at(c[3]), c[4]>>
        [] c[1] = "BACK" -> <<"BACK", Nulterminate(s, c[2])>>
        [] OTHER -> <<c[1], Nulterminate(s, c[2]), Nulterminate(s, c[3])>>

\* parsecmd(): leftovers are an error.
Leftovers(s, r) == IF r = Syntax \/ r.rest # <<>> THEN <<"SYNTAX">> ELSE Nulterminate(s, r.cmd)
ParseCmd(s) == Leftovers(s, ParseLine(s))

\* (@@ has TLC compute it once.)
Parsed == [s \in Lines |-> ParseCmd(s)] @@ <<>>

----------------------------------------------------------------------------
(***************************************************************************)
(* Processes and descriptors                                               *)
(***************************************************************************)
VARIABLES
  proc,     \* proc[p]: [pc, parent, cmd, fd]; pc is "free" for an entry not in use
  pipes,    \* how many pipes were made: each is a number
  line,     \* the line that was typed last
  typed

vars == <<proc, pipes, line, typed>>

Fds == 0 .. NOFILE - 1
Free == [pc |-> "free", parent |-> 0, cmd |-> <<"EXEC", <<>>>>, fd |-> [d \in Fds |-> Closed]]

\* close(), and open(), dup() and pipe(), which take the lowest descriptor.
Close(f, S) == [d \in Fds |-> IF d \in S THEN Closed ELSE f[d]]
Lowest(f) == CHOOSE d \in Fds : f[d] = Closed /\ \A c \in 0 .. d - 1 : f[c] # Closed
Open(f, obj) == [f EXCEPT ![Lowest(f)] = obj]

\* Whether somebody has the write end of pipe k open.
Written(k) == \E p \in Pid : \E d \in Fds : proc[p].fd[d] = <<"write", k>>

\* exit(): the descriptors are closed, the children go to init, which reaps
\* them, and the process is a zombie for its parent.
Exited(t, p) ==
  [q \in Pid |->
     IF q = p THEN IF t[p].parent = 0 THEN Free
                   ELSE [Free EXCEPT !.pc = "zombie", !.parent = t[p].parent]
     ELSE IF t[q].parent # p \/ t[q].pc = "free" THEN t[q]
     ELSE IF t[q].pc = "zombie" THEN Free
     ELSE [t[q] EXCEPT !.parent = 0]]

\* fork1(): the child runs cmd from label l on, p goes on at m; when the table
\* is full p panics, which is an exit.
Fork1(p, cmd, l, m) ==
  LET free == {q \in Pid : proc[q].pc = "free"}
      c == CHOOSE q \in free : \A o \in free : q <= o
  IN  proc' = IF free = {} THEN Exited(proc, p)
              ELSE [proc EXCEPT ![p].pc = m,
                                ![c] = [pc |-> l, parent |-> p, cmd |-> cmd, fd |-> proc[p].fd]]

\* wait(0): a zombie child is gone, then p goes on as f says; with no child
\* at all it goes on too.
Wait(p, l, f(_)) ==
  LET children == {q \in Pid : proc[q].pc # "free" /\ proc[q].parent = p}
      zombies == {q \in children : proc[q].pc = "zombie"}
  IN  /\ proc[p].pc = l
      /\ proc' \in IF children = {} THEN {f(proc)} ELSE {f([proc EXCEPT ![c] = Free]) : c \in zombies}

At(p, type) == proc[p].pc = "run" /\ proc[p].cmd[1] = type

----------------------------------------------------------------------------
(***************************************************************************)
(* main()                                                                  *)
(***************************************************************************)

\* init gives the shell descriptors 0, 1 and 2, somebody else perhaps fewer;
\* main() opens the console until it has three.
Three(f) == [d \in Fds |-> IF d < 3 /\ f[d] = Closed THEN <<"console">> ELSE f[d]]

Init ==
  /\ proc = [p \in Pid |-> IF p = 1 THEN [Free EXCEPT !.pc = "prompt", !.fd = Three(@)] ELSE Free]
  /\ pipes = 0 /\ line = <<>> /\ typed = 0

\* getcmd(), and cd, which the shell itself does.
Getcmd ==
  /\ proc[1].pc = "prompt" /\ typed < MaxLines /\ typed' = typed + 1
  /\ \E s \in Lines :
       /\ line' = s
       /\ IF s # <<>> /\ Head(s) = "cd" THEN UNCHANGED proc
          ELSE Fork1(1, <<"EXEC", <<>>>>, "parse", "wait")
  /\ UNCHANGED pipes

Eof ==
  /\ proc[1].pc = "prompt"
  /\ proc' = Exited(proc, 1)
  /\ UNCHANGED <<pipes, line, typed>>

MainWait == /\ Wait(1, "wait", LAMBDA t : [t EXCEPT ![1].pc = "prompt"])
            /\ UNCHANGED <<pipes, line, typed>>

----------------------------------------------------------------------------
(***************************************************************************)
(* runcmd()                                                                *)
(***************************************************************************)
Others == UNCHANGED <<pipes, line, typed>>

RunParse(p) ==
  /\ proc[p].pc = "parse"
  /\ proc' = IF Parsed[line] = <<"SYNTAX">> THEN Exited(proc, p)
             ELSE [proc EXCEPT ![p].pc = "run", ![p].cmd = Parsed[line]]
  /\ Others

RunExec(p) ==
  /\ At(p, "EXEC")
  /\ \/ proc[p].cmd[2] # <<>> /\ proc' = [proc EXCEPT ![p].pc = "program"]
     \/ proc' = Exited(proc, p)     \* nothing to run, or exec() fails
  /\ Others

RunRedir(p) ==
  LET c == proc[p].cmd
      closed == Close(proc[p].fd, {c[4]})
  IN  /\ At(p, "REDIR")
      /\ \/ proc' = [proc EXCEPT ![p].fd = Open(closed, <<"file", c[3], c[4]>>), ![p].cmd = c[2]]
         \/ proc' = Exited(proc, p)     \* open() fails
      /\ Others

RunList(p) ==
  /\ At(p, "LIST")
  /\ Fork1(p, proc[p].cmd[2], "run", "list")
  /\ Others

ListWait(p) ==
  /\ Wait(p, "list", LAMBDA t : [t EXCEPT ![p].pc = "run", ![p].cmd = @[3]])
  /\ Others

RunPipe(p) ==
  LET f == Open(Open(proc[p].fd, <<"read", pipes + 1>>), <<"write", pipes + 1>>)
  IN  /\ At(p, "PIPE")
      /\ \/ /\ proc' = [proc EXCEPT ![p].pc = "fork left", ![p].fd = f]
            /\ pipes' = pipes + 1
         \/ proc' = Exited(proc, p) /\ UNCHANGED pipes     \* pipe() fails
      /\ UNCHANGED <<line, typed>>

\* The ends of the last pipe that p has made, p[0] and p[1], and both.
Ends(f) == {d \in Fds : d > 2 /\ f[d] # Closed}
End(f, way) == CHOOSE d \in Ends(f) : f[d][1] = way

ForkLeft(p) == /\ proc[p].pc = "fork left"
               /\ Fork1(p, proc[p].cmd[2], "left", "fork right") /\ Others
ForkRight_KeepsEnds(p) ==
  /\ proc[p].pc = "fork right"
  /\ Fork1(p, proc[p].cmd[3], "right", "wait both") /\ Others
ForkRight(p) == /\ proc[p].pc = "fork right"
                /\ Fork1(p, proc[p].cmd[3], "right", "close ends") /\ Others

\* close(1); dup(p[1]); close(p[0]); close(p[1]) of the left side, and the same
\* with 0 and p[0] of the right.
Side_KeepsOther(p, l, fd, way) ==
  LET f == proc[p].fd
      end == f[End(f, way)]
  IN  /\ proc[p].pc = l
      /\ proc' = [proc EXCEPT ![p].pc = "run",
                    ![p].fd = Close(Open(Close(f, {fd}), end), {End(f, way)})]
      /\ Others
Side(p, l, fd, way) ==
  LET f == proc[p].fd
      end == f[End(f, way)]
  IN  /\ proc[p].pc = l
      /\ proc' = [proc EXCEPT ![p].pc = "run", ![p].fd = Close(Open(Close(f, {fd}), end), Ends(f))]
      /\ Others
PipeLeft(p) == Side(p, "left", 1, "write")
PipeRight(p) == Side(p, "right", 0, "read")

ClosePipe(p) ==
  /\ proc[p].pc = "close ends"
  /\ proc' = [proc EXCEPT ![p].pc = "wait both", ![p].fd = Close(@, Ends(@))]
  /\ Others

PipeWait(p) ==
  /\ \/ Wait(p, "wait both", LAMBDA t : [t EXCEPT ![p].pc = "wait one"])
     \/ Wait(p, "wait one", LAMBDA t : Exited(t, p))
  /\ Others

RunBack(p) ==
  /\ At(p, "BACK")
  /\ Fork1(p, proc[p].cmd[2], "run", "done")
  /\ Others

RunDone(p) == proc[p].pc = "done" /\ proc' = Exited(proc, p) /\ Others

----------------------------------------------------------------------------
(***************************************************************************)
(* The programs: a filter ends at the end of its input, any program may    *)
(* end before.                                                             *)
(***************************************************************************)
InputEnds(p) == (proc[p].fd[0][1] = "read") => ~Written(proc[p].fd[0][2])

ProgramEnds(p) ==
  /\ proc[p].pc = "program" /\ InputEnds(p)
  /\ proc' = Exited(proc, p) /\ Others

ProgramQuits(p) ==
  /\ proc[p].pc = "program" /\ ~InputEnds(p)
  /\ proc' = Exited(proc, p) /\ Others

----------------------------------------------------------------------------
Step(p) == \/ RunParse(p) \/ RunExec(p) \/ RunRedir(p) \/ RunList(p) \/ ListWait(p) \/ RunPipe(p)
           \/ ForkLeft(p) \/ ForkRight(p) \/ PipeLeft(p) \/ PipeRight(p) \/ ClosePipe(p)
           \/ PipeWait(p) \/ RunBack(p) \/ RunDone(p) \/ ProgramEnds(p)

Next == \/ Getcmd \/ Eof \/ MainWait
        \/ \E p \in Pid : Step(p) \/ ProgramQuits(p)

\* The machine runs some process that can run (less than the scheduler's round
\* robin gives), and programs end when their input does.
Fairness == WF_vars(MainWait \/ \E p \in Pid : Step(p))

Spec == Init /\ [][Next]_vars /\ Fairness

----------------------------------------------------------------------------
(***************************************************************************)
(* Properties                                                              *)
(***************************************************************************)

(***************************************************************************)
(* The grammar, by where a line is cut: at the first ; outside of          *)
(* parentheses, else before the &s at its end, else at the first |.        *)
(***************************************************************************)
Depth(s, n) == Cardinality({i \in 1 .. n : s[i] = "("}) - Cardinality({i \in 1 .. n : s[i] = ")"})
Cuts(s, tok) == {i \in 1 .. Len(s) : s[i] = tok /\ Depth(s, i) = 0}
FirstCut(s, tok) == CHOOSE i \in Cuts(s, tok) : \A j \in Cuts(s, tok) : i <= j
Before(s, i) == SubSeq(s, 1, i - 1)
After(s, i) == SubSeq(s, i + 1, Len(s))

\* The redirections at the end of a block, or anywhere in a simple command.
RedirAt(s) == {i \in 1 .. Len(s) - 1 : s[i] \in {"<", ">", ">>"}}
Args(s) == SelectSeq([i \in 1 .. Len(s) |->
                        IF i \in RedirAt(s) \/ i - 1 \in RedirAt(s) THEN "<" ELSE s[i]],
                     LAMBDA t : t # "<")
Redirected(cmd, s) ==
  FoldLeft(LAMBDA c, i : IF i \in RedirAt(s)
                         THEN <<"REDIR", c, s[i + 1], IF s[i] = "<" THEN 0 ELSE 1>> ELSE c,
           cmd, [i \in 1 .. Len(s) |-> i])
WellFormed(s) == \A i \in 1 .. Len(s) :
  s[i] \in Symbols => /\ i \in RedirAt(s) /\ s[i + 1] \notin Symbols
                      /\ i - 1 \notin RedirAt(s)

Bad == <<"SYNTAX">>
Both(type, l, r) == IF Bad \in {l, r} THEN Bad ELSE <<type, l, r>>
RECURSIVE Meaning(_)
Meaning(s) ==
  IF Cuts(s, ";") # {}
  THEN Both("LIST", Meaning(Before(s, FirstCut(s, ";"))), Meaning(After(s, FirstCut(s, ";"))))
  ELSE IF s # <<>> /\ Last(s) = "&"
  THEN LET c == Meaning(Front(s)) IN IF c = Bad THEN Bad ELSE <<"BACK", c>>
  ELSE IF Cuts(s, "&") # {} THEN Bad
  ELSE IF Cuts(s, "|") # {}
  THEN Both("PIPE", Meaning(Before(s, FirstCut(s, "|"))), Meaning(After(s, FirstCut(s, "|"))))
  ELSE IF s # <<>> /\ Head(s) = "(" /\ Cuts(s, ")") # {}
  THEN LET c == FirstCut(s, ")")
           inside == Meaning(SubSeq(s, 2, c - 1))
       IN  IF inside = Bad \/ ~WellFormed(After(s, c)) \/ Args(After(s, c)) # <<>> THEN Bad
           ELSE Redirected(inside, After(s, c))
  ELSE IF ~WellFormed(s) \/ Len(Args(s)) >= MAXARGS THEN Bad
  ELSE Redirected(<<"EXEC", Args(s)>>, s)

\* parsecmd(): the parser finds the command that the line means, or an error
\* exactly if it means none.
ParsesRight == typed > 0 => Parsed[line] = Meaning(line)

\* runcmd(): a program has exactly its three standard descriptors, and no end
\* of a pipe but the ones it is to read and write.
StandardFds ==
  \A p \in Pid : proc[p].pc = "program" =>
    /\ \A d \in Fds : (proc[p].fd[d] # Closed) = (d \in 0 .. 2)
    /\ proc[p].fd[0][1] # "write" /\ proc[p].fd[1][1] # "read" /\ proc[p].fd[2] = <<"console">>

\* main(), runcmd(): whatever is run, fails or cannot be forked, the prompt comes
\* back when the programs that are not in the background have had their input;
\* nobody waits for the end of a pipe that he keeps open himself.
PromptReturns == proc[1].pc = "wait" ~> proc[1].pc = "prompt"
=============================================================================
