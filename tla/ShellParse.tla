----------------------------- MODULE ShellParse -----------------------------
(***************************************************************************)
(* The shell's parser (sh.c:195-446), and the grammar it should implement. *)
(*                                                                         *)
(* A line is a sequence of tokens as gettoken() cuts it: the symbols, ">>" *)
(* and words; every other token is a word.  A parsing function returns the *)
(* command and the tokens left, or Panic: the process that parses exits.   *)
(***************************************************************************)
EXTENDS Naturals, Sequences

CONSTANTS MAXARGS

Symbols == {"|", "(", ")", ";", "&", "<", ">", ">>"}

execcmd(argv)          == [type |-> "EXEC", argv |-> argv]
redircmd(c, file, fd)  == [type |-> "REDIR", cmd |-> c, file |-> file, fd |-> fd]
pipecmd(left, right)   == [type |-> "PIPE", left |-> left, right |-> right]
listcmd(left, right)   == [type |-> "LIST", left |-> left, right |-> right]
backcmd(c)             == [type |-> "BACK", cmd |-> c]

Panic == [cmd |-> [type |-> "none"], rest |-> <<>>, panic |-> TRUE]
Parsed(c, s) == [cmd |-> c, rest |-> s, panic |-> FALSE]

peek(s, toks) == s # <<>> /\ Head(s) \in toks
Word(s)       == s # <<>> /\ Head(s) \notin Symbols

\* The descriptor a redirection is for; ">>" is treated as ">".
RedirFd(tok) == IF tok = "<" THEN 0 ELSE 1

RECURSIVE parseredirs(_, _)
parseredirs(c, s) ==
  IF ~peek(s, {"<", ">", ">>"}) THEN Parsed(c, s)
  ELSE IF ~Word(Tail(s)) THEN Panic
  ELSE parseredirs(redircmd(c, s[2], RedirFd(s[1])), SubSeq(s, 3, Len(s)))

\* The command cmd of parseexec() is inside the redirections that ret collects.
RECURSIVE WithArgs(_, _)
WithArgs(c, argv) == IF c.type = "EXEC" THEN execcmd(argv) ELSE [c EXCEPT !.cmd = WithArgs(@, argv)]

\* The loop of parseexec(): ret so far, the arguments so far, what is left.
RECURSIVE parseargs(_, _, _)
parseargs(ret, argv, s) ==
  IF s = <<>> \/ peek(s, {"|", ")", "&", ";"}) THEN Parsed(WithArgs(ret, argv), s)
  ELSE IF ~Word(s) \/ Len(argv) + 1 >= MAXARGS THEN Panic
  ELSE LET p == parseredirs(ret, Tail(s))
       IN  IF p.panic THEN Panic ELSE parseargs(p.cmd, Append(argv, Head(s)), p.rest)

RECURSIVE parseline(_), parsepipe(_), parseblock(_)

parseblock(s) ==
  LET p == parseline(Tail(s))
  IN  IF p.panic \/ ~peek(p.rest, {")"}) THEN Panic
      ELSE parseredirs(p.cmd, Tail(p.rest))

parseexec(s) ==
  IF peek(s, {"("}) THEN parseblock(s)
  ELSE LET p == parseredirs(execcmd(<<>>), s)
       IN  IF p.panic THEN Panic ELSE parseargs(p.cmd, <<>>, p.rest)

\* A pipe's right side is the rest of the pipeline.
parsepipe(s) ==
  LET p == parseexec(s)
  IN  IF p.panic \/ ~peek(p.rest, {"|"}) THEN p
      ELSE LET q == parsepipe(Tail(p.rest))
           IN  IF q.panic THEN Panic ELSE Parsed(pipecmd(p.cmd, q.cmd), q.rest)

RECURSIVE parseback(_)
parseback(p) == IF ~peek(p.rest, {"&"}) THEN p ELSE parseback(Parsed(backcmd(p.cmd), Tail(p.rest)))

parseline(s) ==
  LET p == parsepipe(s)
      b == parseback(p)
  IN  IF p.panic \/ ~peek(b.rest, {";"}) THEN (IF p.panic THEN Panic ELSE b)
      ELSE LET q == parseline(Tail(b.rest))
           IN  IF q.panic THEN Panic ELSE Parsed(listcmd(b.cmd, q.cmd), q.rest)

parsecmd_KeepsLeftovers(s) == parseline(s)
parsecmd(s) == LET p == parseline(s) IN IF p.panic \/ p.rest # <<>> THEN Panic ELSE p

-----------------------------------------------------------------------------
(* The grammar, by ways to split a line rather than by looking ahead:      *)
(*   line  ::= pipe & ... & [; line]        pipe ::= exec [| pipe]         *)
(*   exec  ::= ( line ) redir ...           or words and redirs, mixed     *)
(* A set of commands for each sequence of tokens.                          *)

Before(s, i) == SubSeq(s, 1, i - 1)
After(s, i)  == SubSeq(s, i + 1, Len(s))
Places(s, toks) == {i \in DOMAIN s : s[i] \in toks}

\* s is redirections only; a word stands at i outside all of them.
Redirs(s)  == /\ Len(s) % 2 = 0
              /\ \A i \in DOMAIN s : IF i % 2 = 1 THEN s[i] \in {"<", ">", ">>"} ELSE s[i] \notin Symbols
Outside(s, i) == s[i] \notin Symbols /\ (i = 1 \/ s[i - 1] \notin {"<", ">", ">>"})
Simple(s)  == /\ \A i \in DOMAIN s : s[i] \in Symbols =>
                   /\ s[i] \in {"<", ">", ">>"}
                   /\ i < Len(s) /\ s[i + 1] \notin Symbols

\* c inside the redirections of s, the last one outermost.
RECURSIVE Inside(_, _)
Inside(c, s) ==
  LET rs == Places(s, {"<", ">", ">>"})
  IN  IF rs = {} THEN c
      ELSE LET i == CHOOSE i \in rs : \A j \in rs : j <= i
           IN  redircmd(Inside(c, Before(s, i)), s[i + 1], RedirFd(s[i]))

Words(s) == SelectSeq([i \in DOMAIN s |-> IF Outside(s, i) THEN s[i] ELSE "|"], LAMBDA x : x # "|")

RECURSIVE LineTrees(_), PipeTrees(_)
ExecTrees(s) ==
  (IF Simple(s) /\ Len(Words(s)) < MAXARGS THEN {Inside(execcmd(Words(s)), s)} ELSE {})
  \cup UNION {{Inside(c, After(s, i)) : c \in LineTrees(SubSeq(s, 2, i - 1))} :
              i \in {i \in Places(s, {")"}) : s[1] = "(" /\ Redirs(After(s, i))}}
PipeTrees(s) ==
  ExecTrees(s) \cup UNION {{pipecmd(a, b) : a \in ExecTrees(Before(s, i)), b \in PipeTrees(After(s, i))} :
                           i \in Places(s, {"|"})}

RECURSIVE BackTrees(_)
BackTrees(s) ==
  PipeTrees(s) \cup (IF s # <<>> /\ s[Len(s)] = "&"
                     THEN {backcmd(c) : c \in BackTrees(Before(s, Len(s)))} ELSE {})
LineTrees(s) ==
  BackTrees(s) \cup UNION {{listcmd(a, b) : a \in BackTrees(Before(s, i)), b \in LineTrees(After(s, i))} :
                           i \in Places(s, {";"})}

\* What parsecmd() makes of s is what the grammar says: its one command tree, or
\* a panic if it has none.
Grammatical(s) ==
  LET p == parsecmd(s)
  IN  LineTrees(s) = IF p.panic THEN {} ELSE {p.cmd}
=============================================================================
