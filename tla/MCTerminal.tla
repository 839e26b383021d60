----------------------------- MODULE MCTerminal -----------------------------
(***************************************************************************)
(* What a user at the terminal meets: the console, the parser, the shell   *)
(* at work and the process listings.  They share no variable, so each      *)
(* behaviour is one of the four and the others stand still: their states   *)
(* add up instead of multiplying.                                          *)
(***************************************************************************)
EXTENDS Console, Shell, Ps, TLC

CONSTANTS Tokens, MaxTokens

VARIABLES part,   \* which one it is
          line    \* the line parsed

terminalVars == <<consoleVars, shellVars, psVars, part, line>>

\* Lines typed at the prompt: pipelines that fit and one that runs out of files,
\* lists inside pipes, redirections, a program that is not there, a syntax error,
\* a job in the background, and lists nested until fork() fails.
Pipeline == <<"gen", "|", "cat">>
OtherLines ==
  {<<"gen", "|", "cat", "|", "cat">>,
   <<"gen", "|", "cat", "|", "cat", "|", "cat">>,
   <<"(", "gen", ";", "cat", ")", "|", "cat", ">", "f">>,
   <<"gen", "|", "zz">>,
   <<"cat", "<", "f", "|", "cat">>,
   <<"gen", ";", ")">>,
   <<"gen", "&">>,
   <<"(", "(", "(", "(", "(", "gen", ";", "gen", ")", ";", "gen", ")", ";", "gen", ")",
     ";", "gen", ")", ";", "gen", ")">>}
AllLines == {Pipeline} \cup OtherLines

\* ^P, everything, by pid, by state, by name, by pid and state.
Query(p, s, n) == [kind |-> "ps", pid |-> p, state |-> s, name |-> n]
Queries == {[Query(NoPid, NoState, NoName) EXCEPT !.kind = "dump"],
            Query(NoPid, NoState, NoName), Query(3, NoState, NoName), Query(NoPid, "RUNNABLE", NoName),
            Query(NoPid, NoState, "sh"), Query(3, "RUNNABLE", NoName)}

Init ==
  /\ ConsoleInit /\ ShellInit /\ PsInit
  /\ \/ part \in {"console", "shell", "ps"} /\ line = <<>>
     \/ part = "parser" /\ line \in UNION {[1..n -> Tokens] : n \in 0..MaxTokens}

Next ==
  \/ part = "console" /\ ConsoleNext /\ UNCHANGED <<shellVars, psVars, part, line>>
  \/ part = "shell" /\ ShellNext /\ UNCHANGED <<consoleVars, psVars, part, line>>
  \/ part = "ps" /\ PsNext /\ UNCHANGED <<consoleVars, shellVars, part, line>>

\* Every process that can go on does: the scheduler is fair to it.
Fair == /\ WF_shellVars(part = "shell" /\ InitStep)
        /\ \A p \in Procs : WF_shellVars(part = "shell" /\ TaskStep(p))

Spec == Init /\ [][Next]_terminalVars /\ Fair

\* The parser accepts exactly the lines of the grammar, each with its one command
\* tree: nothing it accepts is read differently, and every other line makes it
\* panic (sh.c:328-446).
ParsesAsGrammar == part = "parser" => Grammatical(line)
=============================================================================
