----------------------------- MODULE LineBuffer -----------------------------
(***************************************************************************)
(* What the console's input promises: a line under edit, which the user    *)
(* may still change, and after it the input handed over to the readers,    *)
(* which comes out in the order it was typed in.                           *)
(***************************************************************************)
EXTENDS Naturals, Sequences

CONSTANTS Chars, Capacity,
          Closing,   \* the characters that end a line
          Eof        \* one of them: the end-of-file mark

VARIABLES line,   \* the line under edit
          input,  \* handed over and not yet read
          out     \* the character a reader got last

lvars == <<line, input, out>>

Init == line = <<>> /\ input = <<>> /\ out \notin Chars

Room == Len(input) + Len(line) < Capacity

\* A line is handed over when it is ended, and when there is no room for more.
Type(c) ==
  /\ Room
  /\ IF c \in Closing \/ Len(input) + Len(line) + 1 = Capacity
     THEN line' = <<>> /\ input' = input \o Append(line, c)
     ELSE line' = Append(line, c) /\ UNCHANGED input
  /\ UNCHANGED out

Erase == /\ line # <<>>
         /\ line' = SubSeq(line, 1, Len(line) - 1)
         /\ UNCHANGED <<input, out>>

KillLine == line' = <<>> /\ UNCHANGED <<input, out>>

\* The end-of-file mark is taken out without being delivered.
Take ==
  /\ input # <<>>
  /\ input' = Tail(input)
  /\ out' = IF Head(input) = Eof THEN out ELSE Head(input)
  /\ UNCHANGED line

Next == (\E c \in Chars : Type(c)) \/ Erase \/ KillLine \/ Take

Spec == Init /\ [][Next]_lvars
=============================================================================
