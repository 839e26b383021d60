----------------------------- MODULE ByteStream -----------------------------
(***************************************************************************)
(* What a pipe promises: a bounded queue of bytes that come out as they    *)
(* went in and stay there as long as some process has an end open.         *)
(***************************************************************************)
EXTENDS Naturals, Sequences

CONSTANTS Bytes, Capacity

VARIABLES queue,  \* bytes written and not yet read
          out,    \* the byte delivered last
          open    \* the ends ("r", "w") that some process has open

bvars == <<queue, out, open>>

Init == queue = <<>> /\ open = {} /\ out \notin Bytes

Open == /\ open = {} /\ queue = <<>>
        /\ open' = {"r", "w"}
        /\ UNCHANGED <<queue, out>>

Close(e) == /\ e \in open
            /\ open' = open \ {e}
            /\ UNCHANGED <<queue, out>>

Put(v) == /\ "w" \in open /\ Len(queue) < Capacity
          /\ queue' = Append(queue, v)
          /\ UNCHANGED <<out, open>>

Get == /\ "r" \in open /\ queue # <<>>
       /\ out' = Head(queue)
       /\ queue' = Tail(queue)
       /\ UNCHANGED open

Discard == /\ open = {}
           /\ queue' = <<>>
           /\ UNCHANGED <<out, open>>

Next == Open \/ (\E e \in {"r", "w"} : Close(e)) \/ (\E v \in Bytes : Put(v)) \/ Get \/ Discard

Spec == Init /\ [][Next]_bvars
=============================================================================
