------------------------------ MODULE Umalloc ------------------------------
(***************************************************************************)
(* malloc() and free() of user programs (umalloc.c): a circular list of    *)
(* free blocks in order of address, cut by malloc(), joined by free(), and *)
(* refilled by morecore() from sbrk().  A step is a turn of a loop.        *)
(*                                                                         *)
(* Addresses count headers; base, in the program's data, is below them.    *)
(* The program may also call sbrk() itself, for whole headers.             *)
(***************************************************************************)
EXTENDS Integers, FiniteSets

CONSTANTS HeapEnd,    \* sbrk() fails beyond it
          MINCORE,    \* the least morecore() asks for (4096)
          HEADER,     \* bytes in a header
          Requests    \* arguments of malloc()

ASSUME HeapAssumption == /\ {HeapEnd, MINCORE, HEADER} \subseteq Nat \ {0}
                         /\ Requests \subseteq Nat

NULL == -1
base == 0

VARIABLES hdr,    \* headers in memory: ptr, size; a joined block's is just memory,
                  \* and a block in use has no ptr
          freep,
          brk,    \* the end of the heap
          used,   \* the blocks the program has, with the bytes it asked for
          core,   \* the units morecore() got
          call    \* the call being made: pc, and the variables of malloc() and free()

heapVars == <<hdr, freep, brk, used, core, call>>

NoCall == [pc |-> "none", p |-> NULL, prevp |-> NULL, bp |-> NULL, nbytes |-> 0, nunits |-> 0]

HeapInit == /\ hdr = [a \in {base} |-> [ptr |-> NULL, size |-> 0]]
            /\ freep = NULL /\ brk = 1 /\ used = [a \in {} |-> 0] /\ core = {}
            /\ call = NoCall

ptr(a)  == hdr[a].ptr
size(a) == hdr[a].size

\* h with the headers f in it.
With(h, f) == [a \in DOMAIN h \cup DOMAIN f |-> IF a \in DOMAIN f THEN f[a] ELSE h[a]]
Header(a, p, n) == [x \in {a} |-> [ptr |-> p, size |-> n]]

-----------------------------------------------------------------------------
(* malloc().                                                               *)

Units(nbytes) == (nbytes + HEADER - 1) \div HEADER + 1

MallocCall(n) ==
  /\ call.pc = "none"
  /\ hdr' = IF freep = NULL THEN Header(base, base, 0) ELSE hdr
  /\ freep' = IF freep = NULL THEN base ELSE freep
  /\ call' = [NoCall EXCEPT !.pc = "malloc", !.prevp = freep', !.p = hdr'[freep'].ptr,
                            !.nbytes = n, !.nunits = Units(n)]
  /\ UNCHANGED <<brk, used, core>>

\* The block is taken whole, or its upper end.
MallocFits ==
  LET p == call.p
      n == call.nunits
      b == p + size(p) - n
  IN  /\ call.pc = "malloc" /\ size(p) >= n
      /\ hdr' = IF b = p THEN [hdr EXCEPT ![call.prevp].ptr = ptr(p), ![b].ptr = NULL]
                ELSE With(hdr, With(Header(p, ptr(p), size(p) - n), Header(b, NULL, n)))
      /\ used' = [a \in DOMAIN used \cup {b} |-> IF a = b THEN call.nbytes ELSE used[a]]
      /\ freep' = call.prevp
      /\ call' = NoCall
      /\ UNCHANGED <<brk, core>>

MallocGoesOn ==
  /\ call.pc = "malloc" /\ size(call.p) < call.nunits /\ call.p # freep
  /\ call' = [call EXCEPT !.prevp = call.p, !.p = ptr(call.p)]
  /\ UNCHANGED <<hdr, freep, brk, used, core>>

\* Round the list without success: morecore(), which goes on in free(), or gives
\* up if sbrk() fails.
morecore ==
  LET nu == IF call.nunits < MINCORE THEN MINCORE ELSE call.nunits
  IN  /\ call.pc = "malloc" /\ size(call.p) < call.nunits /\ call.p = freep
      /\ IF brk + nu > HeapEnd THEN call' = NoCall /\ UNCHANGED <<hdr, brk, core>>
         ELSE /\ hdr' = With(hdr, Header(brk, NULL, nu))
              /\ brk' = brk + nu
              /\ core' = core \cup (brk..brk + nu - 1)
              /\ call' = [call EXCEPT !.pc = "free", !.bp = brk, !.p = freep]
      /\ UNCHANGED <<freep, used>>

-----------------------------------------------------------------------------
(* free().                                                                 *)

FreeCall(b) ==
  /\ call.pc = "none"
  /\ used' = [a \in DOMAIN used \ {b} |-> used[a]]
  /\ call' = [NoCall EXCEPT !.pc = "free", !.bp = b, !.p = freep]
  /\ UNCHANGED <<hdr, freep, brk, core>>

\* bp goes between p and the next block, or p is the last one.
Between_After(p, bp) == bp > p
Between(p, bp) == \/ bp > p /\ bp < ptr(p)
                  \/ p >= ptr(p) /\ (bp > p \/ bp < ptr(p))

FreeGoesOn ==
  /\ call.pc = "free" /\ ~Between(call.p, call.bp)
  /\ call' = [call EXCEPT !.p = ptr(call.p)]
  /\ UNCHANGED <<hdr, freep, brk, used, core>>

\* bp is joined to the block after it, then the one before it to bp.  morecore()
\* returns to the loop of malloc(), which takes the block after freep next.
FreeLinks ==
  LET p   == call.p
      bp  == call.bp
      nx  == ptr(p)
      up  == bp + size(bp) = nx
      nbp == IF up THEN [ptr |-> ptr(nx), size |-> size(bp) + size(nx)]
             ELSE [ptr |-> nx, size |-> size(bp)]
      low == p + size(p) = bp
      h   == [a \in DOMAIN hdr \ ({x \in {nx} : up} \cup {x \in {bp} : low}) |-> hdr[a]]
  IN  /\ call.pc = "free" /\ Between(p, bp)
      /\ hdr' = With(h, IF low THEN Header(p, nbp.ptr, size(p) + nbp.size)
                        ELSE With(Header(bp, nbp.ptr, nbp.size), Header(p, bp, size(p))))
      /\ freep' = p
      /\ call' = IF call.nunits = 0 THEN NoCall
                 ELSE [call EXCEPT !.pc = "malloc", !.bp = NULL, !.prevp = p, !.p = hdr'[p].ptr]
      /\ UNCHANGED <<brk, used, core>>

\* The program's own sbrk().
Sbrk ==
  /\ call.pc = "none" /\ brk < HeapEnd
  /\ brk' = brk + 1
  /\ UNCHANGED <<hdr, freep, used, core, call>>

HeapNext ==
  \/ \E n \in Requests : MallocCall(n)
  \/ MallocFits \/ MallocGoesOn \/ morecore
  \/ \E b \in DOMAIN used : FreeCall(b)
  \/ FreeGoesOn \/ FreeLinks \/ Sbrk

-----------------------------------------------------------------------------
(* Properties.                                                             *)

\* The blocks on the list.
Listed ==
  LET from[n \in 0..Cardinality(DOMAIN hdr)] ==
        IF n = 0 THEN {base} ELSE LET s == from[n - 1] IN s \cup {ptr(a) : a \in s}
  IN  from[Cardinality(DOMAIN hdr)]

\* Between calls every unit got from sbrk() is in one block, on the list or the
\* program's and then large enough; the list is a ring in order of address with
\* no two blocks left to join, so nothing leaks and memory does not splinter,
\* whatever the order of the calls and whatever the program's own sbrk() left
\* between two pieces of the heap (umalloc.c:30-43, 75-83).
HeapTiled ==
  call.pc = "none" /\ freep # NULL =>
    LET blocks == Listed \cup DOMAIN used
        Span(a) == a..a + size(a) - 1
    IN  /\ freep \in Listed /\ Listed \cap DOMAIN used = {}
        /\ UNION {Span(a) : a \in blocks} = core
        /\ \A a, b \in blocks : a # b => Span(a) \cap Span(b) = {}
        /\ Cardinality({a \in Listed : ptr(a) <= a}) = 1
        /\ \A a, b \in Listed \ {base} : a + size(a) # b
        /\ \A b \in DOMAIN used : (size(b) - 1) * HEADER >= used[b]
=============================================================================
