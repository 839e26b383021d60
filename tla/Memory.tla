------------------------------ MODULE Memory -------------------------------
(***************************************************************************)
(* Physical pages and address spaces: kalloc.c, the page tables of vm.c,   *)
(* and the calls that build and drop them, fork(), exec(), sbrk(), exit()  *)
(* and wait(), run by processes on several CPUs when memory may run out at *)
(* any kalloc().                                                           *)
(*                                                                         *)
(* An action is one turn of a loop: the kalloc() of a page together with   *)
(* that of the page table it may need, and all the kfree() calls of one    *)
(* freevm() or deallocuvm().  Sizes are in units of which PGSIZE make a    *)
(* page.  What a page holds is one value.  Which process is whose parent   *)
(* is Proc's matter.                                                       *)
(***************************************************************************)
EXTENDS Integers, FiniteSets, FiniteSetsExt, Sequences

CONSTANTS Procs, initproc,
          NFrames,   \* physical pages are 1..NFrames
          PGSIZE,    \* units in a page
          NPTE,      \* pages a page table maps
          NDIR,      \* page tables below KERNBASE
          Programs,  \* program files
          ArgSizes,  \* what exec() pushes on the stack, in units
          Grows,     \* arguments of sbrk()
          Value,     \* what each process stores
          MaxCalls   \* how many calls are made in all

\* What a program header says of a segment, and whether the file is long enough.
Segments == [vaddr : Nat, memsz : Nat, filesz : Nat, whole : BOOLEAN]

ASSUME MemoryAssumption ==
  /\ NFrames \in Nat /\ NFrames >= 5 /\ PGSIZE \in Nat \ {0} /\ NPTE \in Nat \ {0} /\ NDIR \in Nat \ {0}
  /\ initproc \in Procs /\ ArgSizes \subseteq Nat \ {0} /\ Grows \subseteq Int
  /\ Value \in [Procs -> Nat] /\ MaxCalls \in Nat
  /\ Programs \subseteq [elf : BOOLEAN, ph : Seq(Segments)]

None     == 0
Frames   == 1..NFrames   \* what kinit1() and kinit2() freed
Pages    == 0..NPTE * NDIR - 1
KERNBASE == NPTE * NDIR * PGSIZE
PGROUNDUP(x) == ((x + PGSIZE - 1) \div PGSIZE) * PGSIZE
PDX(v)   == v \div NPTE

\* Values of a page besides the processes' own.
Zeros == 100
Junk  == 101   \* what kfree() fills a page with
Text  == 102   \* loaded from a program
Args  == 103   \* pushed by exec()

VARIABLES free,    \* the free list
          mem,     \* what each page holds
          state, kstack, pgdir, sz,   \* of the process table
          th,      \* per process: where it is in a call, and the call's variables
          holding, \* how often each process has exec()'s inode, in a transaction
          img,     \* what each process's memory should hold, page by page
          made     \* calls made so far, up to MaxCalls

vars == <<free, mem, state, kstack, pgdir, sz, th, holding, img, made>>

\* A page directory: its page, the kernel's page tables (one), the user page
\* tables, the user pages, and which of these have PTE_U.
Null == [dir |-> None, ktab |-> None, tab |-> [d \in 0..NDIR - 1 |-> None],
         pte |-> [v \in Pages |-> None], user |-> {}]

Idle == [pc |-> "idle", k |-> "", np |-> None, pg |-> Null, a |-> 0, oldsz |-> 0, newsz |-> 0,
         ip |-> FALSE, prog |-> [elf |-> FALSE, ph |-> <<>>], i |-> 1, args |-> 0]

Present(pg)  == {v \in Pages : pg.pte[v] # None}
Blank        == [val |-> Zeros, user |-> TRUE]
Image(pg, m) == [v \in Present(pg) |-> [val |-> m[pg.pte[v]], user |-> v \in pg.user]]

\* One page of initcode, after setupkvm().
inituvm == [Null EXCEPT !.dir = 2, !.ktab = 3, !.tab[0] = 4, !.pte[0] = 5, !.user = {0}]

\* userinit().
Init ==
  /\ free = 6..NFrames
  /\ mem = [f \in Frames |-> IF f = 5 THEN Text ELSE Junk]
  /\ state = [p \in Procs |-> IF p = initproc THEN "USED" ELSE "UNUSED"]
  /\ kstack = [p \in Procs |-> IF p = initproc THEN 1 ELSE None]
  /\ pgdir = [p \in Procs |-> IF p = initproc THEN inituvm ELSE Null]
  /\ sz = [p \in Procs |-> IF p = initproc THEN PGSIZE ELSE 0]
  /\ th = [p \in Procs |-> Idle]
  /\ holding = [p \in Procs |-> 0]
  /\ img = [p \in Procs |-> IF p = initproc THEN Image(pgdir[p], mem) ELSE <<>>]
  /\ made = 0

-----------------------------------------------------------------------------
(* kalloc.c and vm.c.                                                      *)

\* The first and the second page kalloc() returns.
First  == Min(free)
Second == Min(free \ {First})
Left   == Cardinality(free)

\* kfree() of pages.
kfree(fs) == /\ free' = free \cup fs
             /\ mem' = [f \in Frames |-> IF f \in fs THEN Junk ELSE mem[f]]

\* setupkvm(), if it succeeds.
setupkvm == [Null EXCEPT !.dir = First, !.ktab = Second]

\* mappages() of a new page at v, and what it takes.
Needs(pg, v)  == IF pg.tab[PDX(v)] = None THEN {First, Second} ELSE {First}
Enough(pg, v) == Left >= (IF pg.tab[PDX(v)] = None THEN 2 ELSE 1)
mappages(pg, v, u) ==
  [pg EXCEPT !.pte[v] = First, !.tab[PDX(v)] = IF @ = None THEN Second ELSE @,
             !.user = IF u THEN @ \cup {v} ELSE @]

\* The pages deallocuvm() frees, and the page directory it leaves.
Dropped(pg, oldsz, newsz) ==
  {v \in Present(pg) : v * PGSIZE >= PGROUNDUP(newsz) /\ v * PGSIZE < oldsz}

FramesAt(pg, vs) == {pg.pte[v] : v \in vs}

Without(pg, vs) == [pg EXCEPT !.pte = [v \in Pages |-> IF v \in vs THEN None ELSE @[v]],
                              !.user = @ \ vs]

\* All that freevm() frees.
freevm_NoTables(pg) == (FramesAt(pg, Pages) \cup {pg.ktab, pg.dir}) \ {None}
freevm(pg) ==
  (FramesAt(pg, Pages) \cup {pg.tab[d] : d \in 0..NDIR - 1} \cup {pg.ktab, pg.dir}) \ {None}

-----------------------------------------------------------------------------
(* User code: its instructions are in page 0, without which it only traps. *)

Running == \A p \in Procs : th[p].pc # "panic"
Ready(p) == state[p] = "USED" /\ th[p].pc = "idle"
Calls(p) == Ready(p) /\ 0 \in pgdir[p].user
Made     == made < MaxCalls /\ made' = made + 1

store(p, v) ==
  /\ Calls(p) /\ v \in pgdir[p].user /\ Made
  /\ mem' = [mem EXCEPT ![pgdir[p].pte[v]] = Value[p]]
  /\ img' = [img EXCEPT ![p][v].val = Value[p]]
  /\ UNCHANGED <<free, state, kstack, pgdir, sz, th, holding>>

exit(p) ==
  /\ Ready(p) /\ p # initproc
  /\ state' = [state EXCEPT ![p] = "ZOMBIE"]
  /\ UNCHANGED <<free, mem, kstack, pgdir, sz, th, holding, img, made>>

Reaped(q) == {kstack[q]} \cup freevm(pgdir[q])

\* p->pgdir still points to the page freed, but nothing uses it: Null.
wait(p, q) ==
  /\ Calls(p) /\ state[q] = "ZOMBIE"
  /\ kfree(Reaped(q))
  /\ kstack' = [kstack EXCEPT ![q] = None]
  /\ pgdir' = [pgdir EXCEPT ![q] = Null]
  /\ img' = [img EXCEPT ![q] = <<>>]
  /\ state' = [state EXCEPT ![q] = "UNUSED"]
  /\ UNCHANGED <<sz, th, holding, made>>

-----------------------------------------------------------------------------
(* sbrk().                                                                 *)

\* deallocuvm() returns the new size, which growproc() takes for a failure if
\* it is 0: the pages are gone, p->sz stays.  sz + n is unsigned: below 0 it is
\* above every size.
growproc_shrink(p, n) ==
  LET newsz == sz[p] + n
      vs    == IF newsz < 0 THEN {} ELSE Dropped(pgdir[p], sz[p], newsz)
  IN  /\ Calls(p) /\ n < 0 /\ Made
      /\ kfree(FramesAt(pgdir[p], vs))
      /\ pgdir' = [pgdir EXCEPT ![p] = Without(@, vs)]
      /\ sz' = [sz EXCEPT ![p] = IF newsz > 0 THEN newsz ELSE @]
      /\ img' = [img EXCEPT ![p] = [v \in DOMAIN @ \ vs |-> @[v]]]
      /\ UNCHANGED <<state, kstack, th, holding>>

\* allocuvm() refuses a size that reaches the kernel.
Refused(newsz) == newsz >= KERNBASE

\* allocuvm() from oldsz to newsz, its first tests made, and what follows it.
allocuvm_from(t, oldsz, newsz, k) ==
  [t EXCEPT !.pc = "allocuvm", !.k = k, !.oldsz = oldsz, !.newsz = newsz,
            !.a = PGROUNDUP(oldsz) \div PGSIZE]

growproc_grow(p, n) ==
  /\ Calls(p) /\ n > 0 /\ Made
  /\ th' = IF Refused(sz[p] + n) THEN th
           ELSE [th EXCEPT ![p] = allocuvm_from(@, sz[p], sz[p] + n, "growproc")]
  /\ UNCHANGED <<free, mem, state, kstack, pgdir, sz, holding, img>>

Growing(p) == th[p].pc = "allocuvm" /\ th[p].k = "growproc"

\* Out of memory: what was added is dropped again.
Undone_Swapped(pg, newsz, oldsz) == Dropped(pg, oldsz, newsz)
Undone(pg, newsz, oldsz) == Dropped(pg, newsz, oldsz)

growproc_page(p) ==
  LET t  == th[p]
      pg == pgdir[p]
      vs == Undone(pg, t.newsz, t.oldsz)
  IN  /\ Growing(p) /\ t.a * PGSIZE < t.newsz
      /\ IF ~Enough(pg, t.a)
         THEN /\ kfree(FramesAt(pg, vs))
              /\ pgdir' = [pgdir EXCEPT ![p] = Without(pg, vs)]
              /\ th' = [th EXCEPT ![p] = Idle]
         ELSE IF pg.pte[t.a] # None
         THEN th' = [th EXCEPT ![p].pc = "panic"] /\ UNCHANGED <<free, mem, pgdir>>
         ELSE /\ free' = free \ Needs(pg, t.a)
              /\ mem' = [mem EXCEPT ![First] = Zeros]
              /\ pgdir' = [pgdir EXCEPT ![p] = mappages(pg, t.a, TRUE)]
              /\ th' = [th EXCEPT ![p].a = @ + 1]
      /\ UNCHANGED <<state, kstack, sz, holding, img, made>>

growproc_end(p) ==
  LET t == th[p]
  IN  /\ Growing(p) /\ t.a * PGSIZE >= t.newsz
      /\ sz' = [sz EXCEPT ![p] = t.newsz]
      /\ img' = [img EXCEPT ![p] = [v \in 0..t.a - 1 |-> IF v \in DOMAIN @ THEN @[v] ELSE Blank]]
      /\ th' = [th EXCEPT ![p] = Idle]
      /\ UNCHANGED <<free, mem, state, kstack, pgdir, holding, made>>

-----------------------------------------------------------------------------
(* fork(): allocproc(), then copyuvm(), page by page.                      *)

\* Without a free slot or a page for the stack fork() fails at once.
fork(p) ==
  LET unused == {q \in Procs : state[q] = "UNUSED"}
      np     == CHOOSE q \in unused : TRUE
  IN  /\ Calls(p) /\ Made
      /\ unused # {} /\ Left >= 1
      /\ state' = [state EXCEPT ![np] = "EMBRYO"]
      /\ kstack' = [kstack EXCEPT ![np] = First]
      /\ free' = free \ {First}
      /\ th' = [th EXCEPT ![p] = [Idle EXCEPT !.pc = "copyuvm", !.np = np]]
      /\ UNCHANGED <<mem, pgdir, sz, holding, img>>

\* fork() gives back what it took.
Abandoned(p) == freevm(th[p].pg) \cup {kstack[th[p].np]}

fork_fails(p) ==
  /\ kfree(Abandoned(p))
  /\ kstack' = [kstack EXCEPT ![th[p].np] = None]
  /\ state' = [state EXCEPT ![th[p].np] = "UNUSED"]
  /\ th' = [th EXCEPT ![p] = Idle]

copyuvm_setup(p) ==
  /\ th[p].pc = "copyuvm" /\ th[p].pg = Null
  /\ IF Left < 2 THEN fork_fails(p)
     ELSE /\ free' = free \ {First, Second}
          /\ th' = [th EXCEPT ![p].pg = setupkvm]
          /\ UNCHANGED <<mem, state, kstack>>
  /\ UNCHANGED <<pgdir, sz, holding, img, made>>

Flags_All(pg, v) == TRUE
Flags(pg, v) == v \in pg.user

copyuvm(p) ==
  LET t  == th[p]
      pg == pgdir[p]
  IN  /\ t.pc = "copyuvm" /\ t.pg # Null /\ t.a * PGSIZE < sz[p]
      /\ IF pg.pte[t.a] = None \/ (Enough(t.pg, t.a) /\ t.pg.pte[t.a] # None)
         THEN th' = [th EXCEPT ![p].pc = "panic"] /\ UNCHANGED <<free, mem, state, kstack>>
         ELSE IF ~Enough(t.pg, t.a) THEN fork_fails(p)
         ELSE /\ free' = free \ Needs(t.pg, t.a)
              /\ mem' = [mem EXCEPT ![First] = mem[pg.pte[t.a]]]
              /\ th' = [th EXCEPT ![p].pg = mappages(@, t.a, Flags(pg, t.a)), ![p].a = t.a + 1]
              /\ UNCHANGED <<state, kstack>>
      /\ UNCHANGED <<pgdir, sz, holding, img, made>>

fork_end(p) ==
  LET t == th[p]
  IN  /\ t.pc = "copyuvm" /\ t.pg # Null /\ t.a * PGSIZE >= sz[p]
      /\ pgdir' = [pgdir EXCEPT ![t.np] = t.pg]
      /\ sz' = [sz EXCEPT ![t.np] = sz[p]]
      /\ img' = [img EXCEPT ![t.np] = img[p]]
      /\ state' = [state EXCEPT ![t.np] = "USED"]
      /\ th' = [th EXCEPT ![p] = Idle]
      /\ UNCHANGED <<free, mem, kstack, holding, made>>

-----------------------------------------------------------------------------
(* exec().  A file is [elf, ph]: whether it starts with an ELF header, and *)
(* its segments.  These are [vaddr, memsz, filesz, whole], whole if the    *)
(* file is as long as the segment says.                                    *)

exec(p, prog, args) ==
  /\ Calls(p) /\ Made
  /\ holding' = [holding EXCEPT ![p] = @ + 1]
  /\ th' = [th EXCEPT ![p] = [Idle EXCEPT !.pc = "exec", !.ip = TRUE,
                                         !.prog = prog, !.args = args]]
  /\ UNCHANGED <<free, mem, state, kstack, pgdir, sz, img>>

\* iunlockput() and end_op(), if exec() still has the inode.
Released_Always(p) == [holding EXCEPT ![p] = @ - 1]
Released(p) == [holding EXCEPT ![p] = IF th[p].ip THEN @ - 1 ELSE @]

\* bad: the new page directory goes, and the inode.
exec_bad(p) ==
  /\ kfree(freevm(th[p].pg))
  /\ holding' = Released(p)
  /\ th' = [th EXCEPT ![p] = Idle]

exec_setup(p) ==
  /\ th[p].pc = "exec" /\ th[p].pg = Null
  /\ IF ~th[p].prog.elf \/ Left < 2 THEN exec_bad(p)
     ELSE /\ free' = free \ {First, Second}
          /\ th' = [th EXCEPT ![p].pg = setupkvm]
          /\ UNCHANGED <<mem, holding>>
  /\ UNCHANGED <<state, kstack, pgdir, sz, img, made>>

\* The tests on the next segment, and allocuvm()'s; t.newsz is sz.
exec_segment(p) ==
  LET t   == th[p]
      ph  == t.prog.ph[t.i]
      end == ph.vaddr + ph.memsz
  IN  /\ t.pc = "exec" /\ t.pg # Null /\ t.i <= Len(t.prog.ph)
      /\ IF ph.memsz < ph.filesz \/ Refused(end)
         THEN exec_bad(p)
         ELSE /\ th' = [th EXCEPT ![p] = allocuvm_from(t, t.newsz, Max({end, t.newsz}), "load")]
              /\ UNCHANGED <<free, mem, holding>>
      /\ UNCHANGED <<state, kstack, pgdir, sz, img, made>>

\* allocuvm() for exec().
exec_page(p) ==
  LET t == th[p]
  IN  /\ t.pc = "allocuvm" /\ t.k # "growproc" /\ t.a * PGSIZE < t.newsz
      /\ IF ~Enough(t.pg, t.a) THEN exec_bad(p)
         ELSE IF t.pg.pte[t.a] # None
         THEN th' = [th EXCEPT ![p].pc = "panic"] /\ UNCHANGED <<free, mem, holding>>
         ELSE /\ free' = free \ Needs(t.pg, t.a)
              /\ mem' = [mem EXCEPT ![First] = Zeros]
              /\ th' = [th EXCEPT ![p].pg = mappages(@, t.a, TRUE), ![p].a = @ + 1]
              /\ UNCHANGED holding
      /\ UNCHANGED <<state, kstack, pgdir, sz, img, made>>

\* loaduvm(), after allocuvm(), which fails if it returned 0.
exec_load(p) ==
  LET t  == th[p]
      ph == t.prog.ph[t.i]
      vs == {v \in Pages : v * PGSIZE >= ph.vaddr /\ v * PGSIZE < ph.vaddr + ph.filesz}
  IN  /\ t.pc = "allocuvm" /\ t.k = "load" /\ t.a * PGSIZE >= t.newsz
      /\ IF t.newsz = 0 \/ ph.vaddr % PGSIZE # 0 \/ ~ph.whole
         THEN exec_bad(p)
         ELSE IF \E v \in vs : t.pg.pte[v] = None
         THEN th' = [th EXCEPT ![p].pc = "panic"] /\ UNCHANGED <<free, mem, holding>>
         ELSE /\ mem' = [f \in Frames |-> IF f \in FramesAt(t.pg, vs) THEN Text ELSE mem[f]]
              /\ th' = [th EXCEPT ![p].pc = "exec", ![p].i = @ + 1]
              /\ UNCHANGED <<free, holding>>
      /\ UNCHANGED <<state, kstack, pgdir, sz, img, made>>

\* The inode is let go; two pages for the stack.
exec_stack(p) ==
  LET t  == th[p]
      at == PGROUNDUP(t.newsz)
  IN  /\ t.pc = "exec" /\ t.pg # Null /\ t.i > Len(t.prog.ph)
      /\ holding' = Released(p)
      /\ IF Refused(at + 2 * PGSIZE)
         THEN kfree(freevm(t.pg)) /\ th' = [th EXCEPT ![p] = Idle]
         ELSE /\ th' = [th EXCEPT ![p] = [allocuvm_from(t, at, at + 2 * PGSIZE, "args")
                                            EXCEPT !.ip = FALSE]]
              /\ UNCHANGED <<free, mem>>
      /\ UNCHANGED <<state, kstack, pgdir, sz, img, made>>

\* clearpteu() of the lower page.
Guarded(pg, v) == [pg EXCEPT !.user = @ \ {v}]

\* The pages copyout() writes to push n units below end; uva2ka() refuses one
\* that is not the user's.
Pushed(end, n) == {v \in Pages : (v + 1) * PGSIZE > end - n /\ v * PGSIZE < end}

\* What exec() promises of the new memory: the segments, the rest zero, and on
\* top a page that only the kernel can touch and the stack.
ExecImage(ph) ==
  LET ends == {ph[i].vaddr + ph[i].memsz : i \in 1..Len(ph)}
      top  == PGROUNDUP(Max(ends \cup {0})) \div PGSIZE
      Loaded(v) == \E i \in 1..Len(ph) : v * PGSIZE \in
                     ph[i].vaddr..ph[i].vaddr + ph[i].filesz - 1
  IN  [v \in 0..top + 1 |->
         [val |-> IF v = top + 1 THEN Args ELSE IF Loaded(v) THEN Text ELSE Zeros,
          user |-> v # top]]

\* The arguments, and the new image takes the old one's place.
exec_commit(p) ==
  LET t  == th[p]
      pg == Guarded(t.pg, t.a - 2)
      vs == Pushed(t.newsz, t.args)
      m  == [f \in Frames |-> IF f \in FramesAt(pg, vs) THEN Args ELSE mem[f]]
  IN  /\ t.pc = "allocuvm" /\ t.k = "args" /\ t.a * PGSIZE >= t.newsz
      /\ IF ~(vs \subseteq pg.user)
         THEN exec_bad(p) /\ UNCHANGED <<pgdir, sz, img>>
         ELSE /\ pgdir' = [pgdir EXCEPT ![p] = pg]
              /\ sz' = [sz EXCEPT ![p] = t.newsz]
              /\ free' = free \cup freevm(pgdir[p])
              /\ mem' = [f \in Frames |-> IF f \in freevm(pgdir[p]) THEN Junk ELSE m[f]]
              /\ img' = [img EXCEPT ![p] = ExecImage(t.prog.ph)]
              /\ th' = [th EXCEPT ![p] = Idle]
              /\ UNCHANGED holding
      /\ UNCHANGED <<state, kstack, made>>

-----------------------------------------------------------------------------
Next ==
  /\ Running
  /\ \E p \in Procs :
       \/ \E v \in Pages : store(p, v)
       \/ exit(p)
       \/ \E q \in Procs : wait(p, q)
       \/ \E n \in Grows : growproc_shrink(p, n)
       \/ \E n \in Grows : growproc_grow(p, n)
       \/ growproc_page(p) \/ growproc_end(p)
       \/ fork(p) \/ copyuvm_setup(p) \/ copyuvm(p) \/ fork_end(p)
       \/ \E prog \in Programs, n \in ArgSizes : exec(p, prog, n)
       \/ exec_setup(p) \/ exec_segment(p) \/ exec_page(p) \/ exec_load(p)
       \/ exec_stack(p) \/ exec_commit(p)

Spec == Init /\ [][Next]_vars

-----------------------------------------------------------------------------
(* Properties.                                                             *)

\* Every variable has its type.
PageDirs == [dir : 0..NFrames, ktab : 0..NFrames, tab : [0..NDIR - 1 -> 0..NFrames],
             pte : [Pages -> 0..NFrames], user : SUBSET Pages]
TypeOK == /\ free \subseteq Frames
          /\ state \in [Procs -> {"UNUSED", "EMBRYO", "USED", "ZOMBIE"}]
          /\ kstack \in [Procs -> 0..NFrames]
          /\ pgdir \in [Procs -> PageDirs] /\ \A p \in Procs : th[p].pg \in PageDirs
          /\ sz \in [Procs -> 0..KERNBASE - 1]

\* The places where a page directory refers to a frame, with the frame.
Entries(pg) ==
  {<<"pte", v, pg.pte[v]>> : v \in Present(pg)}
  \cup {<<"tab", d, pg.tab[d]>> : d \in {d \in 0..NDIR - 1 : pg.tab[d] # None}}
  \cup ({<<"dir", 0, pg.dir>>, <<"ktab", 0, pg.ktab>>} \ ({"dir", "ktab"} \X {0} \X {None}))

\* The uses of frames: a process's stack, its page directory, and the one that its
\* fork() or exec() is making.
Uses ==
  {<<p, "kstack", <<"", 0, kstack[p]>>>> : p \in {p \in Procs : kstack[p] # None}}
  \cup UNION {{<<p, "pgdir", x>> : x \in Entries(pgdir[p])} : p \in Procs}
  \cup UNION {{<<p, "new", x>> : x \in Entries(th[p].pg)} : p \in Procs}

\* Every physical page is on the free list or has one use: as one process's
\* stack, or in one place of one page directory, finished or not.  Whatever
\* step of fork(), exec() or sbrk() runs out of memory, and whoever else is
\* at it, no page leaks and none is freed that is in use (vm.c:237, 243, 336,
\* 343; proc.c:197; exec.c:107).
OneUse ==
  LET uses == Uses
  IN  /\ TypeOK
      /\ Frames = free \cup {u[3][3] : u \in uses}
      /\ \A u \in uses : u[3][3] \notin free /\ \A w \in uses : u[3][3] = w[3][3] => u = w

\* A process's memory holds what it stored, inherited or loaded, page by page
\* and with the stack's guard page: no other process's call and no failed call
\* of its own changes it, and new pages are zero (vm.c:240, 331; exec.c:98).
MemoryKept ==
  \A p \in Procs : state[p] \in {"USED", "ZOMBIE"} /\ ~Growing(p) =>
    Image(pgdir[p], mem) = img[p]

\* A process has just the pages below its size, after any mix of calls with
\* sizes within a page, but for one whose sbrk() gave up its last page: growproc()
\* then reports a failure (proc.c:172).  So mappages() never finds a page mapped,
\* copyuvm() never misses one, and loaduvm() has its pages: none of their panics
\* is reached (vm.c:71, 207, 327).
SizeMapped ==
  Running /\ \A p \in Procs : state[p] = "USED" /\ ~Growing(p) /\ Present(pgdir[p]) # {} =>
    Present(pgdir[p]) = {v \in Pages : v * PGSIZE < sz[p]}

\* exec() lets go of the program's inode and of its transaction once, whichever
\* of its steps fails (exec.c:59-61, 109).
ExecReleases ==
  \A p \in Procs : holding[p] = IF th[p].ip THEN 1 ELSE 0

=============================================================================
