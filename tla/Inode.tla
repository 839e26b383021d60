------------------------------- MODULE Inode -------------------------------
(***************************************************************************)
(* Inodes, directories and path names (fs.c) under the calls of sysfile.c  *)
(* that change the name space: open, mkdir, mknod, link, unlink, chdir and *)
(* close, made by several processes at once.                               *)
(*                                                                         *)
(* An inode's sleep lock is the only lock held from one action to the next:*)
(* whatever a process does between taking an inode's lock and having to    *)
(* wait for another, or giving it back, is one action.  Every call runs in *)
(* a transaction of Log and finds the disk as the others left it.  File    *)
(* contents are FileData's; a directory's are its entries.                 *)
(***************************************************************************)
EXTENDS Integers, Sequences, FiniteSets, FiniteSetsExt

CONSTANTS Procs,    \* processes making calls
          NInodes,  \* inodes on disk are 1..NInodes; create() is not called when all are taken
          NINODE,   \* entries of the inode cache
          Names,    \* names of directory entries
          Paths,    \* paths that link is given, sequences of names
          Calls,    \* other calls that are made, pairs of a call and its path
          MaxCalls  \* how many calls are made in all

ASSUME InodeAssumption == /\ NInodes \in Nat \ {0} /\ NINODE \in Nat \ {0}
                          /\ MaxCalls \in Nat
                          /\ Paths \subseteq Seq(Names) \ {<<>>}
                          /\ \A c \in Calls : c[2] \in Seq(Names) \ {<<>>}

ROOTINO == 1
Inums   == 1..NInodes
Entries == 1..NINODE
None    == 0
Free    == "free"   \* type 0 on disk
Types   == {Free, "T_FILE", "T_DIR", "T_DEV"}

VARIABLES dinode,  \* on disk: type, nlink, and a directory's entries besides "." and ".."
          icache,  \* inum, ref, valid, lock, type, nlink of every entry
          cwd,     \* per process: entry of the current directory
          file,    \* per process: entry of its open file, or None
          th,      \* per process: where it is in a call, and the call's variables
          made     \* calls made so far, up to MaxCalls

vars == <<dinode, icache, cwd, file, th, made>>

NoEntries == [n \in Names |-> None]
Idle == [pc |-> "idle", op |-> "none", path |-> <<>>, new |-> <<>>, ret |-> "idle",
         cur |-> None, ip |-> None, dp |-> None, puts |-> <<>>, k |-> "idle"]

\* A cache entry with ref 0; its other fields are not read again before iget() sets
\* them, and are forgotten.
FreeEntry == [inum |-> None, ref |-> 0, valid |-> FALSE, lock |-> None, type |-> Free, nlink |-> 0]

\* mkfs's root directory, which every process starts in.
Init ==
  /\ dinode = [i \in Inums |-> [type  |-> IF i = ROOTINO THEN "T_DIR" ELSE Free,
                                nlink |-> IF i = ROOTINO THEN 1 ELSE 0,
                                dir   |-> NoEntries]]
  /\ icache = [e \in Entries |->
                 IF e = 1 THEN [inum |-> ROOTINO, ref |-> Cardinality(Procs), valid |-> FALSE,
                                lock |-> None, type |-> Free, nlink |-> 0]
                 ELSE FreeEntry]
  /\ cwd  = [p \in Procs |-> 1]
  /\ file = [p \in Procs |-> None]
  /\ th   = [p \in Procs |-> Idle]
  /\ made = 0

-----------------------------------------------------------------------------
(* The inode cache, as functions on its contents c.                        *)

Cached(c, i) == {e \in Entries : c[e].ref > 0 /\ c[e].inum = i}
Empty(c)     == {e \in Entries : c[e].ref = 0}

\* The entry iget() returns: the one in use for i, or else the first free one.
Slot(c, i) == IF Cached(c, i) # {} THEN Min(Cached(c, i)) ELSE Min(Empty(c))

iget(c, i) ==
  LET e == Slot(c, i)
  IN  IF c[e].ref > 0 /\ c[e].inum = i
      THEN [c EXCEPT ![e].ref = @ + 1]
      ELSE [c EXCEPT ![e].inum = i, ![e].ref = 1, ![e].valid = FALSE]

idup(c, e) == [c EXCEPT ![e].ref = @ + 1]

\* What ilock() finds once it has the lock.
ilock(c, e) == IF c[e].valid THEN c
               ELSE [c EXCEPT ![e].valid = TRUE,
                              ![e].type  = dinode[c[e].inum].type,
                              ![e].nlink = dinode[c[e].inum].nlink]

iupdate(d, c, e) == [d EXCEPT ![c[e].inum].type  = c[e].type,
                              ![c[e].inum].nlink = c[e].nlink]

Unlocked(e) == icache[e].lock = None

-----------------------------------------------------------------------------
(* iput(): may free the inode, and drops the reference in a second step.   *)

\* Process p, whose variables are now t, gives up the entries es and goes on at k.
Put(p, t, es, k) == th' = [th EXCEPT ![p] = [t EXCEPT !.pc = "iput", !.puts = es, !.k = k]]

\* The call ends by giving up es.
Done(p, es) == Put(p, Idle, es, "idle")

LastRef_Ignored(e) == TRUE
LastRef(e) == icache[e].ref = 1

iput(p) ==
  LET e == Head(th[p].puts)
  IN  /\ th[p].pc = "iput"
      /\ Unlocked(e)
      /\ IF icache[e].valid /\ icache[e].nlink = 0 /\ LastRef(e)
         THEN /\ dinode' = [dinode EXCEPT ![icache[e].inum] =
                              [type |-> Free, nlink |-> 0, dir |-> NoEntries]]
              /\ icache' = [icache EXCEPT ![e].type = Free, ![e].valid = FALSE]
         ELSE UNCHANGED <<dinode, icache>>
      /\ th' = [th EXCEPT ![p].pc = "iput_ref"]
      /\ UNCHANGED <<cwd, file, made>>

iput_ref(p) ==
  LET t == th[p]
      rest == Tail(t.puts)
  IN  /\ t.pc = "iput_ref"
      /\ icache' = [icache EXCEPT ![Head(t.puts)] =
                      IF @.ref = 1 THEN FreeEntry ELSE [@ EXCEPT !.ref = @ - 1]]
      /\ th' = [th EXCEPT ![p] =
                  IF rest # <<>> THEN [t EXCEPT !.pc = "iput", !.puts = rest]
                  ELSE IF t.k = "idle" THEN Idle
                  ELSE [t EXCEPT !.pc = t.k, !.puts = <<>>]]
      /\ UNCHANGED <<dinode, cwd, file, made>>

-----------------------------------------------------------------------------
(* Calls and path look-up.                                                 *)

\* Where a call goes on after namei() or nameiparent().
After(op) == CASE op = "open"   -> "open"
               [] op = "chdir"  -> "chdir"
               [] op = "link"   -> "link"
               [] op = "unlink" -> "unlink"
               [] OTHER         -> "create"

Parent(ret) == ret \in {"create", "link_dir", "unlink"}  \* nameiparent()

\* namex()'s first step: the cache, and the entry to start from.
Starts(p) == {<<iget(icache, ROOTINO), Slot(icache, ROOTINO)>>,
              <<idup(icache, cwd[p]), cwd[p]>>}

\* argstr() and begin_op() succeeded; the path is absolute or relative.
Call(p, op, path, new) ==
  /\ th[p].pc = "idle" /\ made < MaxCalls
  /\ made' = made + 1
  /\ \E s \in Starts(p) :
       /\ icache' = s[1]
       /\ th' = [th EXCEPT ![p] = [Idle EXCEPT !.pc = "namex", !.op = op, !.path = path,
                                     !.new = new, !.ret = After(op), !.cur = s[2]]]
  /\ UNCHANGED <<dinode, cwd, file>>

Panic(p) == th' = [th EXCEPT ![p].pc = "panic"] /\ UNCHANGED <<dinode, icache, cwd, file, made>>

\* dirlookup(), on the directory of entry e.
Lookup(c, e, n) == dinode[c[e].inum].dir[n]

NotFound_KeepsRef(p, t) == th' = [th EXCEPT ![p] = Idle]

\* The look-up failed: the directory is put, then link takes its count back.
NotFound(p, t) == IF t.ret = "link_dir" THEN Put(p, [t EXCEPT !.cur = None], <<t.cur>>, "link_bad")
                  ELSE Done(p, <<t.cur>>)

\* One turn of namex()'s loop: the directory is locked and unlocked again.
namex(p) ==
  LET t    == th[p]
      c    == ilock(icache, t.cur)
      next == Lookup(c, t.cur, Head(t.path))
      last == Len(t.path) = 1
  IN  /\ t.pc = "namex"
      /\ Unlocked(t.cur)
      /\ IF c[t.cur].type = Free THEN Panic(p)
         ELSE /\ IF c[t.cur].type # "T_DIR"
                 THEN icache' = c /\ NotFound(p, t)
                 ELSE IF Parent(t.ret) /\ last
                 THEN /\ icache' = c
                      /\ th' = [th EXCEPT ![p].pc = t.ret, ![p].cur = None, ![p].dp = t.cur]
                 ELSE IF next = None
                 THEN icache' = c /\ NotFound(p, t)
                 ELSE /\ icache' = iget(c, next)
                      /\ IF last
                         THEN Put(p, [t EXCEPT !.cur = None, !.ip = Slot(c, next), !.path = <<>>],
                                  <<t.cur>>, t.ret)
                         ELSE Put(p, [t EXCEPT !.cur = Slot(c, next), !.path = Tail(t.path)],
                                  <<t.cur>>, "namex")
              /\ UNCHANGED <<dinode, cwd, file, made>>

-----------------------------------------------------------------------------
(* create(), for open(O_CREATE), mkdir and mknod; open.                    *)

TypeFor(op) == CASE op = "mkdir" -> "T_DIR" [] op = "mknod" -> "T_DEV" [] OTHER -> "T_FILE"

FreeInums == {i \in Inums : dinode[i].type = Free}

\* nameiparent() gave dp.  An existing name's inode is locked after dp's lock
\* is given back; for a new one ialloc() takes the first free inode, and panics
\* if the disk has none left.
create(p) ==
  LET t    == th[p]
      c    == ilock(icache, t.dp)
      old  == Lookup(c, t.dp, Head(t.path))
      inum == Min(FreeInums)
  IN  /\ t.pc = "create"
      /\ Unlocked(t.dp)
      /\ IF c[t.dp].type # "T_DIR" THEN Panic(p)
         ELSE /\ IF old # None
                 THEN /\ icache' = iget(c, old)
                      /\ Put(p, [t EXCEPT !.ip = Slot(c, old), !.dp = None], <<t.dp>>, "create_old")
                      /\ UNCHANGED dinode
                 ELSE IF FreeInums = {}
                 THEN /\ icache' = [c EXCEPT ![t.dp].lock = p]
                      /\ th' = [th EXCEPT ![p].pc = "noinodes"]
                      /\ UNCHANGED dinode
                 ELSE /\ dinode' = [dinode EXCEPT ![inum].type = TypeFor(t.op), ![inum].nlink = 0]
                      /\ icache' = [iget(c, inum) EXCEPT ![t.dp].lock = p]
                      /\ th' = [th EXCEPT ![p].pc = "create_new", ![p].ip = Slot(c, inum)]
              /\ UNCHANGED <<cwd, file, made>>

\* The open file, or the failure of fdalloc(): ip's lock is given back.
Opened(p, c) ==
  LET t == th[p]
  IN  /\ icache' = [c EXCEPT ![t.ip].lock = None]
      /\ IF t.op \in {"open", "creat"} /\ file[p] = None
         THEN file' = [file EXCEPT ![p] = t.ip] /\ th' = [th EXCEPT ![p] = Idle]
         ELSE UNCHANGED file /\ Done(p, <<t.ip>>)

create_old(p) ==
  LET t == th[p]
      c == ilock(icache, t.ip)
  IN  /\ t.pc = "create_old"
      /\ Unlocked(t.ip)
      /\ IF c[t.ip].type = Free THEN Panic(p)
         ELSE /\ IF TypeFor(t.op) = "T_FILE" /\ c[t.ip].type = "T_FILE"
                 THEN Opened(p, c)
                 ELSE /\ icache' = c /\ UNCHANGED file
                      /\ Done(p, <<t.ip>>)
              /\ UNCHANGED <<dinode, cwd, made>>

\* The new inode and the entry for it, under both locks; then dp is put while
\* ip stays locked.
create_new(p) ==
  LET t   == th[p]
      ip  == [ilock(icache, t.ip) EXCEPT ![t.ip].nlink = 1, ![t.ip].lock = p]
      c   == IF TypeFor(t.op) = "T_DIR" THEN [ip EXCEPT ![t.dp].nlink = @ + 1] ELSE ip
      d   == iupdate(iupdate(dinode, c, t.ip), c, t.dp)
  IN  /\ t.pc = "create_new"
      /\ Unlocked(t.ip)
      /\ IF Lookup(c, t.dp, Head(t.path)) # None \/ c[t.ip].type = Free THEN Panic(p)
         ELSE /\ dinode' = [d EXCEPT ![c[t.dp].inum].dir[Head(t.path)] = c[t.ip].inum]
              /\ icache' = [c EXCEPT ![t.dp].lock = None]
              /\ Put(p, [t EXCEPT !.dp = None], <<t.dp>>, "created")
              /\ UNCHANGED <<cwd, file, made>>

created(p) ==
  /\ th[p].pc = "created"
  /\ Opened(p, icache)
  /\ UNCHANGED <<dinode, cwd, made>>

\* open() of an existing path; a directory only for reading (rdonly).
open(p, rdonly) ==
  LET t == th[p]
      c == ilock(icache, t.ip)
  IN  /\ t.pc = "open"
      /\ Unlocked(t.ip)
      /\ IF c[t.ip].type = Free THEN Panic(p)
         ELSE /\ IF c[t.ip].type = "T_DIR" /\ ~rdonly
                 THEN /\ icache' = c /\ UNCHANGED file
                      /\ Done(p, <<t.ip>>)
                 ELSE Opened(p, c)
              /\ UNCHANGED <<dinode, cwd, made>>

close(p) ==
  /\ th[p].pc = "idle" /\ file[p] # None /\ made < MaxCalls
  /\ made' = made + 1
  /\ file' = [file EXCEPT ![p] = None]
  /\ Done(p, <<file[p]>>)
  /\ UNCHANGED <<dinode, icache, cwd>>

chdir(p) ==
  LET t == th[p]
      c == ilock(icache, t.ip)
  IN  /\ t.pc = "chdir"
      /\ Unlocked(t.ip)
      /\ IF c[t.ip].type = Free THEN Panic(p)
         ELSE /\ icache' = c
              /\ IF c[t.ip].type # "T_DIR"
                 THEN Done(p, <<t.ip>>)
                 ELSE Put(p, t, <<cwd[p]>>, "chdir_set")
              /\ UNCHANGED <<dinode, cwd, file, made>>

chdir_set(p) ==
  /\ th[p].pc = "chdir_set"
  /\ cwd' = [cwd EXCEPT ![p] = th[p].ip]
  /\ th' = [th EXCEPT ![p] = Idle]
  /\ UNCHANGED <<dinode, icache, file, made>>

-----------------------------------------------------------------------------
(* link and unlink.                                                        *)

Linked_NotYet(c, e) == c
Linked(c, e) == [c EXCEPT ![e].nlink = @ + 1]

link_KeepsLock(p) ==
  LET t == th[p]
      l == Linked(ilock(icache, t.ip), t.ip)
  IN  /\ t.pc = "link" /\ Unlocked(t.ip) /\ l[t.ip].type # "T_DIR"
      /\ dinode' = iupdate(dinode, l, t.ip)
      /\ icache' = [l EXCEPT ![t.ip].lock = p]
      /\ th' = [th EXCEPT ![p].pc = "link_new"]
      /\ UNCHANGED <<cwd, file, made>>

link(p) ==
  LET t == th[p]
      c == ilock(icache, t.ip)
      l == Linked(c, t.ip)
  IN  /\ t.pc = "link"
      /\ Unlocked(t.ip)
      /\ IF c[t.ip].type = Free THEN Panic(p)
         ELSE /\ IF c[t.ip].type = "T_DIR"
                 THEN /\ icache' = c /\ UNCHANGED dinode
                      /\ Done(p, <<t.ip>>)
                 ELSE /\ dinode' = iupdate(dinode, l, t.ip)
                      /\ icache' = l
                      /\ th' = [th EXCEPT ![p].pc = "link_new"]
              /\ UNCHANGED <<cwd, file, made>>

link_new(p) ==
  /\ th[p].pc = "link_new"
  /\ \E s \in Starts(p) :
       /\ icache' = s[1]
       /\ th' = [th EXCEPT ![p].pc = "namex", ![p].path = th[p].new, ![p].new = <<>>,
                           ![p].ret = "link_dir", ![p].cur = s[2]]
  /\ UNCHANGED <<dinode, cwd, file, made>>

\* dirlink(): an existing name's inode is put while dp is locked.
link_dir(p) ==
  LET t   == th[p]
      c   == ilock(icache, t.dp)
      n   == Head(t.path)
      old == Lookup(c, t.dp, n)
  IN  /\ t.pc = "link_dir"
      /\ Unlocked(t.dp)
      /\ IF c[t.dp].type # "T_DIR" THEN Panic(p)
         ELSE /\ IF old # None
                 THEN /\ icache' = [iget(c, old) EXCEPT ![t.dp].lock = p]
                      /\ Put(p, t, <<Slot(c, old)>>, "link_exists")
                      /\ UNCHANGED dinode
                 ELSE /\ dinode' = [dinode EXCEPT ![c[t.dp].inum].dir[n] = c[t.ip].inum]
                      /\ icache' = c
                      /\ Done(p, <<t.dp, t.ip>>)
              /\ UNCHANGED <<cwd, file, made>>

link_exists(p) ==
  LET t == th[p]
  IN  /\ t.pc = "link_exists"
      /\ icache' = [icache EXCEPT ![t.dp].lock = None]
      /\ Put(p, [t EXCEPT !.dp = None], <<t.dp>>, "link_bad")
      /\ UNCHANGED <<dinode, cwd, file, made>>


link_bad(p) ==
  LET t == th[p]
      c == [ilock(icache, t.ip) EXCEPT ![t.ip].nlink = @ - 1]
  IN  /\ t.pc = "link_bad"
      /\ Unlocked(t.ip)
      /\ dinode' = iupdate(dinode, c, t.ip)
      /\ icache' = c
      /\ Done(p, <<t.ip>>)
      /\ UNCHANGED <<cwd, file, made>>

\* dp stays locked until the entry is erased.
unlink(p) ==
  LET t   == th[p]
      c   == ilock(icache, t.dp)
      old == Lookup(c, t.dp, Head(t.path))
  IN  /\ t.pc = "unlink"
      /\ Unlocked(t.dp)
      /\ IF c[t.dp].type # "T_DIR" THEN Panic(p)
         ELSE /\ IF old = None
                 THEN /\ icache' = c
                      /\ Done(p, <<t.dp>>)
                 ELSE /\ icache' = [iget(c, old) EXCEPT ![t.dp].lock = p]
                      /\ th' = [th EXCEPT ![p].pc = "unlink_ip", ![p].ip = Slot(c, old)]
              /\ UNCHANGED <<dinode, cwd, file, made>>

isdirempty(i) == dinode[i].dir = NoEntries

\* The ".." of a removed directory no longer counts.
LostChild(c, dp, isdir) == IF isdir THEN [c EXCEPT ![dp].nlink = @ - 1] ELSE c

unlink_ip(p) ==
  LET t  == th[p]
      c  == ilock(icache, t.ip)
      isdir == c[t.ip].type = "T_DIR"
      e  == LostChild(c, t.dp, isdir)
  IN  /\ t.pc = "unlink_ip"
      /\ Unlocked(t.ip)
      /\ IF c[t.ip].type = Free \/ c[t.ip].nlink < 1 THEN Panic(p)
         ELSE /\ IF isdir /\ ~isdirempty(c[t.ip].inum)
                 THEN /\ icache' = c /\ UNCHANGED dinode
                      /\ Put(p, [t EXCEPT !.ip = None], <<t.ip>>, "unlink_bad")
                 ELSE /\ dinode' = [iupdate(dinode, e, t.dp) EXCEPT
                                      ![e[t.dp].inum].dir[Head(t.path)] = None]
                      /\ icache' = [e EXCEPT ![t.dp].lock = None, ![t.ip].lock = p]
                      /\ Put(p, [t EXCEPT !.dp = None], <<t.dp>>, "unlink_dec")
              /\ UNCHANGED <<cwd, file, made>>

unlink_bad(p) ==
  LET t == th[p]
  IN  /\ t.pc = "unlink_bad"
      /\ icache' = [icache EXCEPT ![t.dp].lock = None]
      /\ Done(p, <<t.dp>>)
      /\ UNCHANGED <<dinode, cwd, file, made>>

unlink_dec(p) ==
  LET t == th[p]
      c == [icache EXCEPT ![t.ip].nlink = @ - 1, ![t.ip].lock = None]
  IN  /\ t.pc = "unlink_dec"
      /\ dinode' = iupdate(dinode, c, t.ip)
      /\ icache' = c
      /\ Done(p, <<t.ip>>)
      /\ UNCHANGED <<cwd, file, made>>

-----------------------------------------------------------------------------
CallStep(p) ==
  \/ namex(p) \/ iput(p) \/ iput_ref(p)
  \/ create(p) \/ create_old(p) \/ create_new(p) \/ created(p)
  \/ \E rdonly \in BOOLEAN : open(p, rdonly)
  \/ chdir(p) \/ chdir_set(p)
  \/ link(p) \/ link_new(p) \/ link_dir(p) \/ link_exists(p) \/ link_bad(p)
  \/ unlink(p) \/ unlink_ip(p) \/ unlink_bad(p) \/ unlink_dec(p)

Next ==
  \E p \in Procs :
    \/ CallStep(p) \/ close(p)
    \/ \E c \in Calls : Call(p, c[1], c[2], <<>>)
    \/ \E path, new \in Paths : Call(p, "link", path, new)

Spec == Init /\ [][Next]_vars

-----------------------------------------------------------------------------
(* Properties.                                                             *)

\* Every variable keeps its type.
TypeOK ==
  /\ dinode \in [Inums -> [type : Types, nlink : Nat, dir : [Names -> Inums \cup {None}]]]
  /\ icache \in [Entries -> [inum : Inums \cup {None}, ref : Nat, valid : BOOLEAN,
                             lock : Procs \cup {None}, type : Types, nlink : Nat]]
  /\ cwd \in [Procs -> Entries] /\ file \in [Procs -> Entries \cup {None}]

\* The pointers to entry e that process p holds; while chdir() puts the old current
\* directory, cwd is among puts, or gone.
Held(p, e) ==
  LET t == th[p]
  IN  ({f \in {"cur", "ip", "dp"} : t[f] = e} \X {0})
      \cup ({"puts"} \X {j \in 1..Len(t.puts) : t.puts[j] = e})
      \cup {x \in {<<"cwd", 0>>} : cwd[p] = e /\ t.k # "chdir_set" /\ t.pc # "chdir_set"}
      \cup {x \in {<<"file", 0>>} : file[p] = e}
Pointers(e) == UNION {{p} \X Held(p, e) : p \in Procs}

\* ref is the number of pointers to an entry, on every path through every call,
\* the failing ones included: nothing is put twice or forgotten, and no entry
\* is recycled under a pointer (fs.c:123-127).  An inode is in at most one entry,
\* so its lock really excludes (fs.c:248-258).
RefExact ==
  /\ TypeOK
  /\ \A e \in Entries : icache[e].ref = Cardinality(Pointers(e))
  /\ \A i \in Inums : Cardinality(Cached(icache, i)) <= 1

Named(i)   == Cardinality({dn \in Inums \X Names : dinode[dn[1]].dir[dn[2]] = i})
Subdirs(i) == Cardinality({n \in Names : LET j == dinode[i].dir[n]
                                         IN j # None /\ dinode[j].type = "T_DIR"})

\* A link count is never below the number of entries that name the inode (and
\* of subdirectories, for their ".."), whatever link, unlink, mkdir and a
\* failing link do at once; so an entry never names a freed inode
\* (sysfile.c:140-163, 218-229, 266-278).
LinksCounted ==
  \A i \in Inums : dinode[i].nlink >= Named(i) + Subdirs(i) + (IF i = ROOTINO THEN 1 ELSE 0)

\* iput() frees an inode under nobody: from the moment it is free on disk only
\* the process that freed it still has a pointer, which it is about to drop, or
\* create() has just allocated it again (fs.c:335-346).  So no call panics, but
\* for a disk that is out of inodes: ilock() never finds a free inode, a parent
\* is a directory, a name to create is absent, a name to remove counts
\* (fs.c:309, 530; sysfile.c:211, 277).
FreedUnderNobody ==
  /\ \A p \in Procs : th[p].pc # "panic"
  /\ \A p \in Procs, e \in Entries :
       Held(p, e) # {} /\ dinode[icache[e].inum].type = Free =>
         th[p].pc = "iput_ref" /\ Head(th[p].puts) = e /\ Cardinality(Held(p, e)) = 1

\* The entry p must lock to go on.
Wants(p) ==
  LET t == th[p]
  IN  CASE t.pc = "namex" -> t.cur
        [] t.pc \in {"create", "link_dir", "unlink"} -> t.dp
        [] t.pc \in {"create_old", "create_new", "open", "chdir", "link", "link_bad",
                     "unlink_ip"} -> t.ip
        [] t.pc = "iput" -> Head(t.puts)
        [] OTHER -> None

\* Processes that wait for locks of each other, in a circle.
Stuck(S) == S # {} /\ \A p \in S : Wants(p) # None /\ icache[Wants(p)].lock \in S

\* Processes never wait for each other's inodes in a circle.
NoCircularWait == \A S \in SUBSET Procs : ~Stuck(S)

\* Inodes are otherwise locked parent first: a circle needs a process that
\* waits in iput() for a directory it has just unlocked, its child still locked
\* (sysfile.c:225, 280; fs.c:334).
OnlyIputCircles == \A S \in SUBSET Procs : Stuck(S) => \E p \in S : th[p].pc = "iput"

=============================================================================
