------------------------------ MODULE ProcTree ------------------------------
(***************************************************************************)
(* The /proc directory tree of nfsim's kernel environment,                 *)
(* src/kernelenv/proc_stuff.c: proc_create and proc_register behind        *)
(* create_proc_entry and proc_mkdir, remove_proc_entry, the sysctl tables *)
(* that register_sysctl_table links under /proc/sys (sharing directories  *)
(* between tables), unregister_sysctl_table, find_proc_entry as used by    *)
(* `proc cat`, and the end-of-run check_allocations with proc_cleanup.     *)
(*                                                                         *)
(* The calls are made by the netfilter code under test; the model lets it *)
(* call in any order, with one discipline: it removes the entries it made *)
(* in reverse order of creation (its exit function undoing its init).     *)
(* A call whose proc_create or register_sysctl_table fail point fires     *)
(* returns NULL before touching any state, so it is a stuttering step and *)
(* is left out.                                                           *)
(*                                                                         *)
(* Entries are numbered in allocation order and never reused; a freed     *)
(* entry keeps its last contents, which is what a read through a stale    *)
(* pointer sees in this build.  Names are sequences of characters, since  *)
(* proc_match compares namelen and a memcmp prefix of the stored name.    *)
(***************************************************************************)
EXTENDS Integers, Sequences, SequencesExt, FiniteSets

CONSTANTS
  Names,           \* names the code under test passes to create_proc_entry
  Tables,          \* its ctl_table arrays
  TableDef,        \* for each, the entries: procname, handler?, child
  IgnoreChoices,   \* values of --ignore-proc-issues
  MaxEnt,          \* bound on entries ever allocated
  MaxMade,         \* bound on entries the code under test holds at once
  Readers,         \* read_proc or get_info routines a module may install
  CatPaths,        \* names given to `proc cat`
  PageSize,        \* PAGE_SIZE
  BlockSize,       \* PROC_BLOCK_SIZE, PAGE_SIZE - 1024
  CatBytes         \* the nbytes nfsim_proc_cat passes: sizeof(buf) - 1

NULL == 0
ROOT == 1    \* proc_root, static
NET  == 2    \* proc_net
STAT == 3    \* proc_net_stat
SYS  == 4    \* proc_sys_root
NoData == <<>>

Slash(c) == c = "/"

VARIABLES
  ent,     \* entry i: name, namelen, directory?, data (the ctl_table slot)
  sub,     \* entry i's subdir list, head first
  live,    \* entries allocated and not freed
  de,      \* table->de of every ctl_table slot
  hdr,     \* tables with a registered ctl_table_header
  made,    \* entries the code under test created and holds, newest first
  ignore,  \* ignore_proc_issues
  status   \* "run", "done" or "barf"

vars == <<ent, sub, live, de, hdr, made, ignore, status>>

(* A slot is <<t, i>> for entry i of table t, <<t, i, j>> for entry j of *)
(* its child table, and so on.                                          *)
RECURSIVE SlotsOf(_, _)
SlotsOf(tab, prefix) ==
  UNION {{Append(prefix, i)} \cup SlotsOf(tab[i].child, Append(prefix, i)) :
           i \in 1..Len(tab)}
Slots == UNION {SlotsOf(TableDef[t], <<t>>) : t \in Tables}

RECURSIVE CtlAt(_, _)
CtlAt(tab, idx) == IF Len(idx) = 1 THEN tab[idx[1]]
                   ELSE CtlAt(tab[idx[1]].child, Tail(idx))
Ctl(sl) == CtlAt(TableDef[sl[1]], Tail(sl))

(* The path of a slot below /proc/sys.                                    *)
RECURSIVE PathAt(_, _)
PathAt(tab, idx) ==
  IF Len(idx) = 1 THEN tab[idx[1]].procname
  ELSE tab[idx[1]].procname \o <<"/">> \o PathAt(tab[idx[1]].child, Tail(idx))

-----------------------------------------------------------------------------
(* The tree as one record, so that the recursive walks can thread it.    *)
St == [ent |-> ent, sub |-> sub, live |-> live, de |-> de, barf |-> FALSE]

Apply(s) ==
  /\ ent' = s.ent /\ sub' = s.sub /\ live' = s.live /\ de' = s.de
  /\ status' = IF s.barf THEN "barf" ELSE status

ProcMatch(len, cp, e) ==
  e.namelen = len /\ SubSeq(e.name, 1, len) = SubSeq(cp, 1, len)

(* The first entry of dir's subdir list that proc_match accepts: its     *)
(* index in the list, or 0.                                               *)
MatchAt(s, dir, len, cp) == SelectInSeq(s.sub[dir], LAMBDA i : ProcMatch(len, cp, s.ent[i]))
FirstMatch(s, dir, len, cp) ==
  IF MatchAt(s, dir, len, cp) = 0 THEN NULL ELSE s.sub[dir][MatchAt(s, dir, len, cp)]

(* xlate_proc_name: walk the components before the last "/" from de.     *)
RECURSIVE Xlate(_, _, _)
Xlate(s, dir, cp) ==
  LET k == SelectInSeq(cp, Slash) IN
  IF k = 0 THEN [ok |-> TRUE, de |-> dir, fn |-> cp]
  ELSE LET m == FirstMatch(s, dir, k - 1, cp) IN
       IF m = NULL THEN [ok |-> FALSE, de |-> NULL, fn |-> cp]
       ELSE Xlate(s, m, SubSeq(cp, k + 1, Len(cp)))

(* Mutant: namelen counts the terminating NUL.                            *)
AllocLong(s, parent, name, len, isdir, data) ==
  LET id == Len(s.ent) + 1
      sb == Append(s.sub, <<>>)
  IN  [s EXCEPT !.ent = Append(@, [name |-> name, namelen |-> len + 1,
                                   isdir |-> isdir, data |-> data]),
                !.sub = [sb EXCEPT ![parent] = <<id>> \o sb[parent]],
                !.live = @ \cup {id}]

(* Mutant: proc_register links the entry at the tail of the list.        *)
AllocTail(s, parent, name, len, isdir, data) ==
  LET id == Len(s.ent) + 1
      sb == Append(s.sub, <<>>)
  IN  [s EXCEPT !.ent = Append(@, [name |-> name, namelen |-> len,
                                   isdir |-> isdir, data |-> data]),
                !.sub = [sb EXCEPT ![parent] = Append(sb[parent], id)],
                !.live = @ \cup {id}]

(* proc_create, past its checks, and proc_register: the whole name is    *)
(* stored, with the length of its last component; the entry goes to the *)
(* head of parent's list.                                                 *)
Alloc(s, parent, name, len, isdir, data) ==
  LET id == Len(s.ent) + 1
      sb == Append(s.sub, <<>>)
  IN  [s EXCEPT !.ent = Append(@, [name |-> name, namelen |-> len,
                                   isdir |-> isdir, data |-> data]),
                !.sub = [sb EXCEPT ![parent] = <<id>> \o sb[parent]],
                !.live = @ \cup {id}]

(* remove_proc_entry: unlink and free the first match; a name that does *)
(* not resolve, or is not found, barfs unless --ignore-proc-issues.      *)
(* Freeing a directory leaves its entries allocated.                      *)
RemoveProcEntryIn(s, name, parent) ==
  LET x == IF parent = NULL THEN Xlate(s, ROOT, name)
           ELSE [ok |-> TRUE, de |-> parent, fn |-> name]
      k == IF x.ok THEN MatchAt(s, x.de, Len(x.fn), x.fn) ELSE 0
  IN  CASE ~x.ok  -> [s EXCEPT !.barf = TRUE]
        [] k # 0  -> [s EXCEPT !.sub[x.de] = RemoveAt(@, k),
                               !.live = @ \ {s.sub[x.de][k]}]
        [] ignore -> s
        [] OTHER  -> [s EXCEPT !.barf = TRUE]

(* find_proc_entry: walk every component of the path below /proc.       *)
RECURSIVE FindIn(_, _, _)
FindIn(s, dir, cp) ==
  LET k   == SelectInSeq(cp, Slash)
      len == IF k = 0 THEN Len(cp) ELSE k - 1
      m   == FirstMatch(s, dir, len, cp)
  IN  IF m = NULL \/ k = 0 THEN m ELSE FindIn(s, m, SubSeq(cp, k + 1, Len(cp)))

(* Mutant: every directory entry of a table gets a directory of its own. *)
RECURSIVE RegProcTableNoShare(_, _, _, _, _)
RegProcTableNoShare(s, tab, slot, root, i) ==
  IF i > Len(tab) \/ s.barf THEN s
  ELSE LET e  == tab[i]
           sl == Append(slot, i)
           s1 == Alloc(s, root, e.procname, Len(e.procname), ~e.handler, sl)
           d  == Len(s1.ent)
           s2 == [s1 EXCEPT !.de[sl] = d]
           nx == CASE e.procname = <<>>              -> s
                   [] ~e.handler /\ e.child = <<>>   -> [s EXCEPT !.barf = TRUE]
                   [] s2.ent[d].isdir                -> RegProcTableNoShare(s2, e.child, sl, d, 1)
                   [] OTHER                          -> s2
       IN  RegProcTableNoShare(nx, tab, slot, root, i + 1)

(* register_proc_table: for each entry with a procname, a file gets a new *)
(* entry; a directory reuses the first entry of root with its name, or   *)
(* gets a new one, and its child table is registered below it.  table->de *)
(* records the entry either way.  An entry with neither handler nor child *)
(* barfs.                                                                 *)
RECURSIVE RegProcTable(_, _, _, _, _)
RegProcTable(s, tab, slot, root, i) ==
  IF i > Len(tab) \/ s.barf THEN s
  ELSE LET e   == tab[i]
           sl  == Append(slot, i)
           old == IF e.handler THEN NULL
                  ELSE FirstMatch(s, root, Len(e.procname), e.procname)
           s1  == IF old # NULL THEN s
                  ELSE Alloc(s, root, e.procname, Len(e.procname), ~e.handler, sl)
           d   == IF old # NULL THEN old ELSE Len(s1.ent)
           s2  == [s1 EXCEPT !.de[sl] = d]
           nx  == CASE e.procname = <<>>             -> s
                    [] ~e.handler /\ e.child = <<>>  -> [s EXCEPT !.barf = TRUE]
                    [] s2.ent[d].isdir               -> RegProcTable(s2, e.child, sl, d, 1)
                    [] OTHER                         -> s2
       IN  RegProcTable(nx, tab, slot, root, i + 1)

(* Mutant: a directory is removed even when other entries remain in it.  *)
RECURSIVE UnregProcTableNoKeep(_, _, _, _, _)
UnregProcTableNoKeep(s, tab, slot, root, i) ==
  IF i > Len(tab) \/ s.barf THEN s
  ELSE LET e     == tab[i]
           sl    == Append(slot, i)
           d     == s.de[sl]
           drop(t) == RemoveProcEntryIn([t EXCEPT !.de[sl] = NULL], e.procname, root)
           nx    == CASE d = NULL                       -> s
                      [] s.ent[d].isdir /\ e.child = <<>> -> s
                      [] s.ent[d].isdir -> drop(UnregProcTableNoKeep(s, e.child, sl, d, 1))
                      [] OTHER          -> drop(s)
       IN  UnregProcTableNoKeep(nx, tab, slot, root, i + 1)

(* Mutant: the non-empty test comes before the child table is removed.   *)
RECURSIVE UnregProcTableCheckFirst(_, _, _, _, _)
UnregProcTableCheckFirst(s, tab, slot, root, i) ==
  IF i > Len(tab) \/ s.barf THEN s
  ELSE LET e     == tab[i]
           sl    == Append(slot, i)
           d     == s.de[sl]
           drop(t) == RemoveProcEntryIn([t EXCEPT !.de[sl] = NULL], e.procname, root)
           nx    == CASE d = NULL                       -> s
                      [] s.ent[d].isdir /\ e.child = <<>> -> s
                      [] s.ent[d].isdir /\ s.sub[d] # <<>> -> s
                      [] s.ent[d].isdir -> drop(UnregProcTableCheckFirst(s, e.child, sl, d, 1))
                      [] OTHER          -> drop(s)
       IN  UnregProcTableCheckFirst(nx, tab, slot, root, i + 1)

(* unregister_proc_table: skip slots without an entry; for a directory,  *)
(* unregister its child table first and keep the directory while it has  *)
(* entries (table->de stays set); otherwise clear table->de and           *)
(* remove_proc_entry the procname from root.                              *)
RECURSIVE UnregProcTable(_, _, _, _, _)
UnregProcTable(s, tab, slot, root, i) ==
  IF i > Len(tab) \/ s.barf THEN s
  ELSE LET e     == tab[i]
           sl    == Append(slot, i)
           d     == s.de[sl]
           inner == UnregProcTable(s, e.child, sl, d, 1)
           drop(t) == RemoveProcEntryIn([t EXCEPT !.de[sl] = NULL], e.procname, root)
           nx    == CASE d = NULL                          -> s
                      [] s.ent[d].isdir /\ e.child = <<>>  -> s
                      [] s.ent[d].isdir /\ inner.sub[d] # <<>> -> inner
                      [] s.ent[d].isdir                     -> drop(inner)
                      [] OTHER                              -> drop(s)
       IN  UnregProcTable(nx, tab, slot, root, i + 1)

-----------------------------------------------------------------------------
(* Reading an entry a module made: proc_file_read, the read of           *)
(* proc_file_operations.  Bytes are numbers; a page is a sequence of      *)
(* PageSize of them.  What a read routine writes is the module's code,   *)
(* not nfsim's: each member of Readers keeps to one of the conventions    *)
(* the comment in proc_file_read describes, over the file it stands for. *)
(*   [conv "page", data]       0) the file at its offsets in the page;   *)
(*   [conv "records", recs]    1) whole records from record *ppos at the *)
(*                               page's start, *start = their number;     *)
(*   [conv "at", off, data]    2) the bytes from *ppos at page + off;     *)
(*   [conv "info", off, data]  get_info, as 2) but with no eof flag;      *)
(*   [conv "fail"]             an error, -EIO;                            *)
(*   [conv "none"]             neither routine installed.                 *)
EIO == 5
(* The result of a read that wrote past buf: not a value read returns.   *)
Overrun == -100
Pad(bytes) == bytes \o [i \in 1..PageSize - Len(bytes) |-> 0]

(* The number of records from index pos on that fit in count bytes.      *)
RECURSIVE Fit(_, _, _)
Fit(recs, pos, count) ==
  IF pos >= Len(recs) \/ Len(recs[pos + 1]) > count THEN 0
  ELSE 1 + Fit(recs, pos + 1, count - Len(recs[pos + 1]))

(* One call of the routine at offset pos for count bytes: what it        *)
(* returns, where *start points (NULL, the value k < page, or page + off), *)
(* *eof, and the page.                                                     *)
Call(rd, pos, count) ==
  CASE rd.conv = "page" ->
         [n |-> Len(rd.data), start |-> [at |-> "null"],
          eof |-> Len(rd.data) <= pos + count, page |-> Pad(rd.data)]
    [] rd.conv = "records" ->
         LET k == Fit(rd.recs, pos, count)
             bytes == FlattenSeq(SubSeq(rd.recs, pos + 1, pos + k))
         IN  [n |-> Len(bytes), start |-> [at |-> "below", k |-> k],
              eof |-> pos + k = Len(rd.recs), page |-> Pad(bytes)]
    [] rd.conv \in {"at", "info"} ->
         LET m == Min({count, Len(rd.data) - pos}) IN
         [n |-> m, start |-> [at |-> "page", off |-> rd.off],
          eof |-> pos + m >= Len(rd.data),
          page |-> Pad([i \in 1..rd.off |-> 0] \o SubSeq(rd.data, pos + 1, pos + m))]
    [] rd.conv = "fail" ->
         [n |-> -EIO, start |-> [at |-> "null"], eof |-> FALSE, page |-> Pad(<<>>)]

(* Mutant: *ppos advances by the bytes copied whatever *start says.     *)
TakeAdvBytes(c, pos, count) ==
  CASE c.start.at = "null" ->
         LET n == Min({Min({c.n, PageSize}) - pos, count}) IN
         [n |-> n, from |-> pos, adv |-> n]
    [] c.start.at = "below" ->
         [n |-> Min({c.n, PageSize}), from |-> 0, adv |-> Min({c.n, PageSize})]
    [] c.start.at = "page" ->
         LET n == Min({c.n, PageSize - c.start.off, count}) IN
         [n |-> n, from |-> c.start.off, adv |-> n]

(* The bytes proc_file_read takes from a call: how many (n), from which  *)
(* page offset, and how far *ppos advances.  A start below the page is a *)
(* record count: n is not cut to count, so that no record is split.       *)
Take(c, pos, count) ==
  CASE c.start.at = "null" ->
         LET n == Min({Min({c.n, PageSize}) - pos, count}) IN
         [n |-> n, from |-> pos, adv |-> n]
    [] c.start.at = "below" ->
         [n |-> Min({c.n, PageSize}), from |-> 0, adv |-> c.start.k]
    [] c.start.at = "page" ->
         LET n == Min({c.n, PageSize - c.start.off, count}) IN
         [n |-> n, from |-> c.start.off, adv |-> n]

(* while ((nbytes > 0) && !eof): call the routine for at most            *)
(* PROC_BLOCK_SIZE bytes, stop at 0 or an error (kept only when nothing  *)
(* was read), copy what it gave to buf, advance *ppos.  A count beyond   *)
(* nbytes would wrap the size_t and write past buf: Overrun.           *)
RECURSIVE ProcFileRead(_, _, _, _, _, _)
ProcFileRead(rd, pos, nbytes, out, retval, eof) ==
  LET count == Min({BlockSize, nbytes})
      c == Call(rd, pos, count)
      t == Take(c, pos, count)
      done == [ret |-> retval, text |-> out]
  IN
  CASE ~(nbytes > 0 /\ ~eof) -> done
    [] rd.conv = "none"      -> done
    [] c.n = 0               -> done
    [] c.n < 0               -> [done EXCEPT !.ret = IF retval = 0 THEN c.n ELSE retval]
    [] t.n <= 0              -> done
    [] t.n > nbytes          -> [ret |-> Overrun, text |-> out]
    [] OTHER ->
         ProcFileRead(rd, pos + t.adv, nbytes - t.n,
                      out \o SubSeq(c.page, t.from + 1, t.from + t.n),
                      retval + t.n,
                      IF rd.conv = "info" THEN c.n < count ELSE c.eof)

-----------------------------------------------------------------------------
(* proc_init: /proc, then net, net/stat and sys.                          *)
Init ==
  /\ ent = << [name |-> <<"/", "p", "r", "o", "c">>, namelen |-> 5, isdir |-> TRUE, data |-> NoData],
              [name |-> <<"n", "e", "t">>, namelen |-> 3, isdir |-> TRUE, data |-> NoData],
              [name |-> <<"s", "t", "a", "t">>, namelen |-> 4, isdir |-> TRUE, data |-> NoData],
              [name |-> <<"s", "y", "s">>, namelen |-> 3, isdir |-> TRUE, data |-> NoData] >>
  /\ sub = << <<SYS, NET>>, <<STAT>>, <<>>, <<>> >>
  /\ live = {NET, STAT, SYS}
  /\ de = [sl \in Slots |-> NULL]
  /\ hdr = {}
  /\ made = <<>>
  /\ ignore \in IgnoreChoices
  /\ status = "run"

Running == status = "run"

(* create_proc_entry and proc_mkdir (and proc_net_create, which passes    *)
(* proc_net): with a NULL parent the name is resolved by xlate_proc_name; *)
(* a name that does not resolve returns NULL.  The caller keeps the entry.*)
CreateProcEntry(name, parent, isdir) ==
  LET x == IF parent = NULL THEN Xlate(St, ROOT, name)
           ELSE [ok |-> TRUE, de |-> parent, fn |-> name]
  IN
  /\ Running
  /\ Len(made) < MaxMade /\ Len(ent) < MaxEnt
  /\ name # <<>> /\ x.ok
  /\ Apply(Alloc(St, x.de, name, Len(x.fn), isdir, NoData))
  /\ made' = <<[name |-> name, parent |-> parent, isdir |-> isdir,
                id |-> Len(ent) + 1]>> \o made
  /\ UNCHANGED <<hdr, ignore>>

(* remove_proc_entry of the newest entry the caller holds, with the name *)
(* and parent it was created with.                                        *)
RemoveProcEntry ==
  /\ Running /\ made # <<>>
  /\ Apply(RemoveProcEntryIn(St, Head(made).name, Head(made).parent))
  /\ made' = Tail(made)
  /\ UNCHANGED <<hdr, ignore>>

(* register_sysctl_table past its fail point: register_proc_table under  *)
(* /proc/sys with failures suppressed, and a header allocated.           *)
RegisterSysctlTable(t) ==
  /\ Running /\ t \notin hdr
  /\ Len(ent) + Cardinality(SlotsOf(TableDef[t], <<t>>)) <= MaxEnt
  /\ Apply(RegProcTable(St, TableDef[t], <<t>>, SYS, 1))
  /\ hdr' = hdr \cup {t}
  /\ UNCHANGED <<made, ignore>>

UnregisterSysctlTable(t) ==
  /\ Running /\ t \in hdr
  /\ Apply(UnregProcTable(St, TableDef[t], <<t>>, SYS, 1))
  /\ hdr' = hdr \ {t}
  /\ UNCHANGED <<made, ignore>>

(* main, after unload_all_modules: check_allocations.  proc_cleanup with *)
(* --ignore-proc-issues frees every entry and runs proc_init again; then *)
(* any block beyond those counted after initialisation is a leak.  The   *)
(* three new directories of proc_init are given the numbers of the old.  *)
CheckAllocations ==
  /\ Running /\ made = <<>> /\ hdr = {}
  /\ IF ignore
     THEN /\ UNCHANGED ent
          /\ sub' = [sub EXCEPT ![ROOT] = <<SYS, NET>>, ![NET] = <<STAT>>,
                                ![STAT] = <<>>, ![SYS] = <<>>]
          /\ live' = {NET, STAT, SYS}
          /\ status' = "done"
     ELSE /\ UNCHANGED <<ent, sub, live>>
          /\ status' = IF live # {NET, STAT, SYS} THEN "barf" ELSE "done"
  /\ UNCHANGED <<de, hdr, made, ignore>>

(* The process has exited, cleanly or by barf.                            *)
Done == ~Running /\ UNCHANGED vars

(* The directories a caller can pass: NULL, proc_net, or one it made.    *)
Parents == {NULL, NET} \cup {made[i].id : i \in {j \in 1..Len(made) : made[j].isdir}}

(* The read nfsim_proc_cat makes, with f_pos 0 and sizeof(buf) - 1: it  *)
(* depends on the routine only.                                          *)
CatRead == [rd \in Readers |-> ProcFileRead(rd, 0, CatBytes, <<>>, 0, FALSE)]

(* nfsim_proc_open for reading: find_proc_entry finds the entry and it  *)
(* is not a directory.  An entry a module made (not a sysctl file, whose *)
(* proc_sys_file_operations Sysctl models) is read by proc_file_read.    *)
CatOpens(path) ==
  LET e == FindIn(St, ROOT, path) IN
  e # NULL /\ ~ent[e].isdir /\ ent[e].data = NoData

(* proc cat NAME of such an entry: the file is opened, read with the     *)
(* routine the module installed (any of Readers), closed, and printed;  *)
(* the tree is left as it was.                                             *)
NfsimProcCat(path) ==
  /\ Running /\ CatOpens(path)
  /\ UNCHANGED vars

TreeNext ==
  \/ \E name \in Names, parent \in Parents, isdir \in BOOLEAN :
       CreateProcEntry(name, parent, isdir)
  \/ RemoveProcEntry
  \/ \E t \in Tables : RegisterSysctlTable(t) \/ UnregisterSysctlTable(t)
  \/ CheckAllocations
  \/ Done

Next ==
  \/ TreeNext
  \/ \E path \in CatPaths : NfsimProcCat(path)

Spec == Init /\ [][Next]_vars

-----------------------------------------------------------------------------
Entry == [name : Seq(STRING), namelen : Nat, isdir : BOOLEAN, data : {NoData} \cup Slots]

(* Every stored namelen is at most the stored name's length, so the       *)
(* memcmp of proc_match reads within the name.                            *)
TypeOK ==
  /\ ent \in Seq(Entry) /\ DOMAIN sub = DOMAIN ent
  /\ \A i \in DOMAIN ent : ent[i].namelen <= Len(ent[i].name)
  /\ live \subseteq DOMAIN ent \ {ROOT}
  /\ de \in [Slots -> {NULL} \cup DOMAIN ent]
  /\ hdr \subseteq Tables
  /\ status \in {"run", "done", "barf"}

(* The entries linked below the entries vs, through the lists of live   *)
(* directories.  (Graphs!Descendants computes a transitive closure over  *)
(* all entries in every state; this walk follows the lists only.)        *)
RECURSIVE Below(_)
Below(vs) ==
  LET kids == UNION {Range(sub[p]) : p \in vs \cap (live \cup {ROOT})}
  IN  IF kids = {} THEN {} ELSE kids \cup Below(kids)

(* Every allocated entry hangs in the tree below /proc, and every entry  *)
(* in the tree is allocated: unregister_sysctl_table never frees a        *)
(* directory another table still has entries in, whatever order the      *)
(* tables sharing it are registered and unregistered in, and no list     *)
(* links a freed entry.                                                   *)
NoOrphans == Below({ROOT}) = live

(* The entries the code under test holds are allocated: removing its      *)
(* newest entry by name frees that entry, not an older one of the same   *)
(* name (proc_register links at the head, remove_proc_entry takes the    *)
(* first match).                                                          *)
HeldLive == \A i \in 1..Len(made) : made[i].id \in live

(* While a table is registered, `proc cat /proc/sys/...` of each of its  *)
(* files finds the entry that table->de records, and that entry leads to *)
(* this table's slot, through directories shared with other tables.      *)
SysctlVisible ==
  \A t \in hdr : \A sl \in SlotsOf(TableDef[t], <<t>>) :
     Ctl(sl).handler =>
        LET f == FindIn(St, ROOT, <<"s", "y", "s", "/">> \o PathAt(TableDef[t], Tail(sl)))
        IN  f # NULL /\ f = de[sl] /\ ent[f].data = sl

(* A module that removes every entry it created, newest first, and       *)
(* unregisters every table, never makes nfsim barf: no remove_proc_entry *)
(* misses, and check_allocations finds no leaked block.                   *)
CleanExit == status # "barf"

(* Reference: what reading a whole file of each kind gives: all of it up *)
(* to nbytes, and of a file of records the longest run of whole records  *)
(* that fits.                                                             *)
CatExpected == [rd \in Readers |->
  LET whole(bytes) == [ret |-> Len(bytes), text |-> bytes] IN
  CASE rd.conv = "none" -> whole(<<>>)
    [] rd.conv = "fail" -> [ret |-> -EIO, text |-> <<>>]
    [] rd.conv = "records" ->
         LET upto(j) == FlattenSeq(SubSeq(rd.recs, 1, j))
             k == Max({j \in 0..Len(rd.recs) : Len(upto(j)) <= CatBytes})
         IN  whole(upto(k))
    [] OTHER -> whole(SubSeq(rd.data, 1, Min({Len(rd.data), CatBytes})))]

(* `proc cat` of a module's entry prints the file, whichever of the read *)
(* conventions its routine keeps to: proc_file_read's loop, calling for  *)
(* PROC_BLOCK_SIZE at a time, cutting to the page, to count and to what  *)
(* is left of buf, and advancing *ppos by bytes or by records, neither   *)
(* repeats, skips nor splits data, and stops at the end of the file or  *)
(* of buf.                                                                *)
ProcCatWholeFile ==
  \A path \in CatPaths : CatOpens(path) => \A rd \in Readers : CatRead[rd] = CatExpected[rd]

====
