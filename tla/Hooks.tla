------------------------------- MODULE Hooks -------------------------------
(***************************************************************************)
(* The hook command (src/tools/hook.c), the userspace packet queue of     *)
(* src/core/core.c and the queue command (src/tools/queue.c), and gen_ip  *)
(* sending a packet through the registered hooks (send_packet of          *)
(* src/tools/gen_ip.c, call_elem_hook of core.c).                          *)
(*                                                                         *)
(* The walk over the hooks (nf_hook_slow, nf_iterate, nf_reinject) and    *)
(* routing are kernel code built into nfsim, not part of the repository;  *)
(* the model takes their documented behaviour: the hooks of a hook number *)
(* run in ascending priority, equal priorities in registration order; a   *)
(* packet passes the hook numbers of one path, chosen by routing; the     *)
(* first hook that does not accept decides; NF_QUEUE hands the packet to  *)
(* nfsim's queue handler, and nf_reinject continues the walk after the    *)
(* hook that queued it. Hooks modules register stay for the whole run.    *)
(*                                                                         *)
(* Undefined behaviour, each a choice of its outcomes:                    *)
(*  - hook_post_cleanup free()s a hook that talloc allocated: libc aborts *)
(*    or carries on;                                                       *)
(*  - `queue VERDICT` on an empty queue takes the list head for an item   *)
(*    and reinjects garbage: the model crashes;                            *)
(*  - nf_reinject walks on from a hook that hook_post_cleanup has         *)
(*    unregistered and freed, or hands hooks and okfn an input device     *)
(*    that `ifconfig down` freed: a crash, or the walk ends;              *)
(*  - list_del of an item whose skb nf_reinject freed (the item is        *)
(*    talloc'd onto the skb): a crash, or the old links still work.       *)
(***************************************************************************)
EXTENDS Route

CONSTANTS
  HookArgs,    \* `hook NAME PRIORITY VERDICT`: [name, priority, verdict]
  ModHooks,    \* hooks modules registered: id (below 1) -> [hooknum,
               \*   priority, verdict]
  RcvPaths,    \* hook numbers a packet received on an interface passes
  LocalPaths,  \* hook numbers a locally generated packet passes
  QueueArgs,   \* `queue VERDICT [ID]`: [verdict, id], id NoId if absent
  NoId,
  NoIf,        \* gen_ip without IF=
  MaxHooks,    \* bound on hooks the hook command allocates
  MaxQueueId   \* bound on queueid

VARIABLES
  hooks,       \* the `hooks` list of hook.c, head first: hook ids
  hk,          \* hk[h]: hook number, priority and verdict of hook h
  queue,       \* nfsim_queue: [id, pkt, dev, hook, path] per item
  queueid      \* queueid of core.c: the next item's id

hookvars == <<hooks, hk, queue, queueid>>

HookNums ==
  {"IP_PRE_ROUTING", "IP_POST_ROUTING", "IP_LOCAL_IN", "IP_LOCAL_OUT",
   "IP_FORWARD"}

(* The verdict words hook_cmd accepts, and the hook function each picks.  *)
HookVerdict ==
  [v \in {"DROP", "ACCEPT", "QUEUE"} |-> CASE v = "DROP"   -> "NF_DROP"
                                           [] v = "ACCEPT" -> "NF_ACCEPT"
                                           [] v = "QUEUE"  -> "NF_QUEUE"]

(* nf_retval_str, indexed by verdict number + 1.                          *)
NfRetvalStr == <<"NF_DROP", "NF_ACCEPT", "NF_STOLEN", "NF_QUEUE", "NF_REPEAT">>

(* nf_retval_by_name: the verdict number, or -1.                           *)
NfRetvalByName(name) == SelectInSeq(NfRetvalStr, LAMBDA s : s = name) - 1

Hk(h) == IF h \in DOMAIN ModHooks THEN ModHooks[h] ELSE hk[h]

Registered == DOMAIN ModHooks \cup Range(hooks)

RunsBefore(a, b) ==
  \/ Hk(a).priority < Hk(b).priority
  \/ Hk(a).priority = Hk(b).priority /\ a < b

(* An id no hook has.                                                     *)
NoHook == MaxHooks + 1

(* The registered hooks a packet on `path` meets.                          *)
OnPath(path) == {h \in Registered : Hk(h).hooknum \in Range(path)}

(* Hook a is called before hook b on `path`: an earlier stage of the path, *)
(* or the same hook number and RunsBefore.                                 *)
CalledBefore(path, a, b) ==
  LET stage(h) == SelectInSeq(path, LAMBDA n : n = Hk(h).hooknum) IN
  \/ stage(a) < stage(b)
  \/ stage(a) = stage(b) /\ RunsBefore(a, b)

(* The walk over the hooks `todo` of `path`, each through call_elem_hook,  *)
(* which returns NF_DROP without calling the hook when should_i_fail says  *)
(* so (at hook `fail`; NoHook for none): the hook that queues the packet,  *)
(* or NoHook when a hook drops it or it passes them all (then okfn         *)
(* delivers it: nf_send and nf_send_local end in kfree_skb).               *)
QueuedBy(path, todo, fail) ==
  LET stops == {h \in todo : h = fail \/ Hk(h).verdict # "NF_ACCEPT"}
      first == {h \in stops : \A g \in stops : ~CalledBefore(path, g, h)}
  IN  IF \E h \in first : h # fail /\ Hk(h).verdict = "NF_QUEUE"
      THEN CHOOSE h \in first : TRUE
      ELSE NoHook

QueueItem(pkt, dev, h, path) ==
  [id |-> queueid, pkt |-> pkt, dev |-> dev, hook |-> h, path |-> path]

(* Mutant: the item goes to the head (list_add for list_add_tail).        *)
EnqueueAtHead(pkt, dev, h, path) ==
  /\ queueid < MaxQueueId
  /\ queue' = <<QueueItem(pkt, dev, h, path)>> \o queue
  /\ queueid' = queueid + 1

(* enqueue_packet_to_queuenum: the item goes to the tail with the next id. *)
Enqueue(pkt, dev, h, path) ==
  /\ queueid < MaxQueueId
  /\ queue' = Append(queue, QueueItem(pkt, dev, h, path))
  /\ queueid' = queueid + 1

(* Mutant: the item is left on the list.                                  *)
ListDelKept(s, k) == s

(* list_del of the k-th item.                                              *)
ListDel(s, k) == RemoveAt(s, k)

HooksInit ==
  /\ RouteInit
  /\ hooks = <<>>
  /\ hk = [h \in {} |-> {}]
  /\ queue = <<>>
  /\ queueid = 0

HookCrash == Crash /\ UNCHANGED <<hooks, hk, queue, queueid>>

(* hook NAME PRIORITY VERDICT: an unknown name or verdict is refused;     *)
(* otherwise the hook goes to the head of `hooks` and is registered.      *)
HookCmd(a) ==
  LET h == Cardinality(DOMAIN hk) + 1 IN
  /\ Running
  /\ h <= MaxHooks
  /\ IF a.name \in HookNums /\ a.verdict \in DOMAIN HookVerdict
     THEN /\ hooks' = <<h>> \o hooks
          /\ hk' = hk @@ (h :> [hooknum |-> a.name, priority |-> a.priority,
                                verdict |-> HookVerdict[a.verdict]])
     ELSE UNCHANGED <<hooks, hk>>
  /\ UNCHANGED <<queue, queueid, routevars, ifvars, crashed>>

(* hook_post_cleanup, after gen_ip: every hook is unregistered, unlinked  *)
(* and free()d.                                                            *)
PostCleanup ==
  IF hooks = <<>> THEN UNCHANGED <<hooks, crashed>>
  ELSE /\ hooks' = <<>>
       /\ crashed' \in BOOLEAN

(* gen_ip [IF=NAME] ...: send_packet. An unknown interface frees the skb; *)
(* otherwise the packet walks the hooks of a path (nf_rcv for a received  *)
(* one, nf_rcv_local for a local one). Then hook_post_cleanup.            *)
GenIp(ifn, path) ==
  LET dev == IF ifn = NoIf THEN NoDev ELSE InterfaceByName(ifn) IN
  /\ Running
  /\ path \in IF ifn = NoIf THEN LocalPaths ELSE RcvPaths
  /\ \E fail \in OnPath(path) \cup {NoHook} :
       LET h == QueuedBy(path, OnPath(path), fail) IN
       IF (ifn # NoIf /\ dev = NoDev) \/ h = NoHook
       THEN UNCHANGED <<queue, queueid>>
       ELSE Enqueue(queueid, dev, h, path)
  /\ PostCleanup
  /\ UNCHANGED <<hk, routevars, ifvars>>

(* nf_reinject of queue[k] with verdict v, then list_del of the item.     *)
(* NF_DROP frees the skb, NF_STOLEN keeps it, NF_ACCEPT walks on after    *)
(* the hook, NF_REPEAT calls that hook again, NF_QUEUE queues it again:   *)
(* a new item goes to the tail before the old one is unlinked.            *)
Reinject(k, v) ==
  LET item == queue[k]
      on == OnPath(item.path)
      stale == item.hook \notin Registered
      after == {h \in on : CalledBefore(item.path, item.hook, h)}
      goes == v \in {"NF_ACCEPT", "NF_REPEAT", "NF_QUEUE"}
      devgone == item.dev # NoDev /\ item.dev \notin Range(iflist)
  IN
  \E fail \in on \cup {NoHook}, ub \in BOOLEAN :
    LET h == CASE stale              -> NoHook
               [] v = "NF_ACCEPT"    -> QueuedBy(item.path, after, fail)
               [] v = "NF_REPEAT"    -> QueuedBy(item.path, after \cup {item.hook}, fail)
               [] v = "NF_QUEUE"     -> item.hook
               [] OTHER              -> NoHook
    IN
    CASE goes /\ (stale \/ devgone) /\ ub -> HookCrash
      [] h # NoHook ->
           /\ queueid < MaxQueueId
           /\ queue' = ListDel(Append(queue, QueueItem(item.pkt, item.dev,
                                                       h, item.path)), k)
           /\ queueid' = queueid + 1
           /\ UNCHANGED crashed
      [] v # "NF_STOLEN" /\ ub -> HookCrash
      [] OTHER ->
           /\ queue' = ListDel(queue, k)
           /\ UNCHANGED <<queueid, crashed>>

(* queue VERDICT [ID]: an unknown verdict, or an id not on the queue, is  *)
(* refused; without an id the first item is taken, and on an empty queue  *)
(* that is the list head itself.                                           *)
QueueCmd(a) ==
  LET v == NfRetvalByName(a.verdict)
      k == IF a.id = NoId THEN 1
           ELSE SelectInSeq(queue, LAMBDA i : i.id = a.id)
  IN
  /\ Running
  /\ CASE v < 0                      -> UNCHANGED <<queue, queueid, crashed>>
       [] a.id = NoId /\ queue = <<>> -> HookCrash
       [] k = 0                       -> UNCHANGED <<queue, queueid, crashed>>
       [] OTHER                       -> Reinject(k, a.verdict)
  /\ UNCHANGED <<hooks, hk, routevars, ifvars>>

HooksNext ==
  \/ \E a \in HookArgs : HookCmd(a)
  \/ \E n \in IfNames \cup {NoIf}, p \in RcvPaths \cup LocalPaths : GenIp(n, p)
  \/ \E a \in QueueArgs : QueueCmd(a)

-----------------------------------------------------------------------------
(* Every packet nfsim's queue holds is on it once: a reinjected packet    *)
(* that a hook queues again gets a new item, and queue.c's list_del takes *)
(* the old one off after nf_reinject returns, whatever verdict, id or     *)
(* order of commands the script uses.                                      *)
PacketQueuedOnce ==
  \A i, j \in 1..Len(queue) : queue[i].pkt = queue[j].pkt => i = j

(* Item ids grow from head to tail and stay below queueid: the queue help *)
(* promises ids unique and monotonically increasing over the session, and *)
(* an id names one packet for `queue VERDICT ID`.                          *)
QueueIdsIncreasing ==
  \A i \in 1..Len(queue) :
     /\ queue[i].id < queueid
     /\ i < Len(queue) => queue[i].id < queue[i + 1].id

HooksTypeOK ==
  /\ hooks \in Seq(1..MaxHooks)
  /\ Range(hooks) \subseteq DOMAIN hk
  /\ queueid \in 0..MaxQueueId
  /\ \A i \in 1..Len(queue) : queue[i].hook \in DOMAIN ModHooks \cup DOMAIN hk

====
