---------------------------- MODULE MCTcpSession ----------------------------
(***************************************************************************)
(* The interface commands with one other command family: tcpsession,     *)
(* route, or hook with gen_ip and queue; and a fourth script of ifconfig  *)
(* alone with every argument vector.  tcpsession, route and hook read the *)
(* interface list (and the routes create_device adds) but nothing of one  *)
(* another, and none reads a device's address after it is up, so a script *)
(* of one family with ifconfig up and down has every behaviour the mixed  *)
(* script has, seen from that family's state; reconfiguring an existing   *)
(* device matters only to ifshow, which the ifconfig script covers.      *)
(* Checking them apart keeps the counters of each out of one product.     *)
(*                                                                         *)
(* tcpsession: empty, one-byte and two-word data, an unprintable word, a  *)
(* shortening and a lengthening change. route: addresses of 8 bits,       *)
(* 10100011 given as /4, as the mask 11110101 (which holds /4, so the two *)
(* are one destination), as /8 and the mask 11111111, as /0, and as /9,   *)
(* which the parser refuses.                                              *)
(***************************************************************************)
EXTENDS TcpSession

VARIABLE script   \* which command the script uses besides ifconfig

MCDataArgs == {<<>>, <<1>>, <<2, 1>>, <<Unprintable>>}
MCChanges == {-1, 2}
MCIfNames == {"eth0", "eth1"}

(* ifconfig words: an address (atoi reads its first number, too big for  *)
(* mask bits), a mask-bit count, and the words "mask", "up" and "down".   *)
AddrWord(v) == [addr |-> v, atoi |-> 48, word |-> "other"]
BitsWord(k) == [addr |-> NoAddr, atoi |-> k, word |-> "other"]
(* Bringing a device up with address, /24 and broadcast; the same without *)
(* the broadcast (set_device then reads "up" as one); down; a new address *)
(* with a dotted mask and no broadcast; a new address with /36.           *)
UpArgs == <<AddrWord(201), BitsWord(6), AddrWord(203), Word("up")>>
DownArgs == <<Word("down")>>
MCIfArgs ==
  { UpArgs, DownArgs,
    <<AddrWord(201), BitsWord(6), Word("up")>>,
    <<AddrWord(201), Word("mask"), AddrWord(252)>>,
    <<AddrWord(201), BitsWord(9)>> }

(* The words ifconfig is given in each script: all of them when ifconfig  *)
(* runs alone, only up and down beside the other commands, which read the *)
(* interface list and, for route, the configuration a device came up with *)
(* but never a later one.                                                 *)
ScriptIfArgs(s) == IF s = "ifconfig" THEN IfArgs ELSE {UpArgs, DownArgs}

Addr == 163
BitsArg(n) == [form |-> "bits", addr |-> Addr, n |-> n]
MaskArg(m) == [form |-> "mask", addr |-> Addr, m |-> m]
MCRouteArgs ==
  { BitsArg(4), MaskArg(245), BitsArg(8), MaskArg(255), BitsArg(0),
    BitsArg(9), [form |-> "bits", addr |-> 193, n |-> 6] }

(* A module's hook that queues locally delivered packets (as an iptables *)
(* QUEUE rule does), after one that accepts at the same hook number;     *)
(* hook commands at a higher and a lower priority, and two the command   *)
(* refuses: IP_INPUT, which its help text lists, and STOLEN.             *)
MCModHooks ==
  (-1 :> [hooknum |-> "IP_LOCAL_IN", priority |-> 0, verdict |-> "NF_ACCEPT"])
  @@ (0 :> [hooknum |-> "IP_LOCAL_IN", priority |-> 0, verdict |-> "NF_QUEUE"])
HookArg(n, p, v) == [name |-> n, priority |-> p, verdict |-> v]
MCHookArgs ==
  { HookArg("IP_LOCAL_IN", 5, "QUEUE"), HookArg("IP_PRE_ROUTING", -5, "DROP"),
    HookArg("IP_INPUT", 0, "ACCEPT"), HookArg("IP_FORWARD", 0, "STOLEN") }
MCRcvPaths ==
  { <<"IP_PRE_ROUTING", "IP_LOCAL_IN">>,
    <<"IP_PRE_ROUTING", "IP_FORWARD", "IP_POST_ROUTING">> }
MCLocalPaths == { <<"IP_LOCAL_OUT", "IP_POST_ROUTING">> }
QueueArg(v, i) == [verdict |-> v, id |-> i]
MCQueueArgs ==
  { QueueArg(v, NoId) : v \in {"NF_ACCEPT", "NF_REPEAT", "NF_DROP"} }
  \cup { QueueArg("NF_QUEUE", 1), QueueArg("NF_STOLEN", 0),
         QueueArg("ACCEPT", NoId), QueueArg("NF_DROP", 2) }

MCInit == SessInit /\ script \in {"tcpsession", "route", "hook", "ifconfig"}

(* A command of the script's own kind, or ifconfig, or nothing after a  *)
(* crash; each command as a step of its own.                              *)
InScript(s) == script = s /\ UNCHANGED script

MCNext ==
  \/ InScript("tcpsession") /\ Open
  \/ \E d \in Dirs, ws \in DataArgs : InScript("tcpsession") /\ SendData(d, ws)
  \/ \E c \in Changes : InScript("tcpsession") /\ LenChange(c)
  \/ \E d \in Dirs : InScript("tcpsession") /\ CloseSession(d)
  \/ \E d \in Dirs : InScript("tcpsession") /\ ResetSession(d)
  \/ InScript("tcpsession") /\ Abandon
  \/ \E a \in RouteArgs, n \in IfNames :
        InScript("route") /\ RouteAdd(a, n) /\ UNCHANGED <<curr, hookvars>>
  \/ \E a \in RouteArgs : InScript("route") /\ RouteDel(a) /\ UNCHANGED <<curr, hookvars>>
  \/ InScript("route") /\ RoutePrint /\ UNCHANGED <<curr, hookvars>>
  \/ \E a \in HookArgs : InScript("hook") /\ HookCmd(a) /\ UNCHANGED curr
  \/ \E n \in IfNames \cup {NoIf}, p \in RcvPaths \cup LocalPaths :
        InScript("hook") /\ GenIp(n, p) /\ UNCHANGED curr
  \/ \E a \in QueueArgs : InScript("hook") /\ QueueCmd(a) /\ UNCHANGED curr
  \/ \E n \in IfNames, a \in ScriptIfArgs(script) :
        RouteIfconfig(n, a) /\ UNCHANGED <<hookvars, curr, script>>
  \/ Dead /\ UNCHANGED script

MCSpec == MCInit /\ [][MCNext]_<<vars, script>>
=============================================================================
