----------------------------- MODULE TcpSession -----------------------------
(***************************************************************************)
(* The tcpsession command (src/tools/tcpsession.c). It drives one TCP     *)
(* connection through gen_ip: each tcp_send registers an `expect` for the *)
(* packet at the far interface and then injects it with                   *)
(* `gen_ip IF=<near interface>`. The original side talks on eth0, the     *)
(* reply side on eth1. gen_ip fails, and the packet is never sent, when   *)
(* the interface is not on the list or the length argument does not       *)
(* parse. A failed tcp_send ends the command and leaves the counters as   *)
(* far as they got. Each command is one atomic step; the interfaces come  *)
(* from Ifconfig and do not change during a command.                      *)
(***************************************************************************)
EXTENDS Hooks

CONSTANTS
  DataArgs,   \* DATA arguments: sequences of words, a word being its
              \* printable length or Unprintable
  Unprintable,
  Changes,    \* LENCHANGE arguments: atoi() values other than 0
  MaxPos      \* bound on the sequence space a side may use, and on how
              \* far the other side's ack of it may be shifted

VARIABLE
  curr        \* the open session, or Null

vars == <<ifvars, routevars, hookvars, curr, crashed>>

Null == [null |-> TRUE]
Dirs == {"original", "reply"}
Other(d) == IF d = "original" THEN "reply" ELSE "original"
(* The interface each side's packets are injected on (open_session).     *)
Iface(d) == IF d = "original" THEN "eth0" ELSE "eth1"
(* Initial sequence numbers set by open_session.                          *)
ISN(d) == IF d = "original" THEN 1000 ELSE 2000

(* gen_ip_data_length: printable lengths plus one separator between      *)
(* words; -1 as soon as copy_printable rejects a word.                   *)
RECURSIVE DataLength(_)
DataLength(ws) ==
  IF ws = <<>> THEN 0
  ELSE LET rest == DataLength(Tail(ws)) IN
       IF Head(ws) = Unprintable \/ rest = -1 THEN -1
       ELSE Head(ws) + rest + (IF Len(ws) > 1 THEN 1 ELSE 0)

(* tcp_send from side d with a payload of len bytes goes through iff     *)
(* gen_ip finds the interface and parses the length ("%i", 0..65535).    *)
Sent(d, len) == InterfaceByName(Iface(d)) # NoDev /\ len >= 0

Endpoint(seq, ack) == [seq |-> seq, ack |-> ack]

SessInit ==
  /\ IfInit
  /\ HooksInit
  /\ curr = Null

(* tcpsession OPEN: open_session sends SYN, SYN/ACK and ACK. Any failed   *)
(* send frees the half-built session, so only a complete handshake       *)
(* leaves one behind (1001/2001 on the original, 2001/1001 on the reply). *)
Open ==
  /\ Running
  /\ curr = Null
  /\ curr' = IF Sent("original", 0) /\ Sent("reply", 0)
             THEN [original |-> Endpoint(1001, 2001),
                   reply |-> Endpoint(2001, 1001),
                   lenchange |-> 0]
             ELSE Null
  /\ UNCHANGED <<ifvars, routevars, hookvars, crashed>>

(* Mutant: send_data leaves the declared change in place.                *)
SendDataNoReset(d, ws) ==
  LET len == DataLength(ws)
      o == Other(d)
  IN
  /\ Running
  /\ curr # Null
  /\ curr[d].seq + len - ISN(d) <= MaxPos
  /\ curr[o].ack + len + curr.lenchange - ISN(d) \in -MaxPos..MaxPos
  /\ IF Sent(d, len)
     THEN curr' = [curr EXCEPT ![d].seq = @ + len,
                               ![o].ack = @ + len + curr.lenchange]
     ELSE UNCHANGED curr
  /\ UNCHANGED <<ifvars, routevars, hookvars, crashed>>

(* tcpsession DATA d WORDS: send_data. If the data packet goes through,  *)
(* the sender's seq moves by len and the receiver's ack by len plus the  *)
(* declared change, which is then cleared; the ACK in reply changes      *)
(* nothing more, whether or not it goes through.                          *)
SendData(d, ws) ==
  LET len == DataLength(ws)
      o == Other(d)
  IN
  /\ Running
  /\ curr # Null
  /\ curr[d].seq + len - ISN(d) <= MaxPos
  /\ curr[o].ack + len + curr.lenchange - ISN(d) \in -MaxPos..MaxPos
  /\ IF Sent(d, len)
     THEN curr' = [curr EXCEPT ![d].seq = @ + len,
                               ![o].ack = @ + len + curr.lenchange,
                               !.lenchange = 0]
     ELSE UNCHANGED curr
  /\ UNCHANGED <<ifvars, routevars, hookvars, crashed>>

(* tcpsession LENCHANGE N: stores N in curr->lenchange. There is no      *)
(* check that a session is open: without one, the store goes through     *)
(* NULL and nfsim dies.                                                   *)
LenChange(c) ==
  /\ Running
  /\ IF curr = Null
     THEN /\ crashed' = TRUE
          /\ UNCHANGED curr
     ELSE /\ curr' = [curr EXCEPT !.lenchange = c]
          /\ UNCHANGED crashed
  /\ UNCHANGED <<ifvars, routevars, hookvars>>

(* tcpsession CLOSE d: close_session sends FIN/ACK from d, FIN/ACK back  *)
(* and the last ACK from d. The session is freed only after all three;   *)
(* when the second FIN fails, d's FIN stays counted and the session      *)
(* stays open.                                                             *)
CloseSession(d) ==
  LET o == Other(d) IN
  /\ Running
  /\ curr # Null
  /\ curr[d].seq + 1 - ISN(d) <= MaxPos
  /\ curr' = CASE ~Sent(d, 0)  -> curr
               [] ~Sent(o, 0)  -> [curr EXCEPT ![d].seq = @ + 1, ![o].ack = @ + 1]
               [] OTHER        -> Null
  /\ UNCHANGED <<ifvars, routevars, hookvars, crashed>>

(* tcpsession RESET d: one RST from d, then the session is freed.        *)
ResetSession(d) ==
  /\ Running
  /\ curr # Null
  /\ curr' = IF Sent(d, 0) THEN Null ELSE curr
  /\ UNCHANGED <<ifvars, routevars, hookvars, crashed>>

(* tcpsession ABANDON: the session is forgotten.                          *)
Abandon ==
  /\ Running
  /\ curr # Null
  /\ curr' = Null
  /\ UNCHANGED <<ifvars, routevars, hookvars, crashed>>

SessNext ==
  \/ Open
  \/ \E d \in Dirs, ws \in DataArgs : SendData(d, ws)
  \/ \E c \in Changes : LenChange(c)
  \/ \E d \in Dirs : CloseSession(d) \/ ResetSession(d)
  \/ Abandon

(* The ifconfig and route commands run between tcpsession commands.      *)
IfStep == RouteIfNext /\ UNCHANGED <<hookvars, curr>>
RouteStep == RouteNext /\ UNCHANGED <<hookvars, curr>>
HookStep == HooksNext /\ UNCHANGED curr

(* After the crash nothing more happens.                                  *)
Dead == crashed /\ UNCHANGED vars

Next == SessNext \/ IfStep \/ RouteStep \/ HookStep \/ Dead

Spec == SessInit /\ [][Next]_vars

-----------------------------------------------------------------------------
Sizes == {DataLength(ws) : ws \in DataArgs} \ {-1}

TypeOK ==
  /\ IfTypeOK
  /\ RouteTypeOK
  /\ HooksTypeOK
  /\ curr = Null \/
     /\ DOMAIN curr = Dirs \cup {"lenchange"}
     /\ \A d \in Dirs : curr[d].seq \in Nat /\ curr[d].ack \in Nat
     /\ curr.lenchange \in Changes \cup {0}

(* The counters seen as streams: each side's position is its seq minus   *)
(* its ISN, and the shift of its stream is what the other side           *)
(* acknowledges beyond that.                                              *)
Stream == INSTANCE TcpStream WITH
  conn <- IF curr = Null THEN "none" ELSE "open",
  pos <- IF curr = Null THEN [d \in Dirs |-> 0]
         ELSE [d \in Dirs |-> curr[d].seq - ISN(d)],
  grow <- IF curr = Null THEN [d \in Dirs |-> 0]
          ELSE [d \in Dirs |-> curr[Other(d)].ack - curr[d].seq],
  pending <- IF curr = Null THEN 0 ELSE curr.lenchange

(* Refinement: every tcpsession command, in every outcome of its sends,  *)
(* moves both ends of a direction together, so that each packet the      *)
(* session later injects carries the sequence and acknowledgement        *)
(* numbers the far side is told to expect; a declared length change is   *)
(* applied to exactly one data packet.                                    *)
StreamRefined == Stream!Spec

(* No script kills nfsim. The command handlers refuse a bad argument or  *)
(* a command out of order by logging and returning false: DATA, CLOSE,   *)
(* RESET and ABANDON print "Session not open!" without a session, route  *)
(* and hook print "Bad ... command", ifconfig refuses an unknown device. *)
(* Broken by LENCHANGE without a session (tcpsession.c:314), and by the   *)
(* reads of freed memory: a route after `route del` or its device after  *)
(* `ifconfig down` (route print, route add and del walking the list), a  *)
(* queued packet's hook after hook_post_cleanup or its device after      *)
(* `ifconfig down` (queue), list_del of a queue item freed with its skb,  *)
(* and hook_post_cleanup's free() of talloc'd memory.                      *)
ScriptsNeverKillNfsim == ~crashed

=============================================================================
