------------------------------ MODULE TcpStream ------------------------------
(***************************************************************************)
(* What the tcpsession command promises (src/tools/tcpsession.c, help     *)
(* text): one TCP connection at a time between an original and a reply    *)
(* side. Each side's stream position counts the sequence space it has     *)
(* used (SYN, data bytes, FIN). A NAT helper on the path may lengthen or  *)
(* shorten a data packet; the change, declared beforehand, shifts the     *)
(* receiver's view of that side's stream for good. Packets are matched    *)
(* by sequence numbers, so the session must move both ends of a          *)
(* direction together: what the sender has used, and what the receiver   *)
(* acknowledges, which is that plus the accumulated shift.                *)
(***************************************************************************)
EXTENDS Integers

CONSTANTS
  Dirs,       \* {"original", "reply"}
  Sizes,      \* data lengths a packet may carry
  Changes     \* length changes a NAT helper may make to one packet

VARIABLES
  conn,       \* "none" or "open"
  pos,        \* pos[d]: sequence space used by side d since its ISN
  grow,       \* grow[d]: accumulated shift of d's stream at the receiver
  pending     \* the change declared for the next data packet, or 0

vars == <<conn, pos, grow, pending>>

Zero == [d \in Dirs |-> 0]

Init == conn = "none" /\ pos = Zero /\ grow = Zero /\ pending = 0

(* The three-way handshake went through: each side has used its SYN.     *)
Open ==
  /\ conn = "none"
  /\ conn' = "open"
  /\ pos' = [d \in Dirs |-> 1]
  /\ UNCHANGED <<grow, pending>>

(* A length change is declared for the next data packet.                 *)
Declare(c) ==
  /\ conn = "open"
  /\ pending' = c
  /\ UNCHANGED <<conn, pos, grow>>

(* Side d sends n bytes; the declared change applies to this packet.     *)
Send(d, n) ==
  /\ conn = "open"
  /\ pos' = [pos EXCEPT ![d] = @ + n]
  /\ grow' = [grow EXCEPT ![d] = @ + pending]
  /\ pending' = 0
  /\ UNCHANGED conn

(* The sides in F have sent their FIN; the session stays open.            *)
Fin(F) ==
  /\ conn = "open"
  /\ pos' = [d \in Dirs |-> IF d \in F THEN pos[d] + 1 ELSE pos[d]]
  /\ UNCHANGED <<conn, grow, pending>>

(* The session is closed, reset or abandoned and forgotten.              *)
Forget ==
  /\ conn = "open"
  /\ conn' = "none"
  /\ pos' = Zero
  /\ grow' = Zero
  /\ pending' = 0

Next ==
  \/ Open
  \/ \E c \in Changes : Declare(c)
  \/ \E d \in Dirs, n \in Sizes : Send(d, n)
  \/ \E F \in SUBSET Dirs : F # {} /\ Fin(F)
  \/ Forget

Spec == Init /\ [][Next]_vars

=============================================================================
