------------------------------- MODULE Route -------------------------------
(***************************************************************************)
(* The route command (src/tools/route.c) over the interfaces of Ifconfig. *)
(* A route is a destination (network, netmask) and the device it leads    *)
(* to; `route add` puts it at the head of the `routes` list, `route del`  *)
(* frees the first route with that destination, and `route print` walks   *)
(* the list and prints each route's interface name.                       *)
(*                                                                         *)
(* Addresses are host-order numbers of Width bits, Width standing for    *)
(* the 32 of the code (the literals 32, 0xffffffff and 0x80000000 become  *)
(* Width, 2^Width - 1 and 2^(Width-1)). htonl and ntohl are byte          *)
(* permutations, and get_route_dest only combines values with & and ==,   *)
(* which commute with them. inet_atou32 is reduced to its result (an      *)
(* address, or a parse failure as BadDest).                                *)
(*                                                                         *)
(* route del frees the route without list_del, so the freed route stays  *)
(* on the list; a device freed by `ifconfig down` stays referenced by its *)
(* routes. Reading either is undefined: a later walk may read the old     *)
(* contents, read something else, or crash, and the model takes each.     *)
(***************************************************************************)
EXTENDS Ifconfig, Bitwise

CONSTANTS
  RouteArgs,  \* destinations: [form |-> "bits", addr, n] for "addr/n",
              \* [form |-> "mask", addr, m] for "addr mask m", or
              \* BadDest
  MaxRoutes   \* bound on the routes on the list, the devices' included

VARIABLES
  routes,     \* the `routes` list, head first: route ids
  rt,         \* rt[r]: network, netmask, interface and arguments of route r
  freed       \* routes talloc_free'd by route del

routevars == <<routes, rt, freed>>

(* A destination that get_route_dest refuses.                            *)
BadDest == [form |-> "bad"]

RouteIds == 1..MaxRoutes
(* Without the special case: x86 takes the shift count mod 32, so a /32  *)
(* would get ~0xffffffff, the empty mask.                                  *)
NetmaskOfNoFull(maskbits) == Compl(shiftR(Ones, maskbits % Width))

(* ~(0xffffffff >> maskbits), or all ones for 32, as get_route_dest       *)
(* writes it to avoid the shift by the full width.                         *)
NetmaskOf(maskbits) ==
  IF maskbits = Width THEN Ones ELSE Compl(shiftR(Ones, maskbits))

(* Bit 31 of ntohl(maskaddr) << k. At k = 32 the shift is undefined, but  *)
(* the loop only gets there with maxbits at 0, so its value is unused.     *)
TopBit(m, k) == k < Width /\ shiftR(m, Width - 1 - k) % 2 = 1

(* while (((ntohl(maskaddr) << maskbits) & 0x80000000) && maxbits--)       *)
(*     maskbits++;                                                          *)
RECURSIVE CountMaskBits(_, _, _)
CountMaskBits(m, maskbits, maxbits) ==
  IF TopBit(m, maskbits) /\ maxbits # 0
  THEN CountMaskBits(m, maskbits + 1, maxbits - 1)
  ELSE maskbits

MaskBitsOf(m) == CountMaskBits(m, 0, Width)

(* get_route_dest: the destination, or BadDest when it returns non-zero    *)
(* (no '/', an address that does not parse, bits outside 0..32, a wrong   *)
(* number of words).                                                        *)
GetRouteDest(arg) ==
  IF arg = BadDest THEN BadDest
  ELSE LET bits == IF arg.form = "bits" THEN arg.n ELSE MaskBitsOf(arg.m) IN
       IF bits < 0 \/ bits > Width THEN BadDest
       ELSE [network |-> arg.addr & NetmaskOf(bits),
             netmask |-> NetmaskOf(bits)]

SameDest(r, d) == rt[r].network = d.network /\ rt[r].netmask = d.netmask

(* A walk of the list from the head that stops at the first route with    *)
(* destination d (find_matching_route, and the loop of route del). A      *)
(* freed route is read as `out` says: as it was, as anything else, or     *)
(* the walk crashes. The result: "found" with the route, "none", "crash". *)
RECURSIVE Walk(_, _, _)
Walk(seq, d, out) ==
  IF seq = <<>> THEN [res |-> "none"]
  ELSE LET r == Head(seq) IN
       CASE r \in freed /\ out[r] = "crash"    -> [res |-> "crash"]
         [] r \in freed /\ out[r] = "other"    -> Walk(Tail(seq), d, out)
         [] SameDest(r, d)                    -> [res |-> "found", route |-> r]
         [] OTHER                             -> Walk(Tail(seq), d, out)

StaleReads == [freed -> {"old", "other", "crash"}]

Crash == crashed' = TRUE /\ UNCHANGED routevars

(* The route add_route_for_device gives device d (ipv4 code, not in this  *)
(* repository): its network and netmask, at the head of the list.         *)
NoArg == [form |-> "device"]
DevRoute(d, c) ==
  [network |-> c.local & c.mask, netmask |-> c.mask, dev |-> d, arg |-> NoArg]

(* The routes of lo, eth0 and eth1, which core_init creates in turn.      *)
RouteInit ==
  /\ routes = <<3, 2, 1>>
  /\ rt = [r \in 1..3 |-> DevRoute(r, ifa[r])]
  /\ freed = {}

(* ifconfig, with the route create_device adds for the device it has just *)
(* allocated (number ifindex) when it puts that device on the list.        *)
RouteIfconfig(n, args) ==
  /\ Len(routes) < MaxRoutes
  /\ Ifconfig(n, args)
  /\ IF Len(iflist') > Len(iflist)
     THEN LET r == Len(routes) + 1 IN
          /\ routes' = <<r>> \o routes
          /\ rt' = rt @@ (r :> DevRoute(ifindex, ifa'[ifindex]))
          /\ UNCHANGED freed
     ELSE UNCHANGED routevars

(* route add DEST IFACE: refused for a bad destination, a destination     *)
(* already on the list, or an unknown interface; otherwise the new route  *)
(* goes to the head (list_add).                                            *)
RouteAdd(arg, n) ==
  LET d == GetRouteDest(arg)
      r == Len(routes) + 1
  IN
  /\ Running
  /\ r <= MaxRoutes
  /\ \E out \in StaleReads :
       LET w == Walk(routes, d, out) IN
       CASE d = BadDest                  -> UNCHANGED <<routevars, crashed>>
         [] w.res = "crash"              -> Crash
         [] w.res = "found"              -> UNCHANGED <<routevars, crashed>>
         [] InterfaceByName(n) = NoDev   -> UNCHANGED <<routevars, crashed>>
         [] OTHER ->
              /\ routes' = <<r>> \o routes
              /\ rt' = rt @@ (r :> [network |-> d.network, netmask |-> d.netmask,
                                    dev |-> InterfaceByName(n), arg |-> arg])
              /\ UNCHANGED <<freed, crashed>>
  /\ UNCHANGED ifvars

(* route del DEST: talloc_free of the first route with that destination,  *)
(* left on the list. Matching a route freed before frees it again, and    *)
(* talloc aborts.                                                           *)
RouteDel(arg) ==
  LET d == GetRouteDest(arg) IN
  /\ Running
  /\ \E out \in StaleReads :
       LET w == Walk(routes, d, out) IN
       CASE d = BadDest                        -> UNCHANGED <<routevars, crashed>>
         [] w.res = "crash"                    -> Crash
         [] w.res = "found" /\ w.route \in freed -> Crash
         [] w.res = "found" ->
              /\ freed' = freed \cup {w.route}
              /\ UNCHANGED <<routes, rt, crashed>>
         [] OTHER                              -> UNCHANGED <<routevars, crashed>>
  /\ UNCHANGED ifvars

(* A route whose memory, or whose device's, has been freed.                *)
Dangling(r) == r \in freed \/ rt[r].dev \notin Range(iflist)

(* route print: every route's route->interface->name. A dangling route    *)
(* may crash the walk.                                                      *)
RoutePrint ==
  /\ Running
  /\ \E i \in 1..Len(routes) : Dangling(routes[i])
  /\ \E c \in BOOLEAN : crashed' = c
  /\ UNCHANGED <<routevars, ifvars>>

RouteNext ==
  \/ \E a \in RouteArgs, n \in IfNames : RouteAdd(a, n)
  \/ \E a \in RouteArgs : RouteDel(a)
  \/ RoutePrint

RouteIfNext == \E n \in IfNames, args \in IfArgs : RouteIfconfig(n, args)

-----------------------------------------------------------------------------
(* Reference: the netmask of an n-bit prefix, and the prefix a "mask m"   *)
(* argument denotes: the longest prefix m contains.                        *)
PrefixMask(n) == 2^Width - 2^(Width - n)
RefPrefixLen(arg) ==
  IF arg.form = "bits" THEN arg.n
  ELSE Max({n \in 0..Width : arg.m & PrefixMask(n) = PrefixMask(n)})

(* Every route `route add` put on the list that route del has not freed has the netmask   *)
(* of the prefix its arguments give, "a/n" and "a mask m" alike, and its   *)
(* network is the address with the host bits cleared: the maskbits = 32   *)
(* special case, the shift-counting loop with its char maxbits, and the   *)
(* clearing in get_route_dest agree with the arithmetic at 0 and 32 bits.  *)
RouteDestAgrees ==
  \A r \in {q \in Range(routes) \ freed : rt[q].arg # NoArg} :
     LET p == PrefixMask(RefPrefixLen(rt[r].arg)) IN
     /\ rt[r].netmask = p
     /\ rt[r].network = rt[r].arg.addr & p

RouteTypeOK ==
  /\ routes \in Seq(RouteIds)
  /\ DOMAIN rt = Range(routes)
  /\ freed \subseteq Range(routes)

=============================================================================
