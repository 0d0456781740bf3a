------------------------------ MODULE Ifconfig ------------------------------
(***************************************************************************)
(* The simulated network interfaces (src/tools/ifconfig.c, the interface  *)
(* list and interface_by_name of src/core/core.c): which devices are on   *)
(* the `interfaces` list under which names, and the address, netmask and  *)
(* broadcast address of each device's single in_ifaddr. A device is named *)
(* by its ifindex, which create_device takes from ifindex_counter whether *)
(* or not it succeeds.                                                     *)
(*                                                                         *)
(* An argument word is reduced to what the parsers make of it: the        *)
(* address inet_atou32 reads from it (or NoAddr), the number atoi reads,  *)
(* and whether it is "mask" or begins with "up" or "down". Addresses are  *)
(* host-order numbers of Width bits, Width standing for 32 (see Route);   *)
(* a mask-bit count k of the code is k * Width / 32 here, so set_device's *)
(* bounds 8 and 31 become Width \div 4 and Width - 1. The NETDEV_UP and   *)
(* NETDEV_DOWN notifier calls reach only the netfilter modules that       *)
(* registered for them, which this model does not include.               *)
(***************************************************************************)
EXTENDS Integers, Sequences, SequencesExt, Bitwise

CONSTANTS
  IfNames,    \* interface names a script uses
  IfArgs,     \* argument vectors given after the device name
  MaxDev,     \* bound on ifindex_counter: devices ever allocated
  Width       \* bits of an address (32 in the code)

VARIABLES
  iflist,     \* the `interfaces` list, head first: ifindexes
  devname,    \* devname[i]: dev->name of device i
  ifindex,    \* ifindex_counter
  ifa,        \* ifa[i]: ifa_local, ifa_mask, ifa_broadcast of device i
  crashed     \* nfsim died (SIGSEGV or talloc's abort)

ifvars == <<iflist, devname, ifindex, ifa>>

NoDev == 0
DevIds == 1..MaxDev
NoAddr == -1
(* The contents of memory talloc returned and nothing has written, and   *)
(* what inet_atou32 may store when it reads past the end of argv: values  *)
(* outside the addresses.                                                  *)
Uninit == -2
Garbage == -3

Running == ~crashed

Ones == 2^Width - 1
Compl(x) == Ones - x

(* htonl(~(0xffffffff >> mask)) of set_device, for 8 <= mask <= 31.       *)
MaskOfBits(k) == Compl(shiftR(Ones, k))

Word(w) == [addr |-> NoAddr, atoi |-> 0, word |-> w]

(* interface_by_name: the first device on the list with that name.       *)
InterfaceByName(n) ==
  LET hits == SelectInSeq(iflist, LAMBDA i : devname[i] = n) IN
  IF hits = 0 THEN NoDev ELSE iflist[hits]

(* set_device(dev, argc, argv) applied to configuration c: the address,   *)
(* then a netmask ("mask" M, or mask bits), then the broadcast address,   *)
(* each parsed and written in turn. A field written before a later word   *)
(* fails to parse stays written. "mask" M takes two words but argc counts *)
(* one, so with exactly "ADDR mask M" the broadcast is read from          *)
(* argv[argc], past the arguments: res "over".                            *)
SetDevice(c, args) ==
  LET n == Len(args)
      fail(d) == [res |-> "fail", cfg |-> d]
      ok(d) == [res |-> "ok", cfg |-> d]
      withLocal == [c EXCEPT !.local = args[1].addr]
      maskForm == args[2].word = "mask" /\ n - 1 > 1
      bits == args[2].atoi
      withMask ==
        [withLocal EXCEPT !.mask = IF maskForm THEN args[3].addr
                                   ELSE MaskOfBits(bits)]
      b == IF maskForm THEN 4 ELSE 3
  IN
  IF args[1].addr = NoAddr THEN fail(c)
  ELSE IF n = 1 THEN ok(withLocal)
  ELSE IF maskForm /\ args[3].addr = NoAddr THEN fail(withLocal)
  ELSE IF ~maskForm /\ (bits < Width \div 4 \/ bits > Width - 1)
       THEN fail(withLocal)
  ELSE IF n = 2 THEN ok(withMask)
  ELSE IF b > n THEN [res |-> "over", cfg |-> withMask]
  ELSE IF args[b].addr = NoAddr THEN fail(withMask)
  ELSE ok([withMask EXCEPT !.bcast = args[b].addr])

(* argv[argc] is NULL, as commands are called (tcpsession.c:140 builds    *)
(* its argv so), and inet_atou32 of NULL is undefined: nfsim crashes, or  *)
(* the parse fails, or it stores something as the broadcast address.      *)
(* The address and mask set_device wrote before stay written.             *)
OverRead(r) ==
  \/ crashed' = TRUE /\ ifa' = [ifa EXCEPT ![r.dev] = r.cfg]
  \/ ifa' = [ifa EXCEPT ![r.dev] = r.cfg] /\ UNCHANGED crashed
  \/ ifa' = [ifa EXCEPT ![r.dev] = [r.cfg EXCEPT !.bcast = Garbage]]
     /\ UNCHANGED crashed

Fresh == [local |-> Uninit, mask |-> Uninit, bcast |-> Uninit]

(* Mutant: the device is numbered with the counter after the increment.  *)
CreateDevicePreInc(n, args) ==
  LET r == SetDevice(Fresh, args) IN
  /\ ifindex' = ifindex + 1
  /\ IF r.res = "ok"
     THEN /\ iflist' = Append(iflist, ifindex + 1)
          /\ devname' = [devname EXCEPT ![ifindex] = n]
          /\ ifa' = [ifa EXCEPT ![ifindex] = r.cfg]
     ELSE UNCHANGED <<iflist, devname, ifa>>

(* Mutant: the trailing "up" is not passed to set_device.                 *)
CreateDeviceNoUp(n, args) ==
  LET r == SetDevice(Fresh, SubSeq(args, 1, Len(args) - 1)) IN
  /\ ifindex' = ifindex + 1
  /\ IF r.res = "ok"
     THEN /\ iflist' = Append(iflist, ifindex)
          /\ devname' = [devname EXCEPT ![ifindex] = n]
          /\ ifa' = [ifa EXCEPT ![ifindex] = r.cfg]
     ELSE UNCHANGED <<iflist, devname, ifa>>

(* create_device(name, argc, argv): allocate, take the next ifindex, and, *)
(* if set_device accepts the arguments, append to the list. On the path   *)
(* from ifconfig the arguments end with the "up" word. The device route   *)
(* add_route_for_device adds is in Route.                                  *)
CreateDevice(n, args) ==
  LET r == SetDevice(Fresh, args) IN
  /\ ifindex' = ifindex + 1
  /\ IF r.res = "ok"
     THEN /\ iflist' = Append(iflist, ifindex)
          /\ devname' = [devname EXCEPT ![ifindex] = n]
          /\ ifa' = [ifa EXCEPT ![ifindex] = r.cfg]
     ELSE UNCHANGED <<iflist, devname, ifa>>

(* core_init: create_device of lo 127.0.0.1 8 127.255.255.255, eth0      *)
(* 192.168.0.1 24 192.168.0.255 and eth1 192.168.1.1 24 192.168.1.255,  *)
(* scaled: the network bits of each address kept in the top bits.         *)
CoreDevices ==
  << [name |-> "lo",   local |-> 65,  bits |-> 2, bcast |-> 127],
     [name |-> "eth0", local |-> 193, bits |-> 6, bcast |-> 195],
     [name |-> "eth1", local |-> 197, bits |-> 6, bcast |-> 199] >>

IfInit ==
  /\ iflist = <<1, 2, 3>>
  /\ devname = [i \in DevIds |-> IF i <= 3 THEN CoreDevices[i].name ELSE "lo"]
  /\ ifa = [i \in DevIds |->
              IF i <= 3
              THEN [local |-> CoreDevices[i].local,
                    mask |-> MaskOfBits(CoreDevices[i].bits),
                    bcast |-> CoreDevices[i].bcast]
              ELSE Fresh]
  /\ ifindex = 4
  /\ crashed = FALSE

(* ifconfig NAME ARGS... up, for a name not on the list and at least two *)
(* words before "up": create_device, whose result the command ignores.    *)
IfconfigUp(n, args) ==
  /\ ifindex <= MaxDev
  /\ CreateDevice(n, args)
  /\ UNCHANGED crashed

(* ifconfig NAME down: NETDEV_DOWN notifier, list_del, talloc_free.       *)
IfconfigDown(d) ==
  /\ iflist' = RemoveFirst(iflist, d)
  /\ UNCHANGED <<devname, ifindex, ifa, crashed>>

(* ifconfig NAME ARGS...: NETDEV_DOWN notifier, then set_device on the    *)
(* device's own in_ifaddr; what it wrote before a failure stays.          *)
IfconfigSet(d, args) ==
  LET r == SetDevice(ifa[d], args) IN
  /\ IF r.res = "over"
     THEN OverRead([dev |-> d, cfg |-> r.cfg])
     ELSE ifa' = [ifa EXCEPT ![d] = r.cfg] /\ UNCHANGED crashed
  /\ UNCHANGED <<iflist, devname, ifindex>>

Refused == UNCHANGED <<ifvars, crashed>>

(* The ifconfig command: "up" as the last word brings a device up, unless *)
(* the name exists or fewer than two words precede it; any other form     *)
(* needs the device; "down" as the only word takes it down, other words   *)
(* reconfigure it. The forms that only print (no arguments, or the name   *)
(* alone) change nothing and are left out.                                 *)
Ifconfig(n, args) ==
  LET d == InterfaceByName(n) IN
  /\ Running
  /\ args # <<>>
  /\ IF Last(args).word = "up"
     THEN IF d # NoDev \/ Len(args) < 2 THEN Refused ELSE IfconfigUp(n, args)
     ELSE IF d = NoDev THEN Refused
     ELSE IF Len(args) = 1 /\ args[1].word = "down" THEN IfconfigDown(d)
     ELSE IfconfigSet(d, args)

IfNext == \E n \in IfNames, args \in IfArgs : Ifconfig(n, args)

-----------------------------------------------------------------------------
(* ifshow prints ifa_local, ifa_mask and ifa_broadcast of every device on *)
(* the list. None of them is ever the uninitialized contents of the       *)
(* in_ifaddr create_device allocates: a device joins the list only when   *)
(* set_device accepted every word up to the trailing "up", and a later    *)
(* reconfiguration, however far it gets, only overwrites fields.          *)
IfshowReadsInitialized ==
  \A d \in Range(iflist) : Uninit \notin {ifa[d].local, ifa[d].mask, ifa[d].bcast}

IfTypeOK ==
  /\ iflist \in Seq(DevIds)
  /\ devname \in [DevIds -> IfNames \cup {"lo"}]
  /\ ifindex \in 1..MaxDev + 1
  /\ ifa \in [DevIds -> [local : Nat \cup {Uninit},
                         mask : Nat \cup {Uninit},
                         bcast : Nat \cup {Uninit, Garbage}]]
  /\ crashed \in BOOLEAN

=============================================================================
