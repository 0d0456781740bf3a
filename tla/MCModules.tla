----------------------------- MODULE MCModules -----------------------------
(* Four files in module_path: ip_conntrack (CT), ipt_state and            *)
(* iptable_nat needing it (ST, NAT), and a module needing one that is not *)
(* in the directory (BAD).                                                *)
EXTENDS NfsimMain

CONSTANTS CT, ST, NAT, BAD, GONE

MCMods == {CT, ST, NAT, BAD}

MCDeps(m) ==
  CASE m = ST  -> {CT}
    [] m = NAT -> {CT}
    [] m = BAD -> {GONE}
    [] OTHER   -> {}

(* Every module in the directory can be loaded: main's load succeeds.    *)
MCModsGood == {CT, ST, NAT}
-----------------------------------------------------------------------------
(* The ten cmdline_opt entries: core.c's six, failtest.c's three and     *)
(* proc_stuff.c's one, each file's in its own order.  The linker puts the *)
(* files in the order of the object list; two orders are checked, so that *)
(* a long-only option is at index 0 in one and not in the other.         *)
Opt(n, a, v) == [name |-> n, has_arg |-> a, val |-> v]

CoreOpts == << Opt("echo", 0, 120), Opt("quiet", 0, 113), Opt("exit", 0, 101),
               Opt("no-modules", 0, 78), Opt("version", 0, 86), Opt("help", 0, 104) >>
FailOpts == << Opt("failtest", 0, 0), Opt("failpath", 1, 0),
               Opt("failtest-no-report", 1, 0) >>
ProcOpts == << Opt("ignore-proc-issues", 0, 0) >>

MCTables == { CoreOpts \o FailOpts \o ProcOpts, ProcOpts \o FailOpts \o CoreOpts }

(* The long texts used that are prefixes of other names.                  *)
MCLongPrefix(t) ==
  CASE t = "no"       -> {"no-modules"}
    [] t = "fail"     -> {"failtest", "failpath", "failtest-no-report"}
    [] t = "failtest" -> {"failtest", "failtest-no-report"}
    [] OTHER          -> {t}

W(k, t, a, cs) == [kind |-> k, text |-> t, arg |-> a, chars |-> cs]
Long(t)      == W("long", t, NoArg, <<>>)
LongEq(t, a) == W("long", t, a, <<>>)
Short(cs)    == W("short", "", NoArg, cs)
Plain(t)     == W("plain", t, NoArg, <<>>)
DashDash     == W("end", "", NoArg, <<>>)

Script == Plain("script")
PathArg == Plain("[A]:1:F")

(* -N, -q, -x, -z, -V are 78, 113, 120, 122, 86.                          *)
MCArgvs ==
  { <<Script>>,
    <<Short(<<78, 113>>), Script>>,
    <<Script, Long("no")>>,
    <<Long("failtest"), Long("failpath"), PathArg, Script>>,
    <<LongEq("failtest-no-report", "copy"), Long("ignore-proc-issues"),
      DashDash, Short(<<78>>)>>,
    <<Long("fail"), Script>>,
    <<Long("failtest")>>,
    <<Short(<<120, 122>>), Script>>,
    <<Long("help"), Short(<<86>>)>>,
    <<Script, Long("failpath")>>,
    <<LongEq("echo", "on"), Script>> }
====
