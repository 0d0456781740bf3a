----------------------------- MODULE MCFailTest -----------------------------
(***************************************************************************)
(* Model-checking instances of FailTest: small scripts over five call      *)
(* sites.  A is a hook or allocation that a script line checks; D is       *)
(* proc_create inside register_sysctl_table's suppressed region; M is      *)
(* try_module_get (should_i_fail_once); B, C and E are copy_to_user /      *)
(* copy_from_user calls.                                                   *)
(***************************************************************************)
EXTENDS FailTest

CONSTANTS A, B, C, D, E, M

Call(op, l, n) == [op |-> op, loc |-> l, line |-> n]
Exit(st) == [op |-> "exit", status |-> st]

(* The script of the first line fails cleanly when A fails; otherwise it  *)
(* registers a sysctl table (D suppressed), takes a module reference twice *)
(* and copies data to and from user space.                                 *)
Body(h) ==
  LET n == Len(h) IN
  CASE n = 0 -> Call("fail", A, 1)
    [] h[1]  -> Exit("SCRIPTFAIL")
    [] n = 1 -> [op |-> "suppress"]
    [] n = 2 -> Call("fail", D, 2)
    [] n = 3 -> [op |-> "unsuppress"]
    [] n = 4 -> Call("once", M, 2)
    [] n = 5 -> Call("fail", B, 3)
    [] n = 6 -> Call("once", M, 3)
    [] n = 7 -> Call("fail", C, 3)
    [] n = 8 -> Call("fail", E, 4)
    [] OTHER -> [op |-> "end"]

(* The programs: the script above with code under test that never        *)
(* crashes (NoBug), or that crashes (SIGNALLED, or barf() as after a      *)
(* leak found by check_allocations) at the point where the results it has *)
(* seen are exactly h, for every h the script can reach.                  *)
NoBug == [crashes |-> FALSE, at |-> <<>>, status |-> "SUCCESS"]

MCStep(prog, h) ==
  CASE prog.crashes /\ h = prog.at -> Exit(prog.status)
    [] Body(h).op = "end"            -> Exit("SUCCESS")
    [] OTHER                         -> Body(h)

Reachable ==
  LET runs == DFS(NoBug, <<>>) IN
  UNION {{SubSeq(runs[i], 1, k) : k \in 0..Len(runs[i])} : i \in 1..Len(runs)}

Tok(l, n, m) == [loc |-> l, line |-> n, mark |-> m]

(* Paths typed by hand: lower-case marks without tags or lines, a path    *)
(* for another location, a path with a wrong line, and a bad mark.         *)
MCHandPaths ==
  { <<Tok(NoTag, NoLine, "s"), Tok(NoTag, 2, "f")>>,
    <<Tok(A, 1, "S"), Tok(B, 2, "F")>>,
    <<Tok(A, 7, "S")>>,
    <<Tok(A, 1, "?")>> }

(* nfsim --failtest --failpath "[A]:1:S": exploration after the first   *)
(* call, which the path decides.                                          *)
MCPrefixPaths == {<<Tok(A, 1, "S")>>}

MCPids == 1..17

MCPrograms ==
  {NoBug} \cup [crashes : {TRUE}, at : Reachable, status : {"SIGNALLED", "FAILURE"}]
=============================================================================
