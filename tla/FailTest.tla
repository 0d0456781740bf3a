------------------------------ MODULE FailTest ------------------------------
(***************************************************************************)
(* The fault controller of nfsim, src/core/failtest.c.                     *)
(*                                                                         *)
(* Every potential failure site of the code under test calls              *)
(* should_i_fail(location) or should_i_fail_once(location).  With          *)
(* --failtest the process forks there: the child is told "fail", the       *)
(* parent blocks in waitpid() and then goes on with "succeed".  A child    *)
(* that dies in an unexpected way makes its parent print the path of       *)
(* decisions that led there and exit EXIT_SILENT, so that no ancestor      *)
(* prints it again.  With --failpath the printed path is replayed without  *)
(* forking.                                                                *)
(*                                                                         *)
(* A process is an element of Pids; at most one process runs at any time   *)
(* (every other one is blocked in waitpid or has exited).  The test script *)
(* and the code under test are abstracted to the constant operator Step:   *)
(* given the program and the results that the process has seen so far     *)
(* from its calls, it names the next call the program makes.  A run first *)
(* explores; if a path was printed, the harness is rerun with --failpath  *)
(* on that path (phase "replay"), through the same actions.                *)
(***************************************************************************)
EXTENDS Integers, Sequences, SequencesExt, FiniteSets

CONSTANTS
  Loc,        \* call-site names passed to should_i_fail*()
  NoReport,   \* the locations matched by --failtest-no-report
  Pids,       \* process ids; 1 is the nfsim process started by the user
  Programs,   \* the test programs (script plus code under test)
  Step(_, _), \* Step(prog, results seen so far) = next call prog makes
  NoPath,     \* failpath == NULL
  NoTag,      \* a path token without its [location] part
  NoLine,     \* a path token without its :line: part
  HandPaths,  \* --failpath arguments given by hand (sequences of Token)
  PrefixPaths,\* --failpath arguments given together with --failtest
  ForkModes   \* whether fork() may return -1 (the process limit): a set of
              \* BOOLEANs, one run per value

ASSUME NoReport \subseteq Loc /\ 1 \in Pids

(* Exit codes: EXIT_SUCCESS, EXIT_SCRIPTFAIL, EXIT_FAILURE (barf),        *)
(* death by a signal, and EXIT_SILENT ("a descendant already reported").  *)
ExitStatus == {"SUCCESS", "SCRIPTFAIL", "FAILURE", "SIGNALLED", "SILENT"}
ExitOK == {"SUCCESS", "SCRIPTFAIL"}

(* The calls the program makes, as named by Step.                          *)
DecisionOps == {"fail", "once"}

VARIABLES
  pstate,            \* "unused", "running", "waiting" (in waitpid), "exited"
  parent,            \* pid of the parent (0 for the first process)
  child,             \* the child a waiting process waits for
  decisions,         \* the ledger: Seq of [location, tui_line, failed]
  hist,              \* results the program has seen, one per Step
  status,            \* exit status of an exited process
  failpath,          \* NoPath, or the number of path tokens consumed
  suppress_failtest, \* the nesting counter of suppressed regions
  fails,             \* injected failures counted by the heuristic
  excessive_fails,   \* the heuristic's threshold
  warned,            \* the one-time excessive-failure warning was logged
  failpoints,        \* number of unsuppressed, unreplayed calls
  failtest,          \* --failtest was given
  orig_failpath,     \* the --failpath argument, as a sequence of tokens
  nextPid,           \* the pid the next fork() returns
  reports,           \* paths printed by "Child ... on failure path"
  leaves,            \* processes that ended their script, in exit order
  phase,             \* "explore", "replay", "done"
  program,           \* the test program of this run, fixed
  forkCanFail        \* fork() can fail in this run (the process limit), fixed

procVars == <<pstate, parent, child, decisions, hist, status, failpath,
              suppress_failtest, fails, excessive_fails, warned, failpoints>>
vars == <<procVars, failtest, orig_failpath, nextPid, reports,
          leaves, phase, program, forkCanFail>>

-----------------------------------------------------------------------------
(* The path string.  failpath_string() prints every decision as           *)
(* "[location]:line:F" or "...:S"; a token is one such item.  do_failpath() *)
(* also accepts a token without the [location] or :line: part, lower-case *)
(* marks, and rejects any other mark.                                      *)
Marks == {"F", "f", "S", "s"}
Token == [loc : Loc \cup {NoTag}, line : Nat \cup {NoLine}, mark : Marks \cup {"?"}]

failpath_string(ledger) ==
  [i \in 1..Len(ledger) |->
     [loc  |-> ledger[i].location,
      line |-> ledger[i].tui_line,
      mark |-> IF ledger[i].failed THEN "F" ELSE "S"]]

(* A token matches the call at location l on script line n.               *)
TokenMatches(t, l, n) ==
  /\ t.loc \in {NoTag, l}
  /\ t.line \in {NoLine, n}
  /\ t.mark \in Marks

-----------------------------------------------------------------------------
Cur(p) == Step(program, hist[p])

Running(p) == pstate[p] = "running"

(* The call returns r to the program.                                      *)
Return(p, r) == hist' = [hist EXCEPT ![p] = Append(@, r)]

(* The process leaves its script with status st (exit() or barf()).       *)
ExitScript(p, st) ==
  /\ pstate' = [pstate EXCEPT ![p] = "exited"]
  /\ status' = [status EXCEPT ![p] = st]
  /\ leaves' = IF phase = "explore"
               THEN Append(leaves, [pid |-> p, hist |-> hist[p], status |-> st])
               ELSE leaves

(* suppress_failtest++ / suppress_failtest-- around a region (core.c main *)
(* during initialisation, register_sysctl_table, proc_cleanup).            *)
Suppress(p) ==
  /\ Running(p)
  /\ Cur(p).op = "suppress"
  /\ suppress_failtest' = [suppress_failtest EXCEPT ![p] = @ + 1]
  /\ Return(p, FALSE)
  /\ UNCHANGED <<pstate, parent, child, decisions, status, failpath, fails,
                 excessive_fails, warned, failpoints, failtest, orig_failpath,
                 nextPid, reports, leaves, phase, program, forkCanFail>>

Unsuppress(p) ==
  /\ Running(p)
  /\ Cur(p).op = "unsuppress"
  /\ suppress_failtest[p] > 0
  /\ suppress_failtest' = [suppress_failtest EXCEPT ![p] = @ - 1]
  /\ Return(p, FALSE)
  /\ UNCHANGED <<pstate, parent, child, decisions, status, failpath, fails,
                 excessive_fails, warned, failpoints, failtest, orig_failpath,
                 nextPid, reports, leaves, phase, program, forkCanFail>>

(* The program finishes (tui_run returns, or a script/expect failure, or  *)
(* a crash of the code under test).                                        *)
ProgramExit(p) ==
  /\ Running(p)
  /\ Cur(p).op = "exit"
  /\ ExitScript(p, Cur(p).status)
  /\ UNCHANGED <<parent, child, decisions, hist, failpath, suppress_failtest,
                 fails, excessive_fails, warned, failpoints, failtest,
                 orig_failpath, nextPid, reports, phase, program, forkCanFail>>

-----------------------------------------------------------------------------
(* Both entry points return false at once while suppress_failtest != 0.   *)
SuppressedCall(p) ==
  /\ Running(p)
  /\ Cur(p).op \in DecisionOps
  /\ suppress_failtest[p] > 0
  /\ Return(p, FALSE)
  /\ UNCHANGED <<pstate, parent, child, decisions, status, failpath,
                 suppress_failtest, fails, excessive_fails, warned, failpoints,
                 failtest, orig_failpath, nextPid, reports, leaves, phase, program, forkCanFail>>

(* should_i_fail_once in replay mode: the location already occurs as a    *)
(* [location] token in the consumed part of the original path (strstr on  *)
(* orig_failpath, found at or before the cursor).                          *)
ReplayedOnce(p, l) ==
  \E i \in 1..failpath[p] : orig_failpath[i].loc = l

(* do_failpath(): consume the next token of the path.                      *)
ReplayToken(p) ==
  LET s == Cur(p)
      t == orig_failpath[failpath[p] + 1]
  IN /\ Running(p)
     /\ s.op \in DecisionOps
     /\ suppress_failtest[p] = 0
     /\ failpath[p] # NoPath
     /\ s.op = "once" => ~ReplayedOnce(p, s.loc)
     /\ failpath[p] < Len(orig_failpath)
     /\ \/ /\ TokenMatches(t, s.loc, s.line)
           /\ failpath' = [failpath EXCEPT ![p] = @ + 1]
           /\ Return(p, t.mark \in {"F", "f"})
           /\ UNCHANGED <<pstate, status, leaves>>
        \/ /\ ~TokenMatches(t, s.loc, s.line)
           /\ ExitScript(p, "FAILURE")
           /\ UNCHANGED <<failpath, hist>>
     /\ UNCHANGED <<parent, child, decisions, suppress_failtest, fails,
                    excessive_fails, warned, failpoints, failtest,
                    orig_failpath, nextPid, reports, phase, program, forkCanFail>>

(* do_failpath() at the end of the string: failpath = NULL, return false. *)
ReplayEnd(p) ==
  LET s == Cur(p) IN
  /\ Running(p)
  /\ s.op \in DecisionOps
  /\ suppress_failtest[p] = 0
  /\ failpath[p] # NoPath
  /\ s.op = "once" => ~ReplayedOnce(p, s.loc)
  /\ failpath[p] = Len(orig_failpath)
  /\ failpath' = [failpath EXCEPT ![p] = NoPath]
  /\ Return(p, FALSE)
  /\ UNCHANGED <<pstate, parent, child, decisions, status, suppress_failtest,
                 fails, excessive_fails, warned, failpoints, failtest,
                 orig_failpath, nextPid, reports, leaves, phase, program, forkCanFail>>

(* should_i_fail_once in replay mode, location already replayed.           *)
ReplaySkipOnce(p) ==
  /\ Running(p)
  /\ Cur(p).op = "once"
  /\ suppress_failtest[p] = 0
  /\ failpath[p] # NoPath
  /\ ReplayedOnce(p, Cur(p).loc)
  /\ Return(p, FALSE)
  /\ UNCHANGED <<pstate, parent, child, decisions, status, failpath,
                 suppress_failtest, fails, excessive_fails, warned, failpoints,
                 failtest, orig_failpath, nextPid, reports, leaves, phase, program, forkCanFail>>

(* Variant: should_i_fail_once without its walk over the ledger.          *)
DecidedNever(p, l) == FALSE

(* should_i_fail_once in exploration mode: a decision at this location is *)
(* already in the ledger of this lineage.                                  *)
Decided(p, l) == \E i \in 1..Len(decisions[p]) : decisions[p][i].location = l

(* The call reaches the body of should_i_fail() in exploration mode.      *)
Explores(p) ==
  LET s == Cur(p) IN
  /\ Running(p)
  /\ s.op \in DecisionOps
  /\ suppress_failtest[p] = 0
  /\ failpath[p] = NoPath
  /\ s.op = "once" => ~Decided(p, s.loc)

OnceDecided(p) ==
  /\ Running(p)
  /\ Cur(p).op = "once"
  /\ suppress_failtest[p] = 0
  /\ failpath[p] = NoPath
  /\ Decided(p, Cur(p).loc)
  /\ Return(p, FALSE)
  /\ UNCHANGED <<pstate, parent, child, decisions, status, failpath,
                 suppress_failtest, fails, excessive_fails, warned, failpoints,
                 failtest, orig_failpath, nextPid, reports, leaves, phase, program, forkCanFail>>

(* failpoints++; without --failtest the call returns false.                *)
NoFailtest(p) ==
  /\ Explores(p)
  /\ ~failtest
  /\ failpoints' = [failpoints EXCEPT ![p] = @ + 1]
  /\ Return(p, FALSE)
  /\ UNCHANGED <<pstate, parent, child, decisions, status, failpath,
                 suppress_failtest, fails, excessive_fails, warned, failtest,
                 orig_failpath, nextPid, reports, leaves, phase, program, forkCanFail>>

(* Variant: the parent does not block in waitpid() but runs on.          *)
ForkNoWait(p) ==
  LET s == Cur(p)
      c == nextPid
      dec(f) == [location |-> s.loc, tui_line |-> s.line, failed |-> f]
  IN
  /\ Explores(p)
  /\ failtest
  /\ c \in Pids
  /\ pstate' = [pstate EXCEPT ![c] = "running"]
  /\ parent' = [parent EXCEPT ![c] = p]
  /\ child' = [child EXCEPT ![p] = c]
  /\ decisions' = [decisions EXCEPT ![p] = Append(@, dec(FALSE)),
                                    ![c] = Append(decisions[p], dec(TRUE))]
  /\ hist' = [hist EXCEPT ![c] = Append(hist[p], TRUE)]
  /\ nextPid' = c + 1
  /\ UNCHANGED <<status, failpath, suppress_failtest, fails, excessive_fails,
                 warned, failpoints, failtest, orig_failpath, reports, leaves,
                 phase, program, forkCanFail>>

(* With --failtest: check the excessive-failure heuristic, append a       *)
(* decision to the ledger and fork.  The child records failed = TRUE,     *)
(* counts the failure unless the location matches --failtest-no-report,   *)
(* and returns true (should_i_fail_once then raises excessive_fails); the *)
(* parent records failed = FALSE and blocks in waitpid().                  *)
Fork(p) ==
  LET s == Cur(p)
      c == nextPid
      dec(f) == [location |-> s.loc, tui_line |-> s.line, failed |-> f]
      warn == warned[p] \/ fails[p] > excessive_fails[p]
  IN
  /\ Explores(p)
  /\ failtest
  /\ c \in Pids
  /\ pstate' = [pstate EXCEPT ![p] = "waiting", ![c] = "running"]
  /\ parent' = [parent EXCEPT ![c] = p]
  /\ child' = [child EXCEPT ![p] = c]
  /\ decisions' = [decisions EXCEPT ![p] = Append(@, dec(FALSE)),
                                    ![c] = Append(decisions[p], dec(TRUE))]
  /\ hist' = [hist EXCEPT ![c] = Append(hist[p], TRUE)]
  /\ failpath' = [failpath EXCEPT ![c] = failpath[p]]
  /\ suppress_failtest' = [suppress_failtest EXCEPT ![c] = suppress_failtest[p]]
  /\ fails' = [fails EXCEPT ![c] = IF s.loc \in NoReport THEN fails[p]
                                                         ELSE fails[p] + 1]
  /\ excessive_fails' = [excessive_fails EXCEPT
                           ![c] = excessive_fails[p] + (IF s.op = "once" THEN 1 ELSE 0)]
  /\ warned' = [warned EXCEPT ![p] = warn, ![c] = warn]
  /\ failpoints' = [failpoints EXCEPT ![p] = @ + 1, ![c] = failpoints[p] + 1]
  /\ nextPid' = c + 1
  /\ UNCHANGED <<status, failtest, orig_failpath, reports, leaves, phase, program, forkCanFail>>

(* fork() returned -1: the decision is already in the ledger and the     *)
(* warning checked; barf_perror exits with EXIT_FAILURE, which the       *)
(* parent takes for a failure of the code under test.                   *)
ForkFails(p) ==
  LET s == Cur(p)
      warn == warned[p] \/ fails[p] > excessive_fails[p]
  IN
  /\ Explores(p)
  /\ failtest /\ forkCanFail
  /\ decisions' = [decisions EXCEPT ![p] = Append(@, [location |-> s.loc,
                                    tui_line |-> s.line, failed |-> FALSE])]
  /\ warned' = [warned EXCEPT ![p] = warn]
  /\ failpoints' = [failpoints EXCEPT ![p] = @ + 1]
  /\ ExitScript(p, "FAILURE")
  /\ UNCHANGED <<parent, child, hist, failpath, suppress_failtest, fails,
                 excessive_fails, failtest, orig_failpath, nextPid, reports,
                 phase, program, forkCanFail>>

(* waitpid() returned: the child exited with EXIT_SUCCESS or              *)
(* EXIT_SCRIPTFAIL, so the parent goes on with the call returning false.   *)
ResumeParent(p) ==
  /\ pstate[p] = "waiting"
  /\ pstate[child[p]] = "exited"
  /\ status[child[p]] \in ExitOK
  /\ pstate' = [pstate EXCEPT ![p] = "running"]
  /\ Return(p, FALSE)
  /\ UNCHANGED <<parent, child, decisions, status, failpath, suppress_failtest,
                 fails, excessive_fails, warned, failpoints, failtest,
                 orig_failpath, nextPid, reports, leaves, phase, program, forkCanFail>>

(* Variant: the parent prints its ledger as it is, last decision "S".     *)
ReportedLedgerUnflipped(p) == decisions[p]

(* The decision the parent prints: its own ledger with the last decision  *)
(* set back to failed, which is the child's path up to the fork.           *)
ReportedLedger(p) ==
  [decisions[p] EXCEPT ![Len(decisions[p])].failed = TRUE]

(* Variant: the EXIT_SILENT test is missing.                              *)
ReportsChildAlways(c) == TRUE

(* The parent prints the path unless the child exited EXIT_SILENT.        *)
ReportsChild(c) == status[c] # "SILENT"

(* The child died in another way: unless it exited EXIT_SILENT, print the *)
(* path; in both cases exit(EXIT_SILENT).                                  *)
ChildFailed(p) ==
  LET c == child[p] IN
  /\ pstate[p] = "waiting"
  /\ pstate[c] = "exited"
  /\ status[c] \notin ExitOK
  /\ IF ReportsChild(c)
     THEN /\ decisions' = [decisions EXCEPT ![p] = ReportedLedger(p)]
          /\ reports' = Append(reports,
                          [path |-> failpath_string(ReportedLedger(p)),
                           hist |-> hist[c], status |-> status[c]])
     ELSE UNCHANGED <<decisions, reports>>
  /\ pstate' = [pstate EXCEPT ![p] = "exited"]
  /\ status' = [status EXCEPT ![p] = "SILENT"]
  /\ UNCHANGED <<parent, child, hist, failpath, suppress_failtest, fails,
                 excessive_fails, warned, failpoints, failtest, orig_failpath,
                 nextPid, leaves, phase, program, forkCanFail>>

-----------------------------------------------------------------------------
(* The process table with only the process the user started.              *)
Only1 == [p \in Pids |-> IF p = 1 THEN "running" ELSE "unused"]
AllPids(v) == [p \in Pids |-> v]

Start(fp, ft) ==
  /\ pstate = Only1
  /\ parent = AllPids(0)
  /\ child = AllPids(0)
  /\ decisions = AllPids(<<>>)
  /\ hist = AllPids(<<>>)
  /\ status = AllPids("SUCCESS")
  /\ failpath = AllPids(fp)
  /\ suppress_failtest = AllPids(0)
  /\ fails = AllPids(0)
  /\ excessive_fails = AllPids(2)
  /\ warned = AllPids(FALSE)
  /\ failpoints = AllPids(0)
  /\ failtest = ft
  /\ nextPid = 2

(* nfsim --failtest script, or nfsim --failpath <path> script with a     *)
(* path typed by hand, or both options: the path is followed, then the    *)
(* rest is explored (nothing rejects the combination).                    *)
Init ==
  /\ \/ /\ Start(NoPath, TRUE)
        /\ orig_failpath = <<>>
        /\ phase = "explore"
     \/ /\ Start(0, FALSE)
        /\ orig_failpath \in HandPaths
        /\ phase = "replay"
     \/ /\ Start(0, TRUE)
        /\ orig_failpath \in PrefixPaths
        /\ phase = "explore"
  /\ reports = <<>>
  /\ leaves = <<>>
  /\ program \in Programs
  /\ forkCanFail \in ForkModes

(* The exploration is over and printed a path: rerun the same script with *)
(* nfsim --failpath <path> (cmdline_failpath sets failpath and             *)
(* orig_failpath).                                                         *)
StartReplay ==
  /\ phase = "explore"
  /\ pstate[1] = "exited"
  /\ reports # <<>>
  /\ pstate' = Only1
  /\ parent' = AllPids(0)
  /\ child' = AllPids(0)
  /\ decisions' = AllPids(<<>>)
  /\ hist' = AllPids(<<>>)
  /\ status' = AllPids("SUCCESS")
  /\ failpath' = AllPids(0)
  /\ suppress_failtest' = AllPids(0)
  /\ fails' = AllPids(0)
  /\ excessive_fails' = AllPids(2)
  /\ warned' = AllPids(FALSE)
  /\ failpoints' = AllPids(0)
  /\ failtest' = FALSE
  /\ nextPid' = 2
  /\ orig_failpath' = reports[1].path
  /\ phase' = "replay"
  /\ UNCHANGED <<reports, leaves, program, forkCanFail>>

Finish ==
  /\ phase # "done"
  /\ pstate[1] = "exited"
  /\ phase = "explore" => reports = <<>>
  /\ phase' = "done"
  /\ UNCHANGED <<procVars, failtest, orig_failpath, nextPid, reports, leaves,
                 program, forkCanFail>>

(* The harness has exited; nothing more happens.                           *)
Done ==
  /\ phase = "done"
  /\ UNCHANGED vars

Next ==
  \/ \E p \in Pids :
       \/ Suppress(p) \/ Unsuppress(p) \/ ProgramExit(p)
       \/ SuppressedCall(p)
       \/ ReplayToken(p) \/ ReplayEnd(p) \/ ReplaySkipOnce(p)
       \/ OnceDecided(p) \/ NoFailtest(p) \/ Fork(p) \/ ForkFails(p)
       \/ ResumeParent(p) \/ ChildFailed(p)
  \/ StartReplay \/ Finish \/ Done

Spec == Init /\ [][Next]_vars

-----------------------------------------------------------------------------
TypeOK ==
  /\ pstate \in [Pids -> {"unused", "running", "waiting", "exited"}]
  /\ parent \in [Pids -> Pids \cup {0}]
  /\ child \in [Pids -> Pids \cup {0}]
  /\ \A p \in Pids : \A i \in 1..Len(decisions[p]) :
       decisions[p][i] \in [location : Loc, tui_line : Nat, failed : BOOLEAN]
  /\ hist \in [Pids -> Seq(BOOLEAN)]
  /\ status \in [Pids -> ExitStatus]
  /\ failpath \in [Pids -> Nat \cup {NoPath}]
  /\ suppress_failtest \in [Pids -> Nat]
  /\ warned \in [Pids -> BOOLEAN]
  /\ \A i \in 1..Len(orig_failpath) : orig_failpath[i] \in Token
  /\ Cardinality({p \in Pids : pstate[p] = "running"}) <= 1
  /\ phase \in {"explore", "replay", "done"}
  /\ forkCanFail \in BOOLEAN

(* The reference exploration, after the spec of --failtest: every call    *)
(* outside a suppressed region is a decision point with two outcomes, a   *)
(* should_i_fail_once location is decided at most once per lineage, and   *)
(* each combination is run once.  DFS(prog, h) lists the result         *)
(* histories of all runs that begin with h, failure branch first.         *)
RECURSIVE SuppressDepth(_, _), IsDecisionPoint(_, _), DFS(_, _)
SuppressDepth(prog, h) ==
  IF h = <<>> THEN 0
  ELSE LET op == Step(prog, Front(h)).op
       IN SuppressDepth(prog, Front(h))
            + (IF op = "suppress" THEN 1 ELSE IF op = "unsuppress" THEN -1 ELSE 0)

IsDecisionPoint(prog, h) ==
  LET s == Step(prog, h) IN
  /\ s.op \in DecisionOps
  /\ SuppressDepth(prog, h) = 0
  /\ s.op = "once" =>
       \A i \in 0..Len(h) - 1 :
          ~(/\ IsDecisionPoint(prog, SubSeq(h, 1, i))
            /\ Step(prog, SubSeq(h, 1, i)).loc = s.loc)

DFS(prog, h) ==
  CASE Step(prog, h).op = "exit"    -> <<h>>
    [] IsDecisionPoint(prog, h)     -> DFS(prog, Append(h, TRUE))
                                         \o DFS(prog, Append(h, FALSE))
    [] OTHER                        -> DFS(prog, Append(h, FALSE))

(* Exhaustiveness of --failtest.  The runs that finish their script do so *)
(* one by one in the order of DFS, each combination exactly once; when    *)
(* the harness ends without a path to replay, all of them were run.      *)
(* Stated for runs in which fork() works: a failed fork ends the search  *)
(* by design (barf_perror), which OneReportPerFailure covers.            *)
(* Breaks if a suppressed region, the once-only rule, or the parent's     *)
(* resumption after waitpid() goes wrong.                                  *)
ExploresEveryPathOnce ==
  LET runs == [i \in 1..Len(leaves) |-> leaves[i].hist]
      all  == DFS(program, <<>>)
  IN ~forkCanFail =>
       /\ IsPrefix(runs, all)
       /\ (phase = "done" /\ orig_failpath = <<>>) => runs = all

(* Exactly one report per failure: a child that died unexpectedly is      *)
(* reported once, by its parent, and the EXIT_SILENT chain keeps every    *)
(* ancestor quiet; and a path is printed iff a forked child failed.        *)
OneReportPerFailure ==
  /\ Len(reports) <= 1
  /\ phase # "explore" =>
       (reports # <<>> <=>
          \E i \in 1..Len(leaves) : leaves[i].pid # 1 /\ leaves[i].status \notin ExitOK)

(* Replay fidelity: rerunning with --failpath on the printed path makes   *)
(* the program see the same result at every call as the child that died,  *)
(* and end the same way, although the path omits the decisions that child *)
(* made after the fork.  A failed fork() is a harness error that replay, *)
(* which never forks, cannot reproduce, so the runs where fork works are  *)
(* the ones stated.                                                        *)
ReplayReproducesFailure ==
  (~forkCanFail /\ phase = "replay" /\ reports # <<>> /\ pstate[1] = "exited") =>
     /\ hist[1] = reports[1].hist
     /\ status[1] = reports[1].status

=============================================================================
