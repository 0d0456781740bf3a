----------------------------- MODULE NfsimMain -----------------------------
(***************************************************************************)
(* core.c main: the command line (CmdLine) and then the module registry   *)
(* (Modules).  Once getopt_long is done and the script is open, main     *)
(* loads every module unless --no-modules cleared load_modules; then the *)
(* TUI's commands run.  If main exits or barfs on its command line, no   *)
(* module is ever loaded.                                                 *)
(***************************************************************************)
EXTENDS Modules, CmdLine

allVars == <<vars, cmdVars>>

MainInit == Init /\ CmdLineInit

(* Between the options and the module loading, main's kernelenv_init,    *)
(* run_inits and netfilter_init touch neither component.                  *)
MainNext ==
  \/ CmdLineNext /\ UNCHANGED vars
  \/ cpc = "run" /\ StartupLoad(settings.load_modules) /\ UNCHANGED cmdVars
  \/ pc # "main" /\ Running /\ UNCHANGED cmdVars

(* The fairness of Modules' FairSpec: the bulk loops run to their end.    *)
MainSpec ==
  /\ MainInit /\ [][MainNext]_allVars
  /\ WF_vars(\E m \in Mods : LoadAllEntry(m))
  /\ WF_vars(LoadAllSweepEnd)
  /\ WF_vars(UnloadAllStep)

MainTypeOK == TypeOK /\ CmdLineTypeOK

====
