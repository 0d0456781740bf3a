------------------------------ MODULE Modules ------------------------------
(***************************************************************************)
(* The module registry of nfsim, src/tools/module.c.                      *)
(*                                                                         *)
(* Netfilter modules are shared objects in module_path.  load_mod         *)
(* dlopen()s one with RTLD_NOW, which fails while a module it needs is not *)
(* loaded, and puts it at the head of the `modules` list.  load_all_modules *)
(* (at start-up and for `insmod -a`) does not know the dependency order:  *)
(* it sweeps the directory again and again while a sweep loaded something. *)
(* unload_all_modules (at exit and for `rmmod -a`) walks the list from the *)
(* head, stopping at the first module still in use; `rmmod m` unloads one  *)
(* module.  try_module_get / module_put, called by the netfilter code when *)
(* a rule starts or stops using a module's match or target, keep the use  *)
(* count; try_module_get is a should_i_fail_once point.                   *)
(*                                                                         *)
(* The TUI is single-threaded: one command runs at a time.  A sweep of     *)
(* load_all_modules and a step of unload_all_modules are separate actions  *)
(* because readdir's order is arbitrary and because properties speak of   *)
(* the order in which modules go.                                         *)
(***************************************************************************)
EXTENDS Integers, Sequences, SequencesExt, FiniteSets

CONSTANTS
  Mods,      \* the *.so files in module_path
  Deps(_),   \* Deps(m): the modules whose symbols m needs (maybe not in Mods)
  MaxRefs,   \* bound on the rules using one module
  None

VARIABLES
  modules,   \* the list `modules`, head first
  use,       \* nfsim_module.use of each module
  refs,      \* references the netfilter code holds: rules using the module
  onceDone,  \* should_i_fail_once("try_module_get") has decided already
  pc,        \* "main" (start-up), "idle" (TUI), "loadall", "unloadall", "dead" (barf), "done"
  caller,    \* who runs load_all / unload_all: "main", "insmod", "rmmod", "exit"
  seen,      \* directory entries read in this sweep
  succeeded, \* num_succeeded of this sweep
  tried,     \* num_tried of this sweep
  lastLoad   \* ghost: the last load_all_modules: the loaded set it started
             \* from, its result, whether every init() succeeded, the end set

vars == <<modules, use, refs, onceDone, pc, caller, seen, succeeded, tried,
          lastLoad>>

Loaded == Range(modules)

(* Remove module m from the list (destroy_mod: list_del).                 *)
Without(s, m) == SelectSeq(s, LAMBDA x : x # m)

(* dlopen(RTLD_NOW) resolves every symbol: all needed modules are loaded. *)
Resolvable(m) == Deps(m) \subseteq Loaded

-----------------------------------------------------------------------------
(* Variant: load_mod adds at the tail of the list.                        *)
AddModTail(m) == modules' = Append(modules, m)

(* load_mod: list_add at the head, use = 0.                              *)
AddMod(m) == modules' = <<m>> \o modules

(* Start-up: core.c main before its module loading.                      *)
Init ==
  /\ modules = <<>>
  /\ use = [m \in Mods |-> 0]
  /\ refs = [m \in Mods |-> 0]
  /\ onceDone = FALSE
  /\ seen = {}
  /\ succeeded = 0
  /\ tried = 0
  /\ lastLoad = [start |-> {}, res |-> None, inits |-> TRUE, set |-> {}]
  /\ pc = "main"
  /\ caller = "main"

(* main: `if (load_modules && !load_all_modules()) barf(...)`, in the    *)
(* suppressed region (init cannot be made to fail), then tui_run.  The  *)
(* flag is cleared by --no-modules.                                      *)
StartupLoad(load_modules) ==
  /\ pc = "main"
  /\ pc' = IF load_modules THEN "loadall" ELSE "idle"
  /\ caller' = IF load_modules THEN "main" ELSE None
  /\ UNCHANGED <<modules, use, refs, onceDone, seen, succeeded, tried, lastLoad>>

(* load_all_modules returns r: main barfs on failure; insmod -a returns.  *)
LoadAllReturn(r, inits) ==
  /\ pc' = IF caller = "main" /\ ~r THEN "dead" ELSE "idle"
  /\ lastLoad' = [lastLoad EXCEPT !.res = r, !.inits = inits, !.set = Loaded]

(* insmod -a.                                                              *)
InsmodAll ==
  /\ pc = "idle"
  /\ pc' = "loadall"
  /\ caller' = "insmod"
  /\ seen' = {}
  /\ succeeded' = 0
  /\ tried' = 0
  /\ lastLoad' = [start |-> Loaded, res |-> None, inits |-> TRUE, set |-> {}]
  /\ UNCHANGED <<modules, use, refs, onceDone>>

(* load_all_modules: the next directory entry m of this sweep.  Skip it   *)
(* if loaded; otherwise num_tried++, dlopen, and on success init(): a     *)
(* failing init frees the module and returns false at once (outside main, *)
(* where failures are suppressed, it can be made to fail).                *)
LoadAllEntry(m) ==
  /\ pc = "loadall"
  /\ m \in Mods \ seen
  /\ seen' = seen \cup {m}
  /\ IF m \in Loaded \/ ~Resolvable(m)
     THEN /\ tried' = IF m \in Loaded THEN tried ELSE tried + 1
          /\ UNCHANGED <<modules, use, succeeded, pc, lastLoad>>
     ELSE /\ tried' = tried + 1
          /\ \/ /\ AddMod(m)
                /\ use' = [use EXCEPT ![m] = 0]
                /\ succeeded' = succeeded + 1
                /\ UNCHANGED <<pc, lastLoad>>
             \/ /\ caller # "main"
                /\ UNCHANGED <<modules, use, succeeded>>
                /\ LoadAllReturn(FALSE, FALSE)
  /\ UNCHANGED <<refs, onceDone, caller>>

(* Variant: load_all_modules without the do ... while: one sweep only.    *)
LoadAllSweepEndOnce ==
  /\ pc = "loadall"
  /\ seen = Mods
  /\ LoadAllReturn(tried = 0, TRUE)
  /\ UNCHANGED <<seen, succeeded, tried, modules, use, refs, onceDone, caller>>

(* Variant: the do ... while tests num_tried instead of num_succeeded.   *)
LoadAllSweepEndTried ==
  /\ pc = "loadall"
  /\ seen = Mods
  /\ IF tried # 0
     THEN /\ seen' = {}
          /\ succeeded' = 0
          /\ tried' = 0
          /\ UNCHANGED <<pc, lastLoad>>
     ELSE /\ LoadAllReturn(tried = 0, TRUE)
          /\ UNCHANGED <<seen, succeeded, tried>>
  /\ UNCHANGED <<modules, use, refs, onceDone, caller>>

(* End of a sweep: rewinddir and sweep again while something loaded;     *)
(* then return num_tried == 0.                                            *)
LoadAllSweepEnd ==
  /\ pc = "loadall"
  /\ seen = Mods
  /\ IF succeeded # 0
     THEN /\ seen' = {}
          /\ succeeded' = 0
          /\ tried' = 0
          /\ UNCHANGED <<pc, lastLoad>>
     ELSE /\ LoadAllReturn(tried = 0, TRUE)
          /\ UNCHANGED <<seen, succeeded, tried>>
  /\ UNCHANGED <<modules, use, refs, onceDone, caller>>

(* Variant: insmod without the find_module "already loaded" check.       *)
InsmodTwice(m) ==
  /\ pc = "idle"
  /\ Resolvable(m)
  /\ AddMod(m)
  /\ use' = [use EXCEPT ![m] = 0]
  /\ UNCHANGED <<refs, onceDone, pc, caller, seen, succeeded, tried, lastLoad>>

(* insmod m: load_mod and init().  "Already loaded", a failing dlopen and *)
(* a failing init() (which frees the module again) return false with no  *)
(* change: stuttering steps.                                              *)
Insmod(m) ==
  /\ pc = "idle"
  /\ m \notin Loaded
  /\ Resolvable(m)
  /\ AddMod(m)
  /\ use' = [use EXCEPT ![m] = 0]
  /\ UNCHANGED <<refs, onceDone, pc, caller, seen, succeeded, tried, lastLoad>>

(* module_unload: run pending timers, fini(), talloc_free -> list_del.    *)
Unload(m) == modules' = Without(modules, m)

(* rmmod m: find_module, then module_unload; the use count is not read.   *)
(* Its help text leaves it to the caller to unload the modules using m    *)
(* first; that precondition is the second guard.                         *)
Rmmod(m) ==
  /\ pc = "idle"
  /\ m \in Loaded
  /\ \A d \in Loaded : m \notin Deps(d)
  /\ Unload(m)
  /\ UNCHANGED <<use, refs, onceDone, pc, caller, seen, succeeded, tried,
                 lastLoad>>

(* rmmod -a, and the end of main after tui_run: unload_all_modules.       *)
UnloadAllStart(who) ==
  /\ pc = "idle"
  /\ pc' = "unloadall"
  /\ caller' = who
  /\ UNCHANGED <<modules, use, refs, onceDone, seen, succeeded, tried,
                 lastLoad>>

(* unload_all_modules returns: rmmod -a goes back to the TUI, main ends.  *)
UnloadAllReturn == pc' = IF caller = "exit" THEN "done" ELSE "idle"

(* One iteration of unload_all_modules over the list from its head: stop  *)
(* with false at a module in use, else unload it; true at the end.        *)
UnloadAllStep ==
  /\ pc = "unloadall"
  /\ IF modules = <<>> \/ use[Head(modules)] # 0
     THEN UnloadAllReturn /\ UNCHANGED modules
     ELSE Unload(Head(modules)) /\ UNCHANGED pc
  /\ UNCHANGED <<use, refs, onceDone, caller, seen, succeeded, tried, lastLoad>>

(* A netfilter rule starts using module m (a match or target it          *)
(* registered): try_module_get.  should_i_fail_once decides once per run *)
(* whether it fails (returning 0: no reference taken); else use++.  A    *)
(* rule can only name a match or target of a loaded module, so the       *)
(* "Unknown module get" barf is not reachable.                           *)
TryModuleGet(m) ==
  /\ pc = "idle"
  /\ m \in Loaded
  /\ refs[m] < MaxRefs
  /\ onceDone' = TRUE
  /\ \/ /\ ~onceDone
        /\ UNCHANGED <<use, refs>>
     \/ /\ use' = [use EXCEPT ![m] = @ + 1]
        /\ refs' = [refs EXCEPT ![m] = @ + 1]
  /\ UNCHANGED <<modules, pc, caller, seen, succeeded, tried, lastLoad>>

(* The rule goes: module_put.  barf if m is not loaded or its use is 0.  *)
ModulePut(m) ==
  /\ pc = "idle"
  /\ refs[m] > 0
  /\ refs' = [refs EXCEPT ![m] = @ - 1]
  /\ IF m \notin Loaded \/ use[m] = 0
     THEN pc' = "dead" /\ UNCHANGED use
     ELSE use' = [use EXCEPT ![m] = @ - 1] /\ UNCHANGED pc
  /\ UNCHANGED <<modules, onceDone, caller, seen, succeeded, tried, lastLoad>>

(* After barf, or once main has returned, nothing happens.                *)
Halted == pc \in {"dead", "done"} /\ UNCHANGED vars

(* Every step after main's start-up.                                       *)
Running ==
  \/ InsmodAll
  \/ \E m \in Mods : LoadAllEntry(m)
  \/ LoadAllSweepEnd
  \/ \E m \in Mods : Insmod(m) \/ Rmmod(m) \/ TryModuleGet(m) \/ ModulePut(m)
  \/ UnloadAllStart("rmmod")
  \/ UnloadAllStart("exit")
  \/ UnloadAllStep
  \/ Halted

Next == \/ \E b \in BOOLEAN : StartupLoad(b)
        \/ Running

Spec == Init /\ [][Next]_vars

(* load_all_modules and unload_all_modules are loops of one thread that  *)
(* waits for nothing (dlopen, init and fini return): once running, each  *)
(* goes on taking its steps.  The TUI's own commands get no fairness.    *)
FairSpec ==
  /\ Spec
  /\ WF_vars(\E m \in Mods : LoadAllEntry(m))
  /\ WF_vars(LoadAllSweepEnd)
  /\ WF_vars(UnloadAllStep)

-----------------------------------------------------------------------------
TypeOK ==
  /\ IsInjective(modules)
  /\ Loaded \subseteq Mods
  /\ use \in [Mods -> Nat]
  /\ refs \in [Mods -> 0..MaxRefs]
  /\ onceDone \in BOOLEAN
  /\ pc \in {"main", "idle", "loadall", "unloadall", "dead", "done"}
  /\ caller \in {"main", "insmod", "rmmod", "exit", None}
  /\ seen \subseteq Mods
  /\ succeeded \in Nat /\ tried \in Nat

(* Reference: the modules that can be loaded starting from S, added one  *)
(* at a time in any order as their needs are met (a least fixpoint).     *)
RECURSIVE Closure(_)
Closure(S) ==
  LET more == {m \in Mods \ S : Deps(m) \subseteq S}
  IN  IF more = {} THEN S ELSE Closure(S \cup more)

(* load_all_modules, whatever order readdir returns the files in and     *)
(* whatever was loaded before `insmod -a`, ends with exactly the modules  *)
(* loadable from what was there (every module whose needs are met, none  *)
(* other), when no init() failed; and it returns true exactly when that  *)
(* is every module in module_path.                                       *)
LoadAllComplete ==
  lastLoad.res \in BOOLEAN /\ lastLoad.inits =>
     /\ lastLoad.set = Closure(lastLoad.start)
     /\ lastLoad.res = (lastLoad.set = Mods)

(* unload_all_modules (rmmod -a and the end of main) never unloads a      *)
(* module while a module that needs it stays loaded: the list, built by   *)
(* list_add at the head, is in reverse dependency order.                  *)
UnloadAllOrder ==
  [][pc = "unloadall" =>
       \A m \in Loaded \ Loaded' : \A d \in Loaded' : m \notin Deps(d)]_vars

(* A module some netfilter rule holds a reference to stays loaded, and    *)
(* its use count is the number of such references: module_put then finds *)
(* the module and never puts too far (the check unload_all_modules makes *)
(* before unloading).                                                    *)
RefsPinModule ==
  \A m \in Mods : refs[m] > 0 => m \in Loaded /\ use[m] = refs[m]

(* load_all_modules returns, whatever order readdir gives and however   *)
(* many files can never load: a sweep that loaded nothing ends the      *)
(* do ... while, and every other sweep loads one more of finitely many.  *)
(* unload_all_modules returns too, at the end of the list or at the     *)
(* first module in use.                                                  *)
BulkCallsReturn ==
  /\ (pc = "loadall") ~> (pc # "loadall")
  /\ (pc = "unloadall") ~> (pc # "unloadall")

====
