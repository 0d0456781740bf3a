------------------------------ MODULE CmdLine ------------------------------
(***************************************************************************)
(* main()'s command line, src/core/core.c.                                 *)
(*                                                                         *)
(* Every cmdline_opt(name, has_arg, val, fn) of core.c, failtest.c and     *)
(* proc_stuff.c puts one entry into the `cmdline` link section, in link   *)
(* order.  get_cmdline_options copies the entries into getopt_long's      *)
(* option array, renumbering each val to the entry's index.               *)
(* get_cmdline_optstr writes the short options into an optstring.  main   *)
(* then calls getopt_long until EOF, and get_cmdline_option(c) maps its  *)
(* result back to an entry.  A result below '0' is an index (a long      *)
(* option); any other is a short option char, searched in the .val       *)
(* members.  The parse function of the entry runs.  After the options,    *)
(* argv[optind] is the script, and --failtest without a script barfs.     *)
(*                                                                         *)
(* getopt_long is glibc's: it permutes argv (non-option words are skipped *)
(* and found at optind afterwards), stops at "--", takes unique prefixes  *)
(* of long names, and returns '?' for an unknown or ambiguous option, a   *)
(* missing argument, or an argument given to an option that takes none.  *)
(* Words are abstracted to their kind: a long option's text (a string,  *)
(* with its "=value" if any), a group of short option chars, a          *)
(* plain word, or "--".                                                  *)
(***************************************************************************)
EXTENDS Integers, Sequences, SequencesExt, FiniteSets

CONSTANTS
  Tables,         \* the cmdline section in each possible link order: sequences of [name, has_arg, val]
  Argvs,          \* the argument vectors argv[1..argc-1]
  LongPrefix(_),  \* LongPrefix(t): the option names that the text t is a prefix of
  NoArg           \* optarg == NULL, and failpath / failtest_no_report unset

VARIABLES
  table,      \* the cmdline section of this build, fixed
  argv,       \* the command line, fixed
  cpc,        \* "getopt", "run" (past the options), "exited", "unknown" (barf "Unknown argument"), "dead" (another barf)
  optind,     \* getopt: the word it scans next; after EOF, the script's index
  nextchar,   \* getopt: the position in a group of short options, 0 outside one
  optargs,    \* getopt: the words taken as option arguments
  settings,   \* the globals that the parse functions set
  ran         \* ghost: the names of the entries whose parse function ran, in order

cmdVars == <<table, argv, cpc, optind, nextchar, optargs, settings, ran>>

Qmark == 63     \* '?'
Zero  == 48     \* '0'
EOF   == -1

N == Len(argv)
NOpts == Len(table)

-----------------------------------------------------------------------------
(* Variant: opts[x].val keeps the entry's own val (the renumbering lost). *)
RenumberKept(x) == table[x + 1].val

(* get_cmdline_options: opts[x] = copts[x].opt, then opts[x].val = x.    *)
Renumber(x) == x

Opts == [i \in 1..NOpts |-> [name    |-> table[i].name,
                             has_arg |-> table[i].has_arg,
                             val     |-> Renumber(i - 1)]]

(* Its barf: has_arg above 2, or a val or name equal to an earlier entry's *)
(* (the val compared is opts[y].val, already renumbered).                *)
OptionsBarf ==
  \E x \in 1..NOpts :
    \/ table[x].has_arg > 2
    \/ \E y \in 1..x-1 : \/ table[x].val # 0 /\ table[x].val = Opts[y].val
                         \/ table[x].name = Opts[y].name

(* get_cmdline_optstr: each non-zero val, followed by the last has_arg   *)
(* chars of "::".  strchr finds a char's first occurrence.               *)
OptColons(o) == o.has_arg

ShortChars == {table[x].val : x \in {y \in 1..NOpts : table[y].val # 0}}

ShortColons(c) == OptColons(table[Min({x \in 1..NOpts : table[x].val = c})])

(* get_cmdline_option: the entry (an index into table, 0 for NULL).      *)
GetCmdlineOption(c) ==
  IF c < Zero THEN c + 1
  ELSE LET xs == {x \in 1..NOpts : table[x].val = c}
       IN  IF xs = {} THEN 0 ELSE Min(xs)

-----------------------------------------------------------------------------
(* getopt_long's result: the value returned, optarg, and where it scans next. *)
Result(c, a, ind, nc, used) == [c |-> c, arg |-> a, ind |-> ind, nc |-> nc, used |-> used]

(* The next option word at or after i: non-option words are permuted away. *)
RECURSIVE FirstOpt(_)
FirstOpt(i) == IF i > N \/ argv[i].kind # "plain" THEN i ELSE FirstOpt(i + 1)

(* A long name: an exact match, else the only prefix match (several that *)
(* agree on has_arg and val count as one).                                *)
LongFound(t) ==
  LET ex == {x \in 1..NOpts : Opts[x].name = t}
      cs == IF ex # {} THEN {Min(ex)}
            ELSE {x \in 1..NOpts : Opts[x].name \in LongPrefix(t)}
  IN  IF cs # {} /\ \A x, y \in cs : Opts[x].has_arg = Opts[y].has_arg
                                      /\ Opts[x].val = Opts[y].val
      THEN Min(cs) ELSE 0

LongStep(i) ==
  LET w == argv[i]
      x == LongFound(w.text)
  IN  CASE x = 0                             -> Result(Qmark, NoArg, i + 1, 0, {})
        [] Opts[x].has_arg = 0 /\ w.arg # NoArg -> Result(Qmark, NoArg, i + 1, 0, {})
        [] Opts[x].has_arg = 0 \/ w.arg # NoArg -> Result(Opts[x].val, w.arg, i + 1, 0, {})
        [] Opts[x].has_arg = 2               -> Result(Opts[x].val, NoArg, i + 1, 0, {})
        [] i < N                             -> Result(Opts[x].val, argv[i + 1], i + 2, 0, {i + 1})
        [] OTHER                             -> Result(Qmark, NoArg, i + 1, 0, {})

(* The k-th char of a group -abc.  An argument is the rest of the group, *)
(* else (has_arg 1) the next word.                                        *)
ShortStep(i, k) ==
  LET cs   == argv[i].chars
      c    == cs[k]
      last == k = Len(cs)
      nxt  == IF last THEN <<i + 1, 0>> ELSE <<i, k + 1>>
      rest == [kind |-> "short", chars |-> SubSeq(cs, k + 1, Len(cs))]
  IN  CASE c \notin ShortChars  -> Result(Qmark, NoArg, nxt[1], nxt[2], {})
        [] ShortColons(c) = 0   -> Result(c, NoArg, nxt[1], nxt[2], {})
        [] ~last                -> Result(c, rest, i + 1, 0, {})
        [] ShortColons(c) = 2   -> Result(c, NoArg, i + 1, 0, {})
        [] i < N                -> Result(c, argv[i + 1], i + 2, 0, {i + 1})
        [] OTHER                -> Result(Qmark, NoArg, i + 1, 0, {})

(* At EOF optind is the first non-option word: one skipped over before,  *)
(* or any word after "--" (at index e).                                   *)
ScriptIndex(e) ==
  LET js == {j \in 1..N : \/ j < e /\ argv[j].kind = "plain" /\ j \notin optargs
                          \/ j > e}
  IN  IF js = {} THEN N + 1 ELSE Min(js)

GetoptLong ==
  IF nextchar > 0 THEN ShortStep(optind, nextchar)
  ELSE LET i == FirstOpt(optind) IN
       CASE i > N                   -> Result(EOF, NoArg, ScriptIndex(N + 1), 0, {})
         [] argv[i].kind = "end"    -> Result(EOF, NoArg, ScriptIndex(i), 0, {})
         [] argv[i].kind = "short"  -> ShortStep(i, 1)
         [] OTHER                   -> LongStep(i)

-----------------------------------------------------------------------------
(* The parse functions: the global each one sets, and to what (optarg    *)
(* for failpath and failtest-no-report).  help and version print and      *)
(* exit(EXIT_SUCCESS).                                                    *)
TakesOptarg == {"failpath", "failtest-no-report"}

Sets ==
  ("echo"               :> <<"tui_echo_commands", TRUE>>) @@
  ("quiet"              :> <<"tui_quiet", TRUE>>) @@
  ("exit"               :> <<"tui_abort_on_fail", TRUE>>) @@
  ("no-modules"         :> <<"load_modules", FALSE>>) @@
  ("failtest"           :> <<"failtest", TRUE>>) @@
  ("failpath"           :> <<"failpath", NoArg>>) @@
  ("failtest-no-report" :> <<"failtest_no_report", NoArg>>) @@
  ("ignore-proc-issues" :> <<"ignore_proc_issues", TRUE>>)

Defaults ==
  [tui_echo_commands |-> FALSE, tui_quiet |-> FALSE, tui_abort_on_fail |-> FALSE,
   load_modules |-> TRUE, failtest |-> FALSE, failpath |-> NoArg,
   failtest_no_report |-> NoArg, ignore_proc_issues |-> FALSE]

(* copt->parse(&copt->opt).  cmdline_failpath and                         *)
(* cmdline_failtest_no_report barf without optarg.                        *)
Parse(name, arg) ==
  CASE name \in {"help", "version"} ->
         cpc' = "exited" /\ UNCHANGED settings
    [] name \in TakesOptarg /\ arg = NoArg ->
         cpc' = "dead" /\ UNCHANGED settings
    [] OTHER ->
         /\ settings' = [settings EXCEPT ![Sets[name][1]] =
                           IF name \in TakesOptarg THEN arg ELSE Sets[name][2]]
         /\ UNCHANGED cpc

(* nfsim starts: get_cmdline_options and get_cmdline_optstr.             *)
CmdLineInit ==
  /\ table \in Tables
  /\ argv \in Argvs
  /\ cpc = IF OptionsBarf THEN "dead" ELSE "getopt"
  /\ optind = 1
  /\ nextchar = 0
  /\ optargs = {}
  /\ settings = Defaults
  /\ ran = <<>>

(* One turn of main's getopt_long loop that finds an entry: its parse    *)
(* function runs.                                                         *)
Dispatch ==
  LET r == GetoptLong
      x == GetCmdlineOption(r.c)
  IN  /\ cpc = "getopt"
      /\ r.c # EOF
      /\ x # 0
      /\ optind' = r.ind
      /\ nextchar' = r.nc
      /\ optargs' = optargs \cup r.used
      /\ ran' = Append(ran, table[x].name)
      /\ Parse(table[x].name, r.arg)
      /\ UNCHANGED <<table, argv>>

(* get_cmdline_option returns NULL: barf("Unknown argument").            *)
UnknownArgument ==
  LET r == GetoptLong IN
  /\ cpc = "getopt"
  /\ r.c # EOF
  /\ GetCmdlineOption(r.c) = 0
  /\ cpc' = "unknown"
  /\ optind' = r.ind
  /\ nextchar' = r.nc
  /\ optargs' = optargs \cup r.used
  /\ UNCHANGED <<table, argv, settings, ran>>

(* getopt_long returns EOF.  With a script, open(argv[optind]), which    *)
(* may fail (barf_perror); without one, --failtest barfs.                 *)
OptionsEnd ==
  LET r == GetoptLong IN
  /\ cpc = "getopt"
  /\ r.c = EOF
  /\ optind' = r.ind
  /\ IF r.ind <= N THEN cpc' \in {"run", "dead"}
     ELSE cpc' = IF settings.failtest THEN "dead" ELSE "run"
  /\ UNCHANGED <<table, argv, nextchar, optargs, settings, ran>>

(* After exit() or barf() nothing happens.                                *)
CmdLineHalted == cpc \in {"exited", "unknown", "dead"} /\ UNCHANGED cmdVars

CmdLineNext == Dispatch \/ UnknownArgument \/ OptionsEnd \/ CmdLineHalted

-----------------------------------------------------------------------------
CmdLineTypeOK ==
  /\ cpc \in {"getopt", "run", "exited", "unknown", "dead"}
  /\ optind \in 1..N + 2
  /\ nextchar \in Nat
  /\ optargs \subseteq 1..N
  /\ DOMAIN settings = DOMAIN Defaults
  /\ \A k \in {"load_modules", "failtest"} : settings[k] \in BOOLEAN
  /\ ran \in Seq({table[x].name : x \in 1..NOpts})

(* Reference: the options a user means by argv, read by name from the    *)
(* cmdline entries (not through the renumbered vals, the optstring or    *)
(* get_cmdline_option): a long name or its only prefix, the entry whose  *)
(* short char it is, taking its argument as has_arg says.  "?" is a word *)
(* that names no option or lacks its argument.                           *)
Named(t) ==
  LET ex == {x \in 1..NOpts : table[x].name = t}
      cs == IF ex # {} THEN ex ELSE {x \in 1..NOpts : table[x].name \in LongPrefix(t)}
  IN  IF Cardinality(cs) = 1 THEN CHOOSE x \in cs : TRUE ELSE 0

ShortNamed(c) ==
  LET xs == {x \in 1..NOpts : table[x].val = c} IN IF xs = {} THEN 0 ELSE Min(xs)

RECURSIVE Meant(_), MeantShort(_, _)
Meant(i) ==
  IF i > N \/ argv[i].kind = "end" THEN <<>>
  ELSE CASE argv[i].kind = "plain" -> Meant(i + 1)
         [] argv[i].kind = "short" -> MeantShort(i, 1)
         [] OTHER ->
              LET o == Named(argv[i].text)
                  takes == o # 0 /\ table[o].has_arg = 1 /\ argv[i].arg = NoArg
              IN  IF \/ o = 0
                     \/ table[o].has_arg = 0 /\ argv[i].arg # NoArg
                     \/ takes /\ i = N
                  THEN <<"?">>
                  ELSE <<table[o].name>> \o Meant(IF takes THEN i + 2 ELSE i + 1)

MeantShort(i, k) ==
  LET cs == argv[i].chars
      o  == ShortNamed(cs[k])
  IN  CASE o = 0                   -> <<"?">>
        [] table[o].has_arg = 0    -> <<table[o].name>> \o
                                        (IF k = Len(cs) THEN Meant(i + 1) ELSE MeantShort(i, k + 1))
        [] k < Len(cs)             -> <<table[o].name>> \o Meant(i + 1)
        [] table[o].has_arg = 2    -> <<table[o].name>> \o Meant(i + 1)
        [] i < N                   -> <<table[o].name>> \o Meant(i + 2)
        [] OTHER                   -> <<"?">>

(* Whatever the link order of the cmdline entries, main runs the parse   *)
(* functions of exactly the options the command line names, in its      *)
(* order: long options through their renumbered index, short ones through *)
(* the optstring and the .val search, options after the script and in    *)
(* groups included.  nfsim goes past the options only once all of them    *)
(* ran, and "Unknown argument" is barfed only at a word naming no option. *)
OptionsHonoured ==
  LET e == Meant(1) IN
  /\ IsPrefix(ran, e)
  /\ cpc = "run" => ran = e
  /\ cpc = "unknown" => Len(ran) < Len(e) /\ e[Len(ran) + 1] = "?"

====
