# TLA+ models of nfsim

nfsim runs the Linux netfilter code in user space and drives it from a test
script (the TUI). Two parts of it are concurrent and hard to test:

* the **fault controller** (`src/core/failtest.c`). With `--failtest`,
  every *fail point* (`should_i_fail`, `should_i_fail_once`) forks. The child
  takes the failure and the parent waits, then takes the success. The result
  is a depth-first walk of every combination of injected failures, one process
  per branch. A child that crashes has its *failure path* printed by its
  parent, as `[loc]:line:F...`. `--failpath` replays such a path without forking.
* the **message bridge** (`src/core/message.c`, `src/core/fakesockopt.c`,
  `src/tools/iptables.c`). The TUI command `iptables` starts the real
  iptables binary with `fakesockopt.so` preloaded. Its `getsockopt` and
  `setsockopt` calls travel over a socket pair to nfsim. nfsim answers them,
  calling back with `COPY_TO_USER` and `COPY_FROM_USER` kernelops. When a
  fail point forks nfsim while iptables is attached, `fork_other_program`
  sends `KOP_FORK` and two fresh descriptors. The peer forks as well
  (`do_fork`), and the peer parent later relays its child's exit status as
  `SYS_EXIT`.

The two interact through fail points: `copy_to_user` and `copy_from_user`
are fail points, and the forking child calls `fork_other_program`.

main's command line selects what runs: its option table is assembled
from link sections and parsed with getopt_long, and `--no-modules` decides
whether the modules are loaded. The rest is the single-threaded TUI and
the kernel environment that modules call: the module registry, the /proc tree with its sysctl files,
and the network commands (`ifconfig`, `route`, `hook`, `gen_ip`, `queue`,
`tcpsession`). Each of these is modelled as one step per command, since
the TUI runs commands one at a time. The hard cases there are command
sequences, undefined reads of freed memory, and machine arithmetic.

## Inventory

| Component | Source | State | Operations | Status |
|---|---|---|---|---|
| Fault controller | failtest.c | `decisions` ledger, `failpath`/`orig_failpath`, `suppress_failtest`, `fails`, `excessive_fails`, `warned`, `failpoints`, process tree | should_i_fail, should_i_fail_once, do_failpath, fork/waitpid/report, cmdline options | modelled (`FailTest`) |
| Suppression regions | core.c main, proc_stuff.c | `suppress_failtest` | ++/-- around init, sysctl and proc cleanup | modelled as program steps |
| Message bridge | message.c, iptables.c | `msg_fd`, `io_fd`, `pid`, status | start_program, handle_userspace_message, copy_*, wait_for_output, run_command | partly (`Bridge`) |
| Fork coordinator | message.c, fakesockopt.c | socket pairs per generation | fork_other_program, do_fork, SYS_EXIT relay | modelled (`Bridge`) |
| Syscall interposer | fakesockopt.c | `sd` | fake_syscall, handle_kernelop, get/setsockopt | partly (`Bridge`) |
| Module registry | tools/module.c | module list, `use` counts | load_all_modules, insmod, rmmod, try_module_get, module_put, unload_all_modules | modelled (`Modules`) |
| Command line | core.c main, the cmdline_opt entries of core.c, failtest.c, proc_stuff.c | the option table, getopt position, the globals the parse functions set | get_cmdline_options, get_cmdline_optstr, get_cmdline_option, the getopt_long loop, the parse functions, the script check; composed with `Modules` through `load_modules` | modelled (`CmdLine`, `NfsimMain`) |
| Integer sysctl files | kernelenv/proc_stuff.c, tools/proc.c | the `ctl_table`, its `int` array | proc cat, proc write through proc_opensys, do_rw_proc (with ctl_perm) and the three proc_dointvec handlers | modelled (`Sysctl`) |
| /proc tree | kernelenv/proc_stuff.c, core.c | entries, subdir lists, `table->de` | create_proc_entry, proc_mkdir, remove_proc_entry, register/unregister_sysctl_table, find_proc_entry, `proc cat` through proc_file_read, proc_cleanup | modelled (`ProcTree`) |
| Network interfaces | tools/ifconfig.c, core.c | `interfaces`, `ifindex_counter`, each device's in_ifaddr | core_init, interface_by_name, create_device, set_device, ifconfig up/down/reconfigure | modelled (`Ifconfig`) |
| Routing table | tools/route.c | `routes`, freed routes | route add/del/print, get_route_dest, the device routes of create_device | modelled (`Route`) |
| Test hooks and packet queue | tools/hook.c, tools/queue.c, core.c, tools/gen_ip.c | `hooks`, `nfsim_queue`, `queueid` | hook, gen_ip's send_packet, enqueue, queue VERDICT [ID], hook_post_cleanup | modelled (`Hooks`) |
| TCP session generator | tools/tcpsession.c, tools/gen_ip.c | `curr` (seq/ack per side, lenchange) | OPEN, DATA, LENCHANGE, CLOSE, RESET, ABANDON | modelled (`TcpSession`, refines `TcpStream`) |
| Packet parsing, rest of kernelenv, other tools, field.c | gen_ip.c, kernelenv, tools | packet bytes and kernel tables | commands | not modelled: sequential data processing; their fail points appear as abstract decision points |

The hazards that each part is exposed to are listed in `PROJECT.json`. Each
one names its line and the properties that cover it, or why none covers it yet.

## Module `FailTest` (with `MCFailTest`)

**State.** These variables are per process, indexed by pid: `pstate` (unused,
running, waiting, exited), `parent`, `child`, `decisions` (the ledger: a
sequence of `[location, tui_line, failed]`), `hist` (the results the program
has received from its fail points), `status`, `failpath`, and the C globals
`suppress_failtest`, `fails`, `excessive_fails`, `warned` and `failpoints`. A
forked child inherits them all, as in `fork()`. The harness-wide variables
are:

* `failtest` and `orig_failpath`, set by the command line;
* `nextPid`;
* `reports` (what parents printed);
* `leaves` (every process exit during exploration);
* `phase` (explore, then replay of the printed path, then done);
* `program`.

**The program.** The code under test is the constant operator
`Step(program, hist)`. Given the fail-point results a process has seen, it
says what that process does next:

* a `fail` call (should_i_fail) or a `once` call (should_i_fail_once) at a
  location and line;
* `suppress` or `unsuppress`;
* `exit` with a status.

`MCFailTest` gives a ten-step script, which has:

* a branch that ends in a script failure;
* a suppressed region;
* a `once` location met twice;
* a location in `--failtest-no-report`.

`Programs` contains this script without a bug, and also the same script with
a crash (SIGNALLED or FAILURE) planted at every reachable history. The
exploration therefore meets crashes at every depth of the fork tree.

**Actions**, each one a whole path through the C function:

| Action | Code |
|---|---|
| `SuppressedCall` | early `return false` while `suppress_failtest` |
| `ReplayToken`, `ReplayEnd` | `do_failpath`: tag and line checks (barf on mismatch), mark, end of string |
| `ReplaySkipOnce` | should_i_fail_once, replay: location already in the consumed prefix |
| `OnceDecided` | should_i_fail_once, exploration: location already in the ledger |
| `NoFailtest` | `failpoints++`, no `--failtest` |
| `Fork` | warning check, ledger append, fork; the child records F, `fails++` unless no-report, returns true (`excessive_fails++` for once); the parent records S and blocks |
| `ResumeParent` | waitpid saw SUCCESS or SCRIPTFAIL: return false |
| `ChildFailed` | otherwise: unless the child exited SILENT, flip the last decision to F and print `failpath_string()`; in both cases exit SILENT |
| `Suppress`, `Unsuppress`, `ProgramExit` | steps of the program (core.c main) |
| `StartReplay`, `Finish` | the user reruns with `--failpath <printed path>`; the harness ends |

A path is a sequence of tokens `[loc, line, mark]`. Here `loc` may be
`NoTag` and `line` may be `NoLine`, which are the optional `[..]` and `:n:`
parts of the string. The hand-written paths in `HandPaths` exercise each
branch of `do_failpath`:

* untagged lowercase marks;
* a wrong location;
* a wrong line;
* an unknown mark.

**Properties** (run `failtest`, `MCFailTest.cfg`):

* `TypeOK`: this also says at most one process runs at a time. Without it,
  parent and child would both drive the script.
* `ExploresEveryPathOnce`: the sequence of exits is always a prefix of the
  reference depth-first enumeration `DFS(program, <<>>)`, with the failure
  branch first. When exploration ends without a report, the sequence equals
  that enumeration. `DFS` is a recursive operator written from the spec's
  description of the search, independently of the actions. So the exploration
  visits every failure combination exactly once, in order.
* `OneReportPerFailure`: at most one path is printed, and one is printed
  exactly when some forked process crashed. This relies on the EXIT_SILENT
  chain that keeps every ancestor above the reporter quiet.
* `ReplayReproducesFailure`: replaying the printed path with `--failpath`
  gives the root process the crashing child's exact fail-point results and
  exit status.

Each property has a mutant, a plausible bug in the code that TLC catches
(see `PROJECT.json`):

* the parent does not wait;
* should_i_fail_once forgets the ledger walk;
* the EXIT_SILENT test is missing;
* the last decision is not flipped back to F.

**Bounds.** `Pids` has 17 processes, enough for the full tree of the
bug-free script: 8 decisions on the longest path, with script failures
pruning a branch. The script holds every kind of call and both fail-point
entry points. Crashes are planted at every reachable history, about 100
initial programs. There are 6 locations, one of them no-report. The run
reaches about 17,000 distinct states (both fork modes) in about 12 s.

**Fairness.** Exploration is a single sequential process tree (exactly one
process runs), so no liveness is claimed. `Done` lets the finished harness
stutter, so deadlock checking stays on and catches a tree that stops with a
waiting parent whose child never exits.

**The warning.** Spec §4.1 says that when failures greatly outnumber their
once-only counterparts "a one-time warning is logged". The code keeps
`warned` in a static, and `fork()` copies it, so every lineage that passes
the threshold before any ancestor did warns again. `FailTest` keeps `warned`
per process as the code does. The warning is log output and changes no
decision, so no run checks it.

**Fork failure.** The variable `forkCanFail` is chosen in `Init` from the
constant `ForkModes` and never changes. When it is TRUE, `ForkFails` is
enabled. This models fork() returning -1 (the process limit) at a decision
point: the decision is already in the ledger, and `barf_perror` exits with
EXIT_FAILURE. The `failtest` run takes both values, so half of its
behaviours have a fork that can fail at every decision. In those
behaviours, `OneReportPerFailure` checks that the report chain survives:
each dead child, including one whose fork failed, is reported exactly once.
`ExploresEveryPathOnce` and `ReplayReproducesFailure` are stated only for
runs where fork works. A failed fork ends the search on purpose. The parent
still prints a failure path for what is a harness error, and since replay
does not fork, replaying that path runs to a clean exit. This is listed as
a hazard: the spec calls harness errors fatal but not bugs of the code
under test, and never says how a parent tells the two apart.

**Exploring after a path (run `failtest_failpath`, `MCFailTestPath.cfg`,
expected violation).** Nothing rejects `--failtest` given together with
`--failpath`. The constant `PrefixPaths` adds initial states in which both
are set. `should_i_fail` then answers every call from the path
(failtest.c:258) and explores only after the path ends. The decisions
followed from the path never enter the `decisions` ledger. A crash found
later is reported with the explored suffix alone. With the prefix
`[A]:1:S`, the report is `[B]:3:F`, and `ReplayReproducesFailure` fails:
replaying that string diverges at the first call. This is recorded as a
spec/code divergence.

## Module `Bridge` (with `MCBridge`)

**State.** Harness processes (nfsim) and peer processes (iptables with
fakesockopt.so) have separate pid sets. Per harness process:

* `hpc`: its control point (running the script, in `wait_for_output`,
  handling a sockopt, waiting in `waitpid`, waiting for a kernelop ack, or
  back from `run_command`);
* `hch` (`msg_fd`), `hpeer` (`pid`) and `hstatus` (run_command's `status`),
  where `None` stands for -1;
* `hop`: the call being handled, the next copy, and whether a copy failed;
* `hholds`: the socket ends it holds.

Per peer process:

* `ppc`;
* `pch` (`sd`);
* `psc` (which of its calls it is at);
* `pchild` and `pnew` (do_fork's child and its `msg_fd`);
* `pholds`.

A channel is one socket pair, named by the harness process that created it.
`toH` and `toP` are the two FIFO directions, holding whole messages:

* SYSCALL, SYS_EXIT and the kernelop ack towards the harness;
* reply, KERNELOP and KOP_FORK towards the peer.

A read sees EOF when its queue is empty and no process holds the other end.
A KOP_FORK in flight counts as holding the peer end it carries. `hsent` and
`pres` are ghost histories of replies, and `started` records which harness
started which peer (`waitpid` only works on one's own child).

**Actions.**

| Action | Code |
|---|---|
| `StartProgram` | run_command → start_program |
| `WaitSyscall`, `WaitExit` | handle_userspace_message(status): SYSCALL, SYS_EXIT |
| `WaitEOF`, `WaitedStatus` | wait_for_output's exit: close, waitpid fallback, `pid = -1` |
| `CopyFork` | copy_* → should_i_fail forks: child runs fork_other_program, parent waits |
| `CopyForkSendFails` | the same, with the peer gone: send_fd fails, the child barfs (EXIT_FAILURE) |
| `Reply`, `Write` | write of the reply after nf_{get,set}sockopt; EPIPE is ignored (SIGPIPE blocked by message_init) |
| `ForkResume`, `ForkReport` | parent after waitpid: copy goes ahead, or exit SILENT |
| `KopAck` | send_userspace_message → handle_userspace_message(NULL) |
| `KopEOF` | the same read sees EOF; the result is ignored and the copy returns 0 |
| `Crash` | the code under test crashes on the injected failure |
| `HarnessEnd` | run_command returns and the script ends |
| `Call`, `RecvReply`, `RecvKop`, `RecvEOF` | fake_syscall and handle_kernelop |
| `KopFault` | handle_kernelop's memcpy faults on a bad user address: SIGSEGV (`KopCanFault`) |
| `RecvFork`, `Relay` | do_fork (recv_fd ×2, fork), then SYS_EXIT relay and close |
| `PeerEnd` | iptables exits 0 after its calls, or 1 after an error reply |

The stdout pipe is not a separate variable. On the peer side its write end
is held by exactly the processes that hold the socket's peer end, so its EOF
coincides with the socket's. The two `send_fd` messages are folded into
KOP_FORK.

**Properties** (run `bridge`, `MCBridge.cfg`):

* `TypeOK`: this includes that at most one harness process runs.
* `StatusRelayed`: when `run_command` returns in any harness process, its
  status is the exit status of *that process's own* iptables. For the root
  it comes through `waitpid`. For a forked harness, waitpid would fail
  (ECHILD), so it comes through the SYS_EXIT that do_fork's parent relays.
  Breaking this takes a fork on both sides, the peer child's exit, the relay
  and the EOF, in that order. It holds also when iptables dies in
  handle_kernelop and the harness's copy silently "succeeds" (message.c:284):
  run_command still returns the SIGSEGV status.
* `NoExitMidKernelop`: no SYS_EXIT is queued towards a harness that waits
  in send_userspace_message. That call passes `status` NULL, so a SYS_EXIT
  there would write through NULL (message.c:253). The only sender is a
  do_fork parent relaying its child's death. The property holds even with
  `KopFault`, because a harness child takes its failure first and iptables
  exits on the -EFAULT reply. No harness child therefore ever talks to a peer
  child in a kernelop. The mutant in which the peer carries on after an
  error reply breaks it.
* `AllTerminate`: under weak fairness per process, every process exits. The
  harness waits for EOF while the old descriptors leak, the peer parent waits
  for its child, and the harness parent waits for its child. None of these
  waits may close a cycle. Each process is a separate OS process, so the OS
  runs any process that can run, which justifies the fairness.

Mutants: the parent does not wait; SYS_EXIT carries 0; do_fork's parent
does not close the child's socket (everyone then waits forever); iptables
continues after an error reply.

**Fault model.** `KopCanFault = TRUE` lets any COPY_TO_USER or
COPY_FROM_USER kill iptables, as a bad user pointer from the netfilter code
under test would. After such a fault in the root lineage, the next copy
fail point forks a child whose fork_other_program fails in send_fd
(message.c:65). Its parent then prints that child's path as a failure of
the code under test.

**Bounds.** The peer makes calls get, set, get, with two, one and two copies.
That gives five fail points on the all-success path. The harness child
either replies -EFAULT or crashes, and the peer exits on an error. Six
harness and six peer pids are enough for the whole tree, at 145 states with
faults.
Every branch of the modelled code is taken.

## Modules `Modules`, `CmdLine` and `NfsimMain` (with `MCModules`)

**State.**

* `modules`: the `modules` list, head first;
* `use`: the `use` field of each module;
* `refs`: the references the netfilter code holds, one per rule using a
  module's match or target;
* `onceDone`: whether should_i_fail_once("try_module_get") has decided;
* `pc` and `caller`: main is before its module loading (`main`), the TUI is idle, or inside `load_all_modules` or
  `unload_all_modules`, called by main, `insmod -a`, `rmmod -a` or the end of
  main; `dead` is a barf;
* `seen`, `succeeded` and `tried`: the directory sweep in progress, with
  `num_succeeded` and `num_tried`;
* `lastLoad`: a ghost record of the last `load_all_modules`. It holds the
  set it started from, whether every `init()` succeeded, its result, and the
  set it ended with.

dlopen with `RTLD_NOW` is modelled by what it decides: it fails while a
module the file needs (`Deps(m)`) is not loaded.

**Actions.**

| Action | Code |
|---|---|
| `Init`, `StartupLoad` | main before its module loading; `if (load_modules && !load_all_modules()) barf(...)` |
| `InsmodAll`, `LoadAllEntry`, `LoadAllSweepEnd` | `insmod -a`; one directory entry (skip if loaded, `num_tried++`, dlopen, `init()`, early `return false` on a failing init); `rewinddir` and the `do ... while` test, `return num_tried == 0` |
| `Insmod` | `insmod m` |
| `Rmmod` | `rmmod m`: `module_unload` without a use check |
| `UnloadAllStart`, `UnloadAllStep` | `rmmod -a` and main's end; one list iteration (stop at `use != 0`) |
| `TryModuleGet`, `ModulePut` | a rule takes and drops a reference |

`init()` can fail only outside main's suppressed region. The `rmmod m` guard
that no loaded module needs `m` is the precondition stated in rmmod's help
text.

**Properties.**

### `CmdLine` (core.c main's command line)

Each `cmdline_opt(name, has_arg, val, fn)` puts an entry into the `cmdline`
link section: six from core.c, three from failtest.c, one from
proc_stuff.c. The order between files is the linker's.

**State.**

* `table` and `argv`: fixed. `table` is one of the link orders (`Tables`).
  `argv` is one command line (`Argvs`). Words are abstracted to their
  kind: a long option's text (with its `=value`), a group of short chars
  as their codes, a plain word, or `--`.
* `optind`, `nextchar` and `optargs`: getopt_long's position and the words
  it took as arguments.
* `settings`: the globals that the parse functions set: `tui_echo_commands`,
  `tui_quiet`, `tui_abort_on_fail`, `load_modules`, `failtest`, `failpath`,
  `failtest_no_report` and `ignore_proc_issues`.
* `cpc`: main is in its getopt loop, past it (`run`), exited (`--help`,
  `--version`), barfed "Unknown argument", or barfed otherwise.
* `ran`: a ghost sequence of the entries whose parse function ran.

**Actions and operators.**

| Definition | Code |
|---|---|
| `Opts`, `Renumber`, `OptionsBarf` | `get_cmdline_options`: copy, renumber `val` to the index, and its barf on `has_arg > 2` or a conflict |
| `ShortChars`, `OptColons` | `get_cmdline_optstr`: each short char with `colonstr + 2 - has_arg` |
| `GetCmdlineOption` | `get_cmdline_option`: below `'0'` an index, else the `.val` search, else NULL |
| `GetoptLong` | glibc's getopt_long: permutation, `--`, unique prefixes, `'?'` |
| `Dispatch`, `UnknownArgument` | one turn of main's loop; `barf("Unknown argument")` |
| `OptionsEnd` | `open(argv[optind])`, which may fail, or "Not clever enough to use --failtest interactively" |
| `Parse`, `Sets`, `TakesOptarg` | the ten parse functions |

`NfsimMain` composes the two components. Once `cpc = "run"`, main's
`StartupLoad` takes `settings.load_modules`, and after that the TUI's
module commands run. If main exits or barfs on its command line, no
module is loaded. The kernelenv, run_inits and netfilter initialisation
between the two touch neither component.

**Properties.** Run `modules` (`MCModules.cfg`, `MainSpec`, about 405,000
states, about 50 s) checks:

* `OptionsHonoured`: under both link orders, main runs the parse functions
  of exactly the options the command line names, in order. The reference,
  `Meant`, reads argv by name from the table. The model goes through the
  renumbered index, the optstring and the `.val` search. nfsim goes past
  the options only once all of them ran. "Unknown argument" is barfed only
  at a word naming no option.
  *Mutant:* `opts[x].val = x` lost, so `--failtest` returns 0 and runs the
  entry at index 0.

The eleven command lines are:

* the script alone;
* `-Nq`;
* `--no` after the script, which needs both permutation and a unique prefix;
* `--failtest --failpath PATH` with the path as the next word;
* `--failtest-no-report=copy --ignore-proc-issues -- -N`, so that `-N` is
  the script;
* the ambiguous `--fail`;
* `--failtest` without a script;
* `-xz`, an unknown char in a group;
* `--help -V`;
* `--failpath` without an argument;
* `--echo=on`.

The two link orders are core.c's file first, and proc_stuff.c's first. So
index 0 is `echo` in one and the long-only `ignore-proc-issues` in the
other.

Not modelled: `get_cmdline_options`'s conflict check compares a short char
with `opts[y].val`, which is already an index. A duplicated short char in a
new `cmdline_opt` would go undetected. The ten entries of the repository
have no duplicate, so no command line reaches it. The LD_LIBRARY_PATH and
`module_path` strings are not modelled either.

The module registry's properties, in the same run:

* `LoadAllComplete`: whatever order readdir gives and whatever was loaded
  before, when no init fails, `load_all_modules` ends with exactly
  `Closure(start)`. That is the least fixpoint of "load whatever is
  resolvable", given by a recursive reference operator. It returns true
  exactly when that is every file.
  *Mutant:* a single sweep.
* `UnloadAllOrder`: an action property. `unload_all_modules` never unloads a
  module while one that needs it stays loaded.
  *Mutant:* `list_add_tail` in `load_mod`.
* `MainTypeOK`: the type invariants of both components. This includes that
  the list never holds a module twice.
  *Mutant:* `insmod` without its "already loaded" check.
* `BulkCallsReturn`: a liveness property. Once `load_all_modules` or
  `unload_all_modules` is running, it returns. `MainSpec` has the fairness
  of `Modules`' `FairSpec`, which gives weak fairness only to the steps of these two loops. That is
  justified because each is a loop of the single TUI thread that waits for
  nothing: dlopen, init and fini all return. The TUI's commands get no
  fairness, since a script may stop anywhere. The `do ... while` of
  `load_all_modules` ends on a sweep that loads nothing, and every other
  sweep loads one more of finitely many files.
  *Mutant:* the loop tests `num_tried` instead of `num_succeeded`, which
  sweeps forever while a module stays unloadable.

Run `modules_rmmod` (`MCModulesRefs.cfg`) is an expected violation. It checks
`RefsPinModule`: a module a rule references stays loaded, with `use` equal to
the number of references. This is what the use check in
`unload_all_modules` protects. It uses `MainSpec` too. TLC breaks it in 7 states:
`nfsim script --no` (three steps), `insmod CT`, a rule
takes a reference, then `rmmod CT`. The rule's `module_put` then barfs. This
is recorded as a finding against module.c:356.

**Bounds.** There are four module files:

* `ip_conntrack`;
* two modules that need it;
* one that needs a file not in the directory, so that `num_tried` stays
  positive and main's load fails.

`MaxRefs = 1`. The registry alone has about 100,000 states. Five of the
command lines get past the options, under two link orders, which gives
about 405,000 states.

## Module `Sysctl` (with `MCSysctl`)

A module registers a `ctl_table` with `register_sysctl_table`. Each entry
appears under `/proc/sys`, and the TUI command `proc` reads it (`proc cat`)
or writes it (`proc write NAME WORDS...`). For the integer files, both go
through `nfsim_proc_open`, `do_rw_proc` and one of `proc_dointvec`,
`proc_dointvec_jiffies` and `proc_dointvec_minmax`. Each of these runs
`do_proc_dointvec` with its own conversion function.

**State.** `tbl` is the table: handler, element count, `extra1`/`extra2`,
and its mode (octal in the code, written in decimal in the model). `data` is its `int` array. `out` is the
text of the last `proc cat`. Two ghost variables support the properties:
`catData` is the array that cat printed, and `last` records the last write's
words, result and the array before it.

**Actions.**

* `Cat` is `nfsim_proc_cat`. `do_rw_proc` (`DoRwProc`, with `TestPerm`
  for `ctl_perm`) refuses a table whose owner bits lack read permission,
  and then nothing is printed. Otherwise it runs the read half of
  `do_proc_dointvec` (`ReadLoop`) with `ConvRead`.
* `Write(words)` is `nfsim_proc_write`, with the words joined by single
  spaces (`Join`). It is refused unless both `nfsim_proc_open`/`proc_opensys`
  (`Opens`: `S_IWUSR`) and `do_rw_proc` allow the write. It then runs
  the write half (`WriteLoop`, `SkipSpace`, `strtoul`, `ConvWrite`) and the
  trailing white-space loop (`TrailLeft`). It returns `-EINVAL` when no
  element was stored.

The text is modelled character by character, because every property here
is about the conversion. Machine arithmetic keeps its wrap-around:

* `int` has `IntBits` bits and `unsigned long` has `LongBits`;
* `TMPBUFLEN` is the parse buffer;
* `simple_strtoul` is glibc's `strtoul` with base 0 (octal, hex, saturation).

The real widths are 32, 64 and 21. The model uses 16, 24 and 9, which keeps
the relation that ULONG_MAX has `TMPBUFLEN - 1` digits, and keeps TLC's
integers below 2^31.

**Run `sysctl`** (`MCSysctl.cfg`, pass, about 37,000 states, 50 s). It has five
tables: a dointvec, a jiffies and a minmax table of two elements (minmax
range 0..10, mode 0644), and two dointvec tables: one of mode 0444, and
one of mode 0200, which is write-only, so cat is refused. Initial values come from
{0, 100, 32767}, limited to the range for minmax. Writes are lines of one
or two words from {12, 010, x, 65541}, or the tokens of the last cat output.
12 is out of the minmax range, 010 is octal 8, x is not a number, and 65541
is 2^16 + 5, which a 16-bit int holds as 5.

* `EchoRestores`: writing back what cat printed restores the array that cat
  showed (jiffies rounded to whole seconds) and consumes the whole line,
  whatever was written in between.
* `WriteApplied`: after any write, the first k elements hold the `int` of
  the first k words and the others are as before, where word k+1 is the
  first one the file refuses (not a number; for minmax, an `int` outside
  `extra1..extra2`) or there is no element left for it. The write returns
  -EINVAL exactly when k = 0. The reference reads each word as a C base-0
  number (`Signed`, `IntOf`, `Takes`), apart from `strtoul` and the loop.
  This pins down two behaviours of the code. First, `12 010` on a minmax
  file fails at 12, but `010 12` stores the 8 and returns success (the
  partial write of proc_stuff.c:618). Second, 65541 passes the minmax check
  as 5 (the truncation of proc_stuff.c:719).
  *Mutant:* the range compared on the `unsigned long` before the cast, which
  refuses 65541.

**Violation runs.**

* `sysctl_negative` (`MCSysctlNeg.cfg`). With negative elements,
  `EchoRestores` fails: after a `-`, `left` is decremented and then reduced
  by a length that includes the `-` again (proc_stuff.c:603, 616). `-1 -1`
  stores one element and reports 4 of 5 characters.
* `sysctl_intmin` (`MCSysctlIntMin.cfg`). Reading `INT_MIN` negates it in
  `int` and sign-extends it. The formatted element does not fit `buf`
  (`NoFormatOverflow`; 23 bytes into 21 at real widths).
Both are recorded as code bugs. The minmax conversion also truncates the
`unsigned long` to `int` before the range check. So `65541` written to a
0..10 file is stored as 5: in range, but not the number written. The kernel
code this was copied from does the same, so `WriteApplied` states it as the
behaviour rather than as a bug. The non-negative bounds of the pass run
keep it about the positive path: negatives are the subject of
`sysctl_negative`.

**Not modelled here.** `proc_dostring`, and `sysctl_intvec`, which is the
`sys_sysctl` strategy and unreachable from nfsim. The `*ppos != 0` early
return is not modelled either, because nfsim always opens at position 0.

## Module `ProcTree` (with `MCProcTree`)

The /proc directory tree of the kernel environment (`proc_stuff.c`). The
netfilter code under test creates entries with `create_proc_entry`,
`proc_mkdir` and `proc_net_create`, and removes them with
`remove_proc_entry`. It registers sysctl tables with
`register_sysctl_table`, which links them under `/proc/sys` and shares
directories between tables. `proc cat` looks entries up with
`find_proc_entry`. At exit, `check_allocations` runs `proc_cleanup` and then
barfs on any block leaked since initialisation.

**State.** `ent` holds the entries in allocation order: stored name,
`namelen`, directory or file, and `data`, the ctl_table slot. `sub` holds
each entry's subdir list, head first. `live` is the set of allocated
entries. `de` is `table->de` for every table slot, and `hdr` is the set of
registered tables. `made` is the stack of entries the code under test holds.
`ignore` is `--ignore-proc-issues`, and `status` is run, done or barf.
Freed entries keep their contents, which is what a stale pointer reads.

**Actions.** The code under test may call in any order, with one discipline:
it removes its own entries newest first, as an exit function undoes its
init.

* `CreateProcEntry(name, parent, isdir)` covers `proc_create` (with
  `xlate_proc_name` for a NULL parent) and `proc_register`.
* `RemoveProcEntry` is `remove_proc_entry`: it frees the first match, and
  barfs when there is none unless `--ignore-proc-issues` is set.
* `RegisterSysctlTable(t)` and `UnregisterSysctlTable(t)` are the whole
  recursive walks of `register_proc_table` and `unregister_proc_table`.
* `CheckAllocations` is `proc_cleanup` followed by the leak check.

* `NfsimProcCat(path)` is `proc cat` of an entry the module made.
  `nfsim_proc_open` must find it (`CatOpens`), and it must not be a
  directory. The tree does not change. What is printed is `CatRead[rd]`.
  That is `proc_file_read` (`ProcFileRead`, with `Take` for its three ways
  of taking what a call returned) run with the routine `rd` the module
  installed. That routine is the module's code, not nfsim's, so it is any
  member of `Readers`. Each member keeps to one convention of the comment
  in `proc_file_read`:
  * data at its offset in the page;
  * whole records, with `*start` set to their count;
  * data at `page + off`;
  * `get_info`, where a short return means end of file;
  * an error;
  * no routine at all.

  Bytes are counted, not spelled out. `PAGE_SIZE` 4096 becomes 8, so
  `PROC_BLOCK_SIZE` (`PAGE_SIZE - 1024`) is 6 and `nbytes` (16383,
  4·`PAGE_SIZE` - 1) is 31. The files are longer than a block and, where
  the convention allows, longer than `nbytes`. If a call returns more than
  is left, the size_t `nbytes` wraps; that result is `Overrun`.

A fail point that fires in `proc_create` or `register_sysctl_table` returns
NULL before any state changes, so those calls are stuttering steps.

**Run `proctree`** (pass, about 100,000 states, 15 s). Two tables `T1` =
`d/f` and `T2` = `d/g, h` share the directory `d`. The module creates
entries named `x` (file or directory) under `/proc`, `/proc/net` or its own
directories, holding at most 2 at a time. There are at most 11 entries, and
both values of the option are tried.

* `NoOrphans`: the entries reachable from `/proc` are exactly the live
  ones.
* `HeldLive`: every entry the module holds is live.
* `SysctlVisible`: each file of a registered table is found at its path and
  leads to its slot.
* `CleanExit`: a module that undoes its work never makes nfsim barf.
* `ProcCatWholeFile`: whenever `proc cat` can open one of the module's
  files, it prints the whole file, up to `nbytes`, whatever convention the
  read routine keeps to. For a file of records, it prints the longest run of
  whole records that fits. `CatExpected` is the reference.

The mutants remove the keep-non-empty-directory test, link entries at the
tail, stop sharing directories, test for emptiness before recursing, and
count the NUL in `namelen`, or advance `*ppos` by bytes for a file of
records (which skips records). Each one breaks its property.

**Run `proctree_pathname`** (`MCProcTreePath.cfg`, violation). The module
calls `create_proc_entry("net/x", mode, NULL)`. `proc_create` stores the
whole name but the length of `x`. `remove_proc_entry("net/x", NULL)` then
finds nothing and barfs after 3 states (`CleanExit`). The entry is invisible
to `proc cat` as well. This is recorded as a code bug (proc_stuff.c:239).

## Modules `Ifconfig`, `Route`, `Hooks`, `TcpSession` and `TcpStream` (with `MCTcpSession`)

These modules form a chain, each extending the one before it:
`Ifconfig` ← `Route` ← `Hooks` ← `TcpSession`. Each later command
reads the interface list. Route also reads the device routes that
`create_device` adds.

### `Ifconfig` (tools/ifconfig.c, the interface list of core.c)

Each argument word is reduced to what the parsers make of it:

* the address `inet_atou32` reads from it, or `NoAddr`;
* the number `atoi` reads from it;
* whether it is "mask", "up" or "down".

Addresses are numbers of `Width` bits; the run uses 8. A mask-bit count k
of the code becomes k·Width/32. So the bounds 8 and 31 of `set_device`
become `Width \div 4` and `Width - 1`.

| Definition | Code |
|---|---|
| `iflist`, `devname`, `ifindex`, `ifa` | `interfaces`, `dev->name`, `ifindex_counter`, each device's `in_ifaddr` |
| `InterfaceByName` | `interface_by_name` (first match, `SelectInSeq`) |
| `SetDevice(c, args)` | `set_device`: the address, the mask, then the broadcast address, each written in turn. A field written before a later word fails stays written. With exactly "ADDR mask M", `argc` counts one word too few and the broadcast is read from `argv[argc]` |
| `OverRead` | that read of `argv[argc]` (NULL) is undefined. nfsim crashes, the parse fails, or garbage is stored as the broadcast; the address and mask already written stay |
| `CreateDevice(n, args)` | `create_device`: the ifindex is taken even when `set_device` refuses. The trailing "up" word is passed on to `set_device` too |
| `IfInit` | `core_init`: lo, eth0 and eth1 as 1, 2 and 3, with their addresses |
| `Ifconfig(n, args)` | the `ifconfig` command: up (`IfconfigUp`), down (`IfconfigDown`), reconfigure (`IfconfigSet`), or refused (`Refused`) |

### `Route` (tools/route.c)

| Definition | Code |
|---|---|
| `routes`, `rt`, `freed` | the `routes` list, each route's fields, the routes `route del` freed |
| `GetRouteDest` | `get_route_dest`, with `NetmaskOf` (the special case for /32) and `CountMaskBits` (the shift loop for "mask M", RECURSIVE) |
| `Walk` | the list walks of `find_matching_route` and `route del` |
| `RouteIfconfig` | ifconfig, plus the route `add_route_for_device` adds for a new device |
| `RouteAdd`, `RouteDel`, `RoutePrint` | `route add`, `route del`, `route print` |

`route del` calls `talloc_free` without `list_del`, so the freed route
stays on the list. Reading that route again, or reading a device that
`ifconfig down` freed, is undefined. `StaleReads` gives each such read three
outcomes: the old contents, other contents, or a crash. A second
`route del` that matches the freed route is a double free, and talloc
aborts.

### `Hooks` (tools/hook.c, tools/queue.c, the queue of core.c, gen_ip's send_packet)

| Definition | Code |
|---|---|
| `hooks`, `hk`, `queue`, `queueid` | the `hooks` list, the hooks' fields, `nfsim_queue`, `queueid` |
| `HookCmd(a)` | `hook NAME PRIORITY VERDICT` |
| `GenIp(ifn, path)` | `gen_ip`: `send_packet` through the hooks of one routing path, `Enqueue` when a hook queues, then `PostCleanup` (`hook_post_cleanup`, whose `free` of talloc memory may abort) |
| `Reinject(k, v)` | `nf_reinject` of item k with verdict v, then `list_del` (`ListDel`) |
| `QueueCmd(a)` | `queue VERDICT [ID]`: on an empty queue, the variant without an id reinjects the list head |

The walk over the hooks (`nf_hook_slow`) is kernel code that is not in
this repository. The model takes its documented order: ascending priority,
and registration order for equal priorities (`CalledBefore`).

### `TcpSession` and `TcpStream`

The `tcpsession` command (tools/tcpsession.c) drives one TCP connection.
The original side sends on eth0 and the reply side on eth1. gen_ip refuses
a packet when there is no such interface, or when the length does not parse
(`DataLength` is `gen_ip_data_length`, RECURSIVE, and gives -1 for an
unprintable word).

| Action | Code |
|---|---|
| `Open` | `open_session`: SYN, SYN/ACK, ACK. Any failed send frees the session |
| `SendData(d, ws)` | `send_data`: on success, seq += len, the other side's ack += len + lenchange, and lenchange = 0 |
| `LenChange(c)` | `LENCHANGE`: there is no check for a session, so with none nfsim dies |
| `CloseSession(d)` | `close_session`: the first FIN may go through and the second fail |
| `ResetSession(d)`, `Abandon` | `reset_session`, `ABANDON` |

`TcpStream` is what a session promises: one connection, a stream position
per side, and a declared length change (`grow`). `TcpSession` defines
`Stream == INSTANCE TcpStream WITH ...`:

* `pos[d]` is `seq - ISN`;
* `grow[d]` is the other side's ack minus d's seq;
* `pending` is `lenchange`.

### Run `tcpsession` (`MCTcpSession.cfg`, pass, about 103,000 states, about 60 s)

`MCTcpSession` checks four scripts. Each uses ifconfig up and down plus one
other command family: tcpsession, route, or hook with gen_ip and queue. The
fourth script is ifconfig alone, with every argument vector. The families
read the interface list but nothing of one another. None of them reads a
device's address once it is up. So a script of one family has every
behaviour that a mixed script shows in that family's state, and checking
the families apart keeps their counters out of one product.

| Property | What it says | Mutant that breaks it |
|---|---|---|
| `TypeOK` | the type invariant of all modules | `create_device` numbers the device with the counter after the increment |
| `RouteDestAgrees` | each route that `route add` made has the netmask and network that its "a/n" or "a mask m" argument denotes, including at 0 and at full width | /32 without the special case (an x86 shift by 32) |
| `IfshowReadsInitialized` | ifshow never reads an uninitialized field of a listed device, even after partial reconfigurations | the trailing "up" is not passed to `set_device` |
| `PacketQueuedOnce` | a packet is on the queue at most once, whatever verdicts are applied | `list_del` after a reinject dropped |
| `QueueIdsIncreasing` | queue ids increase from head to tail and stay below `queueid` | a new item put at the head |
| `StreamRefined` | `Stream!Spec`: every command, in every outcome of its sends, is a step of `TcpStream` | `lenchange` kept after a send |

Bounds:

* `MaxDev = 4`: `create_device` runs once after `core_init`, whether it
  succeeds or fails. Since eth0 and eth1 can be taken down, the new device
  can reuse their name, and the commands can see a freed device;
* `MaxRoutes = 5`: the three device routes plus two more, enough for a
  duplicate add and a stale walk;
* `MaxHooks = 2`, `MaxQueueId = 3`: two hooks, so that one runs before the
  other, and a packet queued, reinjected and queued again;
* `MaxPos = 4`: this caps each side's sequence use.

Not modelled here: the text of the `expect` registry, and the kernel
routing and notifier code.

### Run `tcpsession_crash` (`MCTcpSessionCrash.cfg`, violation, 2 states)

The command handlers report a bad command by logging and returning false.
DATA, CLOSE, RESET and ABANDON without a session print "Session not
open!", route and hook print "Bad ... command", and ifconfig refuses an
unknown device. `ScriptsNeverKillNfsim` (`~crashed`) says that no script
gets further than such a refusal. The model sets `crashed` at every branch
where the code dereferences NULL or reads or frees memory it does not own.
The run uses the same scripts and bounds as `tcpsession`.

TLC reports the shortest violation, at depth 2. Either of two one-command
scripts breaks it:

* `tcpsession LENCHANGE` before `OPEN`: tcpsession.c:314 reads
  `curr->lenchange` with `curr == NULL`, while its sibling commands check
  for this first;
* `queue NF_ACCEPT` without an id on an empty queue: queue.c:47 takes
  `list_entry(nfsim_queue.next)` with no emptiness check, and reinjects the
  list head itself.

Longer scripts also reach the other crash branches:

* `route del` frees the route without unlinking it (route.c:193), so
  `route add`, `del` and `add` of one destination walk the freed route;
* `ifconfig DEV down` frees a device that routes and queued packets still
  point to (ifconfig.c:192), and `route print` reads its name;
* a module hook queues a packet, `gen_ip`'s `hook_post_cleanup` frees the
  hook (hook.c:88), and `queue NF_ACCEPT` walks on from the freed hook;
* `queue NF_DROP` frees the skb, and with it the item, before `list_del`
  (queue.c:63).

Each of these is listed as a hazard in `PROJECT.json` and covered by this
property.

## Plan

1. `FailTest` / `MCFailTest`: done.
2. `Bridge`: done for whole messages, including a peer that dies
   mid-kernelop. Next:
   * a byte-stream variant for the short payload read (fakesockopt.c:274);
   * several `iptables` commands in one script.
3. `--failtest --failpath` together: done (`failtest_failpath`). The
   fork-failure mode is a fixed variable of the `failtest` run.
4. Not done: an abstract fault-controller spec (the set of explored paths)
   refined by `FailTest`, and a `FailTestBridge` composing `FailTest`
   decisions with `Bridge` forks. The only refinement so far is
   `TcpSession` of `TcpStream`.
5. `Modules`: done, with liveness of the bulk load and unload. Next: timers
   run by `module_unload`.
6. `Sysctl`: done for the integer files, with modes and `ctl_perm`.
7. `CmdLine`: done, composed with `Modules` in `NfsimMain`. Next: the
   same composition with `FailTest`, so that `--failtest`, `--failpath` and
   `--failtest-no-report` select its start.
8. `ProcTree`: done, including `proc cat` through `proc_file_read`. Next:
   compose it with `Sysctl`, so that `proc write` goes through
   `find_proc_entry`.
9. `Ifconfig`, `Route`, `Hooks`, `TcpSession`: done, with the crash
   branches as the `tcpsession_crash` run. Next:
   * gen_ip's packet parsing (the fragment `memmove` and the UDP length as
     u16), which needs a run of its own.

## Not modelled

* **Kernel code outside the repository.** This covers the IPv4 code nfsim
  links in: `nf_hook_slow`, `nf_reinject`, routing, `add_route_for_device`
  and the netdevice notifiers. The model takes their documented behaviour,
  as described for `Hooks` and `Route`.
* **Routines that fill /proc files.** The read routines of /proc files are
  the module's code. `ProcTree` treats them as environment members of
  `Readers`.
* **gen_ip's parsing.** Turning the command's words into a packet, the
  checksums and `field.c` are sequential byte processing. TLC could only
  restate them. gen_ip enters the model through its outcomes: refused,
  sent, or queued.
* **The rest of kernelenv.** Timers and `time.c`, kmalloc, the skb
  helpers, `proc_file_write` and the IPv6 helpers.
* **Commands that only print.** ifshow, `proc cat` of a directory, `help`,
  and the log and `warn_failure` text. `tui.c` is modelled only as one
  command per step.
* **Field attachments and the register wrappers.** field.c and core.c's
  `__nf_register_hook_wrapper` / `__nf_register_sockopt_wrapper` are called
  only by netfilter modules, and none is in the repository. Their owner check
  tests `reg->owner` but reads `reg[i].owner`. So whether it can crash
  depends on hook arrays that a model would have to invent.
* **The `expect` registry.** `expect.c` is not in the repository, so the
  expectation that `tcp_send` leaves behind after a failed `gen_ip` cannot
  be modelled from source.
* **The byte-stream payload read.** `Bridge` sends whole messages, so the
  short read of fakesockopt.c:274 is out of reach. This is listed as a hazard
  with no property.
* **fakesockopt.so wrappers.** `open`, `fopen` and `socket` only rewrite
  paths and descriptors, which is pure I/O.

The fail points of all these parts are kept, abstractly, as the decision
points of the program.
