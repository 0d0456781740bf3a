------------------------------- MODULE Bridge -------------------------------
(***************************************************************************)
(* The message bridge between nfsim and an external iptables binary       *)
(* (src/core/message.c, src/core/fakesockopt.c, src/tools/iptables.c),   *)
(* under --failtest.                                                      *)
(*                                                                         *)
(* Harness processes H run the script. Command `iptables` (run_command)   *)
(* calls start_program, which forks a peer P with fakesockopt.so          *)
(* preloaded, and then loops in wait_for_output. The peer's getsockopt /  *)
(* setsockopt go over a socket pair as SYSCALL messages; the harness      *)
(* answers them, calling copy_from_user / copy_to_user (KERNELOPs         *)
(* answered by the peer) on the way. Each copy is a fail point: the       *)
(* harness forks, the child takes the failure and calls                   *)
(* fork_other_program (KOP_FORK plus a fresh socket pair, so that the     *)
(* peer forks too: do_fork), the parent waits in waitpid and then takes   *)
(* the success. The peer parent waits for its child and relays its exit   *)
(* status as SYS_EXIT on the child's socket.                              *)
(*                                                                         *)
(* A channel is one socket pair, named by the harness process that        *)
(* created it: start_program in the root, fork_other_program in a child.  *)
(* Each direction is a FIFO of whole messages. A process holds a set of   *)
(* channel ends (file descriptors), inherited by fork and released at     *)
(* exit; a read sees EOF when the queue is empty and nobody holds the    *)
(* other end. The stdout pipe (io_fd) is held on the peer side by exactly *)
(* the processes that hold the socket's peer end, so its EOF coincides    *)
(* with the socket's and it is not a separate variable.                   *)
(***************************************************************************)
EXTENDS Integers, Sequences, SequencesExt, FiniteSets

CONSTANTS
  HPids,      \* harness process ids; 1 runs the script
  PPids,      \* peer process ids
  Syscalls,   \* the peer program: the sockopt calls it makes, in order
  Copies(_),  \* Copies(k): the copies nf_{get,set}sockopt makes for call k
  None,       \* the value -1 of `status` and `pid`, and "no channel"
  KopCanFault \* a copy's user address may be bad: the peer's memcpy faults

ASSUME HPids = 1..Cardinality(HPids) /\ PPids = 1..Cardinality(PPids)

Chans == HPids
ExitOK == {"SUCCESS", "SCRIPTFAIL"}
Status == {"SUCCESS", "FAILURE", "SIGNALLED", "SILENT"}

(* The nf_userspace_message kinds that travel over a channel.            *)
ToHarness ==
  [type : {"syscall"}, k : Range(Syscalls)] \cup
  [type : {"exit"}, st : Status] \cup
  [type : {"kopack"}]
ToPeer ==
  [type : {"reply"}, ret : {"OK", "EFAULT"}] \cup
  [type : {"kop"}, op : {"from", "to"}] \cup
  [type : {"fork"}, ch : Chans]

VARIABLES
  hpc,       \* harness control point
  hch,       \* msg_fd: the channel the harness talks on
  hpeer,     \* pid: the peer started by start_program, or None
  hop,       \* the sockopt being handled: call, next copy, copy failed
  hstatus,   \* `status` of run_command
  hchild,    \* the child forked at the last fail point
  hexit,     \* exit status
  hsent,     \* the replies this lineage has sent (ghost)
  hholds,    \* channel ends (harness side) held by the process
  ppc,       \* peer control point
  pch,       \* sd: the channel the peer talks on
  psc,       \* index of the peer's current sockopt call
  pchild,    \* child forked by do_fork
  pnew,      \* msg_fd of do_fork: the child's channel
  pexit,     \* exit status
  pres,      \* the replies this lineage has received (ghost)
  pholds,    \* channel ends (peer side) held by the process
  toH,       \* per channel: messages towards the harness
  toP,       \* per channel: messages towards the peer
  started    \* started[p]: the harness that forked p in start_program

hvars == <<hpc, hch, hpeer, hop, hstatus, hchild, hexit, hsent, hholds>>
pvars == <<ppc, pch, psc, pchild, pnew, pexit, pres, pholds>>
vars == <<hvars, pvars, toH, toP, started>>

-----------------------------------------------------------------------------
(* A channel end is open while a process holds it; the peer end of a     *)
(* new channel is also held by the KOP_FORK message carrying it.          *)
HarnessHeld(c) == \E h \in HPids : c \in hholds[h]
InFlight(c) == \E c0 \in Chans : \E i \in 1..Len(toP[c0]) :
                 toP[c0][i].type = "fork" /\ toP[c0][i].ch = c
PeerHeld(c) == (\E p \in PPids : c \in pholds[p]) \/ InFlight(c)

FreeH == {h \in HPids : hpc[h] = "unused"}
FreeP == {p \in PPids : ppc[p] = "unused"}
NewH == Min(FreeH)
NewP == Min(FreeP)

Send(q, c, m) == q' = [q EXCEPT ![c] = Append(@, m)]

(* The harness's write() on msg_fd: with SIGPIPE blocked (message_init)  *)
(* a write to a socket whose peer end is closed fails with EPIPE, and    *)
(* the harness ignores the result.                                       *)
Write(c, m) == IF PeerHeld(c) THEN Send(toP, c, m) ELSE UNCHANGED toP
Pop(q, c) == q' = [q EXCEPT ![c] = Tail(@)]

(* exit(): the kernel closes every descriptor of the process.            *)
HExit(h, st) ==
  /\ hpc' = [hpc EXCEPT ![h] = "exited"]
  /\ hexit' = [hexit EXCEPT ![h] = st]
  /\ hholds' = [hholds EXCEPT ![h] = {}]
PExit(p, st) ==
  /\ ppc' = [ppc EXCEPT ![p] = "exited"]
  /\ pexit' = [pexit EXCEPT ![p] = st]
  /\ pholds' = [pholds EXCEPT ![p] = {}]

-----------------------------------------------------------------------------
(***************************** harness side *******************************)

(* run_command -> start_program: socket pair, fork, exec of the peer with *)
(* NFSIM_FAKESOCK_FD; the harness keeps its end, pid = the child.         *)
StartProgram(h) ==
  LET p == NewP IN
  /\ hpc[h] = "script"
  /\ FreeP # {}
  /\ hpc' = [hpc EXCEPT ![h] = "wait"]
  /\ hch' = [hch EXCEPT ![h] = h]
  /\ hpeer' = [hpeer EXCEPT ![h] = p]
  /\ hstatus' = [hstatus EXCEPT ![h] = None]
  /\ hholds' = [hholds EXCEPT ![h] = @ \cup {h}]
  /\ ppc' = [ppc EXCEPT ![p] = "call"]
  /\ pch' = [pch EXCEPT ![p] = h]
  /\ psc' = [psc EXCEPT ![p] = 1]
  /\ pholds' = [pholds EXCEPT ![p] = {h}]
  /\ started' = [started EXCEPT ![p] = h]
  /\ UNCHANGED <<hop, hchild, hexit, hsent, pchild, pnew, pexit, pres, toH, toP>>

(* wait_for_output -> handle_userspace_message(status): a SYSCALL.        *)
WaitSyscall(h) ==
  LET c == hch[h] IN
  /\ hpc[h] = "wait"
  /\ toH[c] # <<>>
  /\ Head(toH[c]).type = "syscall"
  /\ Pop(toH, c)
  /\ hop' = [hop EXCEPT ![h] = [k |-> Head(toH[c]).k, i |-> 1, failed |-> FALSE]]
  /\ hpc' = [hpc EXCEPT ![h] = "handle"]
  /\ UNCHANGED <<hch, hpeer, hstatus, hchild, hexit, hsent, hholds, pvars, toP,
                 started>>

(* handle_userspace_message(status): SYS_EXIT sets *status.               *)
WaitExit(h) ==
  LET c == hch[h] IN
  /\ hpc[h] = "wait"
  /\ toH[c] # <<>>
  /\ Head(toH[c]).type = "exit"
  /\ Pop(toH, c)
  /\ hstatus' = [hstatus EXCEPT ![h] = Head(toH[c]).st]
  /\ UNCHANGED <<hpc, hch, hpeer, hop, hchild, hexit, hsent, hholds, pvars, toP,
                 started>>

(* The status the harness ends run_command with: SYS_EXIT's, or else     *)
(* waitpid(pid), which fails (-1) unless pid is the harness's own child.  *)
WaitedStatus(h) ==
  IF hstatus[h] # None THEN hstatus[h]
  ELSE IF started[hpeer[h]] = h THEN pexit[hpeer[h]] ELSE None

(* Both descriptors reached EOF: close msg_fd, leave the loop, fall back  *)
(* to waitpid if no status came, pid = -1; run_command returns.           *)
WaitEOF(h) ==
  LET c == hch[h] IN
  /\ hpc[h] = "wait"
  /\ toH[c] = <<>>
  /\ ~PeerHeld(c)
  /\ started[hpeer[h]] = h => ppc[hpeer[h]] = "exited"
  /\ hstatus' = [hstatus EXCEPT ![h] = WaitedStatus(h)]
  /\ hch' = [hch EXCEPT ![h] = None]
  /\ hholds' = [hholds EXCEPT ![h] = @ \ {c}]
  /\ hpeer' = [hpeer EXCEPT ![h] = None]
  /\ hpc' = [hpc EXCEPT ![h] = "ran"]
  /\ UNCHANGED <<hop, hchild, hexit, hsent, pvars, toH, toP, started>>

(* Variant: the parent does not wait for the child it forked.            *)
CopyForkNoWait(h) ==
  LET n == NewH IN
  /\ hpc[h] = "handle"
  /\ ~hop[h].failed
  /\ hop[h].i <= Len(Copies(hop[h].k))
  /\ FreeH # {}
  /\ hpc' = [hpc EXCEPT ![h] = "kop", ![n] = "handle"]
  /\ hchild' = [hchild EXCEPT ![h] = n]
  /\ hop' = [hop EXCEPT ![n] = [hop[h] EXCEPT !.failed = TRUE]]
  /\ hch' = [hch EXCEPT ![n] = n]
  /\ hpeer' = [hpeer EXCEPT ![n] = hpeer[h]]
  /\ hstatus' = [hstatus EXCEPT ![n] = hstatus[h]]
  /\ hsent' = [hsent EXCEPT ![n] = hsent[h]]
  /\ hholds' = [hholds EXCEPT ![n] = hholds[h] \cup {n}]
  /\ toP' = [toP EXCEPT ![hch[h]] = @ \o
               <<[type |-> "fork", ch |-> n],
                 [type |-> "kop", op |-> Copies(hop[h].k)[hop[h].i]]>>]
  /\ UNCHANGED <<hexit, pvars, toH, started>>

(* copy_{from,to}_user -> should_i_fail under --failtest: fork. The      *)
(* child takes the failure; fork_other_program writes KOP_FORK carrying  *)
(* the peer end of a new socket pair on the old msg_fd and switches to   *)
(* the new pair, keeping the old descriptors open. The parent waits.     *)
CopyFork(h) ==
  LET n == NewH IN
  /\ hpc[h] = "handle"
  /\ ~hop[h].failed
  /\ hop[h].i <= Len(Copies(hop[h].k))
  /\ FreeH # {}
  /\ hpc' = [hpc EXCEPT ![h] = "forkwait", ![n] = "handle"]
  /\ hchild' = [hchild EXCEPT ![h] = n]
  /\ hop' = [hop EXCEPT ![n] = [hop[h] EXCEPT !.failed = TRUE]]
  /\ hch' = [hch EXCEPT ![n] = n]
  /\ hpeer' = [hpeer EXCEPT ![n] = hpeer[h]]
  /\ hstatus' = [hstatus EXCEPT ![n] = hstatus[h]]
  /\ hsent' = [hsent EXCEPT ![n] = hsent[h]]
  /\ hholds' = [hholds EXCEPT ![n] = hholds[h] \cup {n}]
  /\ PeerHeld(hch[h])
  /\ Send(toP, hch[h], [type |-> "fork", ch |-> n])
  /\ UNCHANGED <<hexit, pvars, toH, started>>

(* The same fail point after the peer has gone: the KOP_FORK write fails *)
(* with EPIPE, send_fd's sendmsg fails too and barf_perror exits the     *)
(* child with EXIT_FAILURE, before any of the new descriptors is held by *)
(* anyone else. The parent waits for it as before.                       *)
CopyForkSendFails(h) ==
  LET n == NewH IN
  /\ hpc[h] = "handle"
  /\ ~hop[h].failed
  /\ hop[h].i <= Len(Copies(hop[h].k))
  /\ FreeH # {}
  /\ ~PeerHeld(hch[h])
  /\ hpc' = [hpc EXCEPT ![h] = "forkwait", ![n] = "exited"]
  /\ hchild' = [hchild EXCEPT ![h] = n]
  /\ hop' = [hop EXCEPT ![n] = [hop[h] EXCEPT !.failed = TRUE]]
  /\ hexit' = [hexit EXCEPT ![n] = "FAILURE"]
  /\ UNCHANGED <<hch, hpeer, hstatus, hsent, hholds, pvars, toH, toP, started>>

(* The sockopt handler is done (all copies made, or one failed and it    *)
(* returns -EFAULT): write the reply on msg_fd.                           *)
Reply(h) ==
  LET ret == IF hop[h].failed THEN "EFAULT" ELSE "OK" IN
  /\ hpc[h] = "handle"
  /\ hop[h].failed \/ hop[h].i > Len(Copies(hop[h].k))
  /\ Write(hch[h], [type |-> "reply", ret |-> ret])
  /\ hsent' = [hsent EXCEPT ![h] = Append(@, ret)]
  /\ hpc' = [hpc EXCEPT ![h] = "wait"]
  /\ UNCHANGED <<hch, hpeer, hop, hstatus, hchild, hexit, hholds, pvars, toH,
                 started>>

(* The code under test crashes on the injected failure.                  *)
Crash(h) ==
  /\ hpc[h] = "handle"
  /\ hop[h].failed
  /\ HExit(h, "SIGNALLED")
  /\ UNCHANGED <<hch, hpeer, hop, hstatus, hchild, hsent, pvars, toH, toP,
                 started>>

(* waitpid() saw the child exit SUCCESS or SCRIPTFAIL: should_i_fail     *)
(* returns false and the copy goes ahead (send_userspace_message).        *)
ForkResume(h) ==
  /\ hpc[h] = "forkwait"
  /\ hpc[hchild[h]] = "exited"
  /\ hexit[hchild[h]] \in ExitOK
  /\ Write(hch[h], [type |-> "kop", op |-> Copies(hop[h].k)[hop[h].i]])
  /\ hpc' = [hpc EXCEPT ![h] = "kop"]
  /\ UNCHANGED <<hch, hpeer, hop, hstatus, hchild, hexit, hsent, hholds, pvars,
                 toH, started>>

(* The child died otherwise: report (or not) and exit(EXIT_SILENT).       *)
ForkReport(h) ==
  /\ hpc[h] = "forkwait"
  /\ hpc[hchild[h]] = "exited"
  /\ hexit[hchild[h]] \notin ExitOK
  /\ HExit(h, "SILENT")
  /\ UNCHANGED <<hch, hpeer, hop, hstatus, hchild, hsent, pvars, toH, toP,
                 started>>

(* send_userspace_message -> handle_userspace_message(NULL): the peer's   *)
(* acknowledgement of the KERNELOP; the next copy.                        *)
KopAck(h) ==
  LET c == hch[h] IN
  /\ hpc[h] = "kop"
  /\ toH[c] # <<>>
  /\ Head(toH[c]).type = "kopack"
  /\ Pop(toH, c)
  /\ hop' = [hop EXCEPT ![h].i = @ + 1]
  /\ hpc' = [hpc EXCEPT ![h] = "handle"]
  /\ UNCHANGED <<hch, hpeer, hstatus, hchild, hexit, hsent, hholds, pvars, toP,
                 started>>

(* handle_userspace_message(NULL) reads EOF (the peer died while the     *)
(* kernelop was outstanding) and returns false; send_userspace_message   *)
(* ignores that and copy_{to,from}_user return 0: the copy "succeeded". *)
KopEOF(h) ==
  LET c == hch[h] IN
  /\ hpc[h] = "kop"
  /\ toH[c] = <<>>
  /\ ~PeerHeld(c)
  /\ hop' = [hop EXCEPT ![h].i = @ + 1]
  /\ hpc' = [hpc EXCEPT ![h] = "handle"]
  /\ UNCHANGED <<hch, hpeer, hstatus, hchild, hexit, hsent, hholds, pvars, toH,
                 toP, started>>

(* run_command has returned; the rest of the script runs and nfsim exits. *)
HarnessEnd(h) ==
  /\ hpc[h] = "ran"
  /\ HExit(h, "SUCCESS")
  /\ UNCHANGED <<hch, hpeer, hop, hstatus, hchild, hsent, pvars, toH, toP,
                 started>>

-----------------------------------------------------------------------------
(****************************** peer side *********************************)

(* getsockopt / setsockopt -> fake_syscall: write the SYSCALL message.    *)
Call(p) ==
  /\ ppc[p] = "call"
  /\ psc[p] <= Len(Syscalls)
  /\ Send(toH, pch[p], [type |-> "syscall", k |-> Syscalls[psc[p]]])
  /\ ppc' = [ppc EXCEPT ![p] = "recv"]
  /\ UNCHANGED <<pch, psc, pchild, pnew, pexit, pres, pholds, hvars, toP, started>>

(* The program has made all its calls and exits 0.                       *)
PeerEnd(p) ==
  /\ ppc[p] = "call"
  /\ psc[p] > Len(Syscalls)
  /\ PExit(p, "SUCCESS")
  /\ UNCHANGED <<pch, psc, pchild, pnew, pres, hvars, toH, toP, started>>

(* Variant: the program carries on with its next call after an error.    *)
RecvReplyContinue(p) ==
  LET c == pch[p]
      ret == Head(toP[c]).ret
  IN
  /\ ppc[p] = "recv"
  /\ toP[c] # <<>>
  /\ Head(toP[c]).type = "reply"
  /\ Pop(toP, c)
  /\ pres' = [pres EXCEPT ![p] = Append(@, ret)]
  /\ psc' = [psc EXCEPT ![p] = @ + 1]
  /\ ppc' = [ppc EXCEPT ![p] = "call"]
  /\ UNCHANGED <<pexit, pholds, pch, pchild, pnew, hvars, toH, started>>

(* fake_syscall reads the UM_SYSCALL reply and returns; on an error the   *)
(* program gives up and exits 1.                                          *)
RecvReply(p) ==
  LET c == pch[p]
      ret == Head(toP[c]).ret
  IN
  /\ ppc[p] = "recv"
  /\ toP[c] # <<>>
  /\ Head(toP[c]).type = "reply"
  /\ Pop(toP, c)
  /\ pres' = [pres EXCEPT ![p] = Append(@, ret)]
  /\ IF ret = "EFAULT"
     THEN /\ PExit(p, "FAILURE")
          /\ UNCHANGED psc
     ELSE /\ psc' = [psc EXCEPT ![p] = @ + 1]
          /\ ppc' = [ppc EXCEPT ![p] = "call"]
          /\ UNCHANGED <<pexit, pholds>>
  /\ UNCHANGED <<pch, pchild, pnew, hvars, toH, started>>

(* fake_syscall -> handle_kernelop: COPY_TO_USER / COPY_FROM_USER, answer *)
(* on sd.                                                                  *)
RecvKop(p) ==
  LET c == pch[p] IN
  /\ ppc[p] = "recv"
  /\ toP[c] # <<>>
  /\ Head(toP[c]).type = "kop"
  /\ Pop(toP, c)
  /\ Send(toH, c, [type |-> "kopack"])
  /\ UNCHANGED <<pvars, hvars, started>>

(* handle_kernelop: the memcpy of a COPY_TO_USER or COPY_FROM_USER to or *)
(* from a bad user address kills the program with SIGSEGV.              *)
KopFault(p) ==
  LET c == pch[p] IN
  /\ KopCanFault
  /\ ppc[p] = "recv"
  /\ toP[c] # <<>>
  /\ Head(toP[c]).type = "kop"
  /\ Pop(toP, c)
  /\ PExit(p, "SIGNALLED")
  /\ UNCHANGED <<pch, psc, pchild, pnew, pres, hvars, toH, started>>

(* handle_kernelop -> do_fork: receive the two descriptors and fork. The  *)
(* child closes sd and talks on the new socket; the parent keeps it and   *)
(* waits for the child.                                                   *)
RecvFork(p) ==
  LET c == pch[p]
      n == Head(toP[c]).ch
      q == NewP
  IN
  /\ ppc[p] = "recv"
  /\ toP[c] # <<>>
  /\ Head(toP[c]).type = "fork"
  /\ FreeP # {}
  /\ Pop(toP, c)
  /\ ppc' = [ppc EXCEPT ![p] = "forkwait", ![q] = "recv"]
  /\ pch' = [pch EXCEPT ![q] = n]
  /\ psc' = [psc EXCEPT ![q] = psc[p]]
  /\ pres' = [pres EXCEPT ![q] = pres[p]]
  /\ pchild' = [pchild EXCEPT ![p] = q]
  /\ pnew' = [pnew EXCEPT ![p] = n]
  /\ pholds' = [pholds EXCEPT ![p] = @ \cup {n}, ![q] = {n}]
  /\ UNCHANGED <<pexit, hvars, toH, started>>

(* fake_syscall: read() returns short (EOF): perror, exit(EXIT_FAILURE).  *)
RecvEOF(p) ==
  LET c == pch[p] IN
  /\ ppc[p] = "recv"
  /\ toP[c] = <<>>
  /\ ~HarnessHeld(c)
  /\ PExit(p, "FAILURE")
  /\ UNCHANGED <<pch, psc, pchild, pnew, pres, hvars, toH, toP, started>>

(* Variant: SYS_EXIT carries 0 instead of the child's status.            *)
RelayedStatusZero(p) == "SUCCESS"

(* The status do_fork relays for its child.                               *)
RelayedStatus(p) == pexit[pchild[p]]

(* Variant: the parent does not close msg_fd after relaying.             *)
RelayKeepsOpen(p) ==
  LET n == pnew[p] IN
  /\ ppc[p] = "forkwait"
  /\ ppc[pchild[p]] = "exited"
  /\ IF HarnessHeld(n)
     THEN Send(toH, n, [type |-> "exit", st |-> RelayedStatus(p)])
     ELSE UNCHANGED toH
  /\ ppc' = [ppc EXCEPT ![p] = "recv"]
  /\ UNCHANGED <<pch, psc, pchild, pnew, pexit, pres, pholds, hvars, toP, started>>

(* do_fork, parent: waitpid returned; write SYS_EXIT with the status on   *)
(* the child's socket (the write fails with EPIPE, SIGPIPE being blocked, *)
(* if no harness holds it any more) and close it.                         *)
Relay(p) ==
  LET n == pnew[p] IN
  /\ ppc[p] = "forkwait"
  /\ ppc[pchild[p]] = "exited"
  /\ IF HarnessHeld(n)
     THEN Send(toH, n, [type |-> "exit", st |-> RelayedStatus(p)])
     ELSE UNCHANGED toH
  /\ pholds' = [pholds EXCEPT ![p] = @ \ {n}]
  /\ pnew' = [pnew EXCEPT ![p] = None]
  /\ ppc' = [ppc EXCEPT ![p] = "recv"]
  /\ UNCHANGED <<pch, psc, pchild, pexit, pres, hvars, toP, started>>

-----------------------------------------------------------------------------
Init ==
  /\ hpc = [h \in HPids |-> IF h = 1 THEN "script" ELSE "unused"]
  /\ hch = [h \in HPids |-> None]
  /\ hpeer = [h \in HPids |-> None]
  /\ hop = [h \in HPids |-> [k |-> Syscalls[1], i |-> 1, failed |-> FALSE]]
  /\ hstatus = [h \in HPids |-> None]
  /\ hchild = [h \in HPids |-> None]
  /\ hexit = [h \in HPids |-> "SUCCESS"]
  /\ hsent = [h \in HPids |-> <<>>]
  /\ hholds = [h \in HPids |-> {}]
  /\ ppc = [p \in PPids |-> "unused"]
  /\ pch = [p \in PPids |-> None]
  /\ psc = [p \in PPids |-> 1]
  /\ pchild = [p \in PPids |-> None]
  /\ pnew = [p \in PPids |-> None]
  /\ pexit = [p \in PPids |-> "SUCCESS"]
  /\ pres = [p \in PPids |-> <<>>]
  /\ pholds = [p \in PPids |-> {}]
  /\ toH = [c \in Chans |-> <<>>]
  /\ toP = [c \in Chans |-> <<>>]
  /\ started = [p \in PPids |-> None]

Gone(pc) == pc \in {"unused", "exited"}
AllGone == (\A h \in HPids : Gone(hpc[h])) /\ (\A p \in PPids : Gone(ppc[p]))

(* Every process has exited; nothing more happens.                        *)
Done == AllGone /\ UNCHANGED vars

HStep(h) ==
  \/ StartProgram(h) \/ WaitSyscall(h) \/ WaitExit(h) \/ WaitEOF(h)
  \/ CopyFork(h) \/ CopyForkSendFails(h) \/ Reply(h) \/ Crash(h) \/ ForkResume(h) \/ ForkReport(h)
  \/ KopAck(h) \/ KopEOF(h) \/ HarnessEnd(h)

PStep(p) ==
  \/ Call(p) \/ PeerEnd(p) \/ RecvReply(p) \/ RecvKop(p) \/ KopFault(p) \/ RecvFork(p)
  \/ RecvEOF(p) \/ Relay(p)

Next == (\E h \in HPids : HStep(h)) \/ (\E p \in PPids : PStep(p)) \/ Done

(* Every process is a separate OS process: whichever can run is run.      *)
Fairness == (\A h \in HPids : WF_vars(HStep(h))) /\ (\A p \in PPids : WF_vars(PStep(p)))

Spec == Init /\ [][Next]_vars /\ Fairness

-----------------------------------------------------------------------------
HRunning == {h \in HPids : hpc[h] \in {"script", "wait", "handle", "kop", "ran"}}

(* Types, and: of the harness's fork tree only one process runs at a     *)
(* time (should_i_fail's parent blocks in waitpid until its child exits). *)
TypeOK ==
  /\ hpc \in [HPids -> {"unused", "script", "wait", "handle", "forkwait", "kop",
                         "ran", "exited"}]
  /\ hch \in [HPids -> Chans \cup {None}]
  /\ hpeer \in [HPids -> PPids \cup {None}]
  /\ hop \in [HPids -> [k : Range(Syscalls), i : Nat, failed : BOOLEAN]]
  /\ hstatus \in [HPids -> Status \cup {None}]
  /\ hchild \in [HPids -> HPids \cup {None}]
  /\ hexit \in [HPids -> Status]
  /\ hholds \in [HPids -> SUBSET Chans]
  /\ ppc \in [PPids -> {"unused", "call", "recv", "forkwait", "exited"}]
  /\ pch \in [PPids -> Chans \cup {None}]
  /\ pchild \in [PPids -> PPids \cup {None}]
  /\ pnew \in [PPids -> Chans \cup {None}]
  /\ pexit \in [PPids -> Status]
  /\ pholds \in [PPids -> SUBSET Chans]
  /\ toH \in [Chans -> Seq(ToHarness)]
  /\ toP \in [Chans -> Seq(ToPeer)]
  /\ Cardinality(HRunning) <= 1

(* The peer that talks on the channel harness h created.                  *)
Twin(h) == CHOOSE p \in PPids : ppc[p] # "unused" /\ pch[p] = h

(* When run_command returns in a harness process, its status is the exit *)
(* status of that process's own iptables: for the root through waitpid,  *)
(* for a forked harness through the SYS_EXIT that the peer's do_fork     *)
(* parent relays on the socket fork_other_program created.              *)
StatusRelayed ==
  \A h \in HPids : hpc[h] = "ran" => hstatus[h] = pexit[Twin(h)]

(* Every harness and peer process eventually exits: no process waits for *)
(* EOF on a descriptor that a waiting process keeps open.               *)
AllTerminate == <>AllGone

(* handle_userspace_message writes *status on SYS_EXIT, and               *)
(* send_userspace_message calls it with status NULL while it waits for   *)
(* the peer's answer to a KERNELOP. The NULL write needs a do_fork       *)
(* parent to relay its child's death on the socket of a harness that is  *)
(* blocked in a kernelop. It never happens, even when the peer is killed *)
(* in handle_kernelop: a harness child always takes its fail point's     *)
(* failure first, and iptables exits on the -EFAULT reply, so no harness *)
(* child ever sends a kernelop to a peer child.                          *)
NoExitMidKernelop ==
  \A h \in HPids : hpc[h] = "kop" =>
    \A i \in 1..Len(toH[hch[h]]) : toH[hch[h]][i].type # "exit"

====
