------------------------------- MODULE OneShot -------------------------------
(***************************************************************************)
(* pkg/sandbox/dockerapi.go and k8sapi.go: Backend.Run, a container or pod *)
(* made, used once and removed.                                            *)
(*                                                                         *)
(* Each call has its own container or pod (obj) with the caller's command  *)
(* in it (cmd), a connection that carries the command's output (link), and *)
(* a goroutine that copies the output into the caller's buffers (copier).  *)
(* Output is counted in chunks: made by the command, got by the caller.    *)
(* The calls share only the namespace's NetworkPolicy.                     *)
(*                                                                         *)
(* An operator marked "mutant" is no part of the model: it is the bug that *)
(* replaces the operator after it when a property is tested.               *)
(***************************************************************************)
EXTENDS Naturals

CONSTANTS Calls,     \* calls of Backend.Run
          Backends,  \* what Opts.Backend may select: "docker", "k8s"
          Writers,   \* bound: the calls whose commands write output
          Chunks,    \* bound: the chunks a command writes at most
          Faults     \* which of the faults below the environment shows

\* "api": a request fails; "lost": one that creates the object fails although
\* it was carried out; "remove": the removal fails; "stream": the output
\* connection breaks; "death": a pod ends under its command;
\* "cancel": the caller's context ends.
AllFaults == {"api", "lost", "remove", "stream", "death", "cancel"}

ASSUME OneShotAssumption ==
  /\ Backends \subseteq {"docker", "k8s"} /\ Backends # {}
  /\ Chunks \in Nat /\ Faults \subseteq AllFaults

VARIABLES
  backend,              \* Opts.Backend, the same for all calls
  pc, res,              \* each call: where it is, its Result and error
  obj, cmd, made,       \* its container or pod, the command, chunks written
  link, copier, got,    \* the output connection and the copying goroutine
  shut,                 \* k8s: syncWriter.closed
  cut,                  \* history: why the output may be incomplete: its
                        \* connection was "broken", docker's Run found the
                        \* copier "late"
  timer, cancelled,     \* Opts.Timeout's timer, the caller's context
  policy                \* the namespace has the deny-all NetworkPolicy

callVars == <<pc, res>>
objVars  == <<obj, cmd, made>>
outVars  == <<link, copier, got, shut, cut>>
ctxVars  == <<timer, cancelled>>
vars     == <<backend, callVars, objVars, outVars, ctxVars, policy>>

Stages == {"idle", "policy", "create", "verify", "attach", "start", "wait",
           "drain", "oom", "startup", "netwait", "exec", "stream", "cleanup",
           "returned"}

\* How a command ends by itself: exit code 0, another one, or the 137 of a
\* killed process.
Exits == {"0", "other", "137"}

Results == [code : Exits, timedOut : BOOLEAN, oom : BOOLEAN, err : BOOLEAN]

TypeOK ==
  /\ backend \in Backends
  /\ pc \in [Calls -> Stages]
  /\ res \in [Calls -> Results]
  /\ obj \in [Calls -> {"none", "created", "running", "ended", "gone"}]
  /\ cmd \in [Calls -> Exits \cup {"none", "running", "killed"}]
  /\ made \in [Calls -> 0..Chunks] /\ got \in [Calls -> 0..Chunks]
  /\ link \in [Calls -> {"none", "up", "down"}]
  /\ copier \in [Calls -> {"none", "reading", "writing", "done"}]
  /\ shut \in [Calls -> BOOLEAN]
  /\ cut \in [Calls -> {"none", "broken", "late"}]
  /\ timer \in [Calls -> {"off", "armed", "fired"}]
  /\ cancelled \in [Calls -> BOOLEAN] /\ policy \in BOOLEAN

Init ==
  /\ backend \in Backends
  /\ policy \in IF backend = "k8s" THEN BOOLEAN ELSE {FALSE}
  /\ pc = [c \in Calls |-> "idle"]
  /\ res = [c \in Calls |-> [code |-> "0", timedOut |-> FALSE, oom |-> FALSE,
                             err |-> FALSE]]
  /\ obj = [c \in Calls |-> "none"] /\ cmd = [c \in Calls |-> "none"]
  /\ made = [c \in Calls |-> 0] /\ got = [c \in Calls |-> 0]
  /\ link = [c \in Calls |-> "none"] /\ copier = [c \in Calls |-> "none"]
  /\ shut = [c \in Calls |-> FALSE] /\ cut = [c \in Calls |-> "none"]
  /\ timer = [c \in Calls |-> "off"] /\ cancelled = [c \in Calls |-> FALSE]

ApiFails(c) == "api" \in Faults \/ cancelled[c]

\* runCtx.Err() # nil
RunOverCtxOnly(c) == cancelled[c]     \* mutant
RunOver(c) == cancelled[c] \/ timer[c] = "fired"

Goto(c, stage) == pc' = [pc EXCEPT ![c] = stage]
Move(c, stage) == Goto(c, stage) /\ UNCHANGED res

\* What is filled in of a Result, the error included.
Failed(r)       == [r EXCEPT !.err = TRUE]
Late(r)         == [r EXCEPT !.err = TRUE, !.timedOut = TRUE]
Coded(r, code)  == [r EXCEPT !.code = code]
Killed(r, seen) == [r EXCEPT !.oom = seen]

\* Return with an error before there is anything to clean up.
ReturnError(c) == Goto(c, "returned") /\ res' = [res EXCEPT ![c] = Failed(@)]

\* Return with an error; the deferred cleanup runs first.
AbortBeforeDefer(c) == ReturnError(c) \* mutant
Abort(c) == Goto(c, "cleanup") /\ res' = [res EXCEPT ![c] = Failed(@)]

TimeOut(c) == Goto(c, "cleanup") /\ res' = [res EXCEPT ![c] = Late(@)]

\* The command is started, with its output connected to a copier.
Connect(c) ==
  /\ link' = [link EXCEPT ![c] = "up"]
  /\ copier' = [copier EXCEPT ![c] = "reading"]

-----------------------------------------------------------------------------
\* Both backends.

\* The client is made; k8s: the options are checked.
Begin(c) ==
  /\ pc[c] = "idle"
  /\ \/ Move(c, IF backend = "docker" THEN "create" ELSE "policy")
     \/ "api" \in Faults /\ ReturnError(c)
  /\ UNCHANGED <<backend, objVars, outVars, ctxVars, policy>>

\* ContainerCreate or Pods.Create.  From here on the deferred cleanup is set
\* up, unless the request failed.
Create(c) ==
  /\ pc[c] = "create"
  /\ \/ /\ obj' = [obj EXCEPT ![c] = "created"]
        /\ IF backend = "docker"
           THEN /\ \E s \in {"verify", "attach"} : Move(c, s)
                /\ UNCHANGED timer
           ELSE Move(c, "startup") /\ timer' = [timer EXCEPT ![c] = "armed"]
     \/ /\ ApiFails(c) /\ ReturnError(c) /\ UNCHANGED timer
        /\ \/ UNCHANGED obj
           \/ "lost" \in Faults /\ obj' = [obj EXCEPT ![c] = "created"]
  /\ UNCHANGED <<backend, cmd, made, outVars, cancelled, policy>>

\* The deferred calls: the connection is closed, the object removed by force.
Cleanup(c) ==
  /\ pc[c] = "cleanup" /\ Move(c, "returned")
  /\ link' = [link EXCEPT ![c] = IF @ = "up" THEN "down" ELSE @]
  /\ \/ /\ obj' = [obj EXCEPT ![c] = "gone"]
        /\ cmd' = [cmd EXCEPT ![c] = IF @ = "running" THEN "killed" ELSE @]
     \/ "remove" \in Faults /\ UNCHANGED <<obj, cmd>>
  /\ UNCHANGED <<backend, made, copier, got, shut, cut, ctxVars, policy>>

\* The daemon says that the command has ended.
ExitAssumed(c) == TRUE                \* mutant
Exited(c) == cmd[c] \in Exits

\* The exit code a finished command is reported with.
ExitStatusForgotten(c) == "0"         \* mutant
ExitStatus(c) == cmd[c]

-----------------------------------------------------------------------------
\* dockerBackend.Run.

\* With Opts.Runtime set: did the daemon honour it?
Verify(c) ==
  /\ pc[c] = "verify"
  /\ (Move(c, "attach") \/ Abort(c))
  /\ UNCHANGED <<backend, objVars, outVars, ctxVars, policy>>

Attach(c) ==
  /\ pc[c] = "attach"
  /\ \/ Move(c, "start") /\ Connect(c)
     \/ ApiFails(c) /\ Abort(c) /\ UNCHANGED <<link, copier>>
  /\ UNCHANGED <<backend, objVars, got, shut, cut, ctxVars, policy>>

Started(c) ==
  obj' = [obj EXCEPT ![c] = "running"] /\ cmd' = [cmd EXCEPT ![c] = "running"]

\* ContainerStart, and the timer's start.
Start(c) ==
  /\ pc[c] = "start"
  /\ \/ /\ Started(c) /\ Move(c, "wait")
        /\ timer' = [timer EXCEPT ![c] = "armed"]
     \/ /\ ApiFails(c) /\ Abort(c) /\ UNCHANGED timer
        /\ (Started(c) \/ UNCHANGED <<obj, cmd>>)
  /\ UNCHANGED <<backend, made, outVars, cancelled, policy>>

\* ContainerWait under runCtx.
Wait(c) ==
  /\ pc[c] = "wait"
  /\ \/ /\ Exited(c) /\ Goto(c, "drain")
        /\ res' = [res EXCEPT ![c] = Coded(@, ExitStatus(c))]
     \/ RunOver(c) /\ TimeOut(c)
     \/ "api" \in Faults /\ ~RunOver(c) /\ Abort(c)
  /\ UNCHANGED <<backend, objVars, outVars, ctxVars, policy>>

DrainSkipped(c) == TRUE               \* mutant
Drained(c) == copier[c] = "done"

\* The copier is done, or two seconds have passed: the connection stalls, or the
\* caller's writer is slow.  Run does not tell which, and goes on.
Drain(c) ==
  /\ pc[c] = "drain" /\ Move(c, "oom")
  /\ \/ Drained(c) /\ UNCHANGED cut
     \/ ~Drained(c) /\ cut' = [cut EXCEPT ![c] = "late"]
  /\ UNCHANGED <<backend, objVars, link, copier, got, shut, ctxVars, policy>>

\* The last inspect may tell that PID 1 was OOM-killed, or may fail.
InspectOOM(c) ==
  /\ pc[c] = "oom" /\ Goto(c, "cleanup")
  /\ \E seen \in {FALSE, cmd[c] = "137"} :
       res' = [res EXCEPT ![c] = Killed(@, seen)]
  /\ UNCHANGED <<backend, objVars, outVars, ctxVars, policy>>

DockerStep(c) ==
  Verify(c) \/ Attach(c) \/ Start(c) \/ Wait(c) \/ Drain(c) \/ InspectOOM(c)

-----------------------------------------------------------------------------
\* k8sBackend.Run.

\* ensureIsolationPolicy: the policy is created, or exists already.
PolicyErrorIgnored(c) == Move(c, "create") \* mutant
PolicyError(c) == ReturnError(c)

EnsurePolicy(c) ==
  /\ pc[c] = "policy"
  /\ \/ policy' = TRUE /\ Move(c, "create")
     \/ ApiFails(c) /\ PolicyError(c) /\ UNCHANGED policy
  /\ UNCHANGED <<backend, objVars, outVars, ctxVars>>

\* waitPodRunning polls until the pod runs, or has ended at once.
WaitPodRunning(c) ==
  /\ pc[c] = "startup"
  /\ \/ /\ obj[c] \in {"running", "ended"}
        /\ \E s \in {"netwait", "exec"} : Move(c, s)
     \/ RunOver(c) /\ TimeOut(c)
     \/ "api" \in Faults /\ ~RunOver(c) /\ Abort(c)
  /\ UNCHANGED <<backend, objVars, outVars, ctxVars, policy>>

\* With Opts.NetWait set.
NetWait(c) ==
  /\ pc[c] = "netwait"
  /\ \/ Move(c, "exec")
     \/ RunOver(c) /\ TimeOut(c)
  /\ UNCHANGED <<backend, objVars, outVars, ctxVars, policy>>

\* The exec request, up to the connection of its streams.
Exec(c) ==
  /\ pc[c] = "exec"
  /\ \/ /\ obj[c] = "running" /\ cmd' = [cmd EXCEPT ![c] = "running"]
        /\ Connect(c) /\ Move(c, "stream")
     \/ /\ \/ RunOver(c) /\ TimeOut(c)
           \/ ("api" \in Faults \/ obj[c] = "ended") /\ ~RunOver(c) /\ Abort(c)
        /\ UNCHANGED <<cmd, link, copier>>
  /\ UNCHANGED <<backend, obj, made, got, shut, cut, ctxVars, policy>>

\* StreamWithContext returns: the command has exited and its output has been
\* copied, or runCtx ended, or the connection broke, which carries the exit code
\* too.  Then both syncWriters close.
Stream(c) ==
  /\ pc[c] = "stream"
  /\ \/ /\ Exited(c) /\ copier[c] = "done" /\ link[c] = "up"
        /\ (cmd[c] = "0" \/ ~RunOver(c))
        /\ Goto(c, "cleanup")
        /\ res' = [res EXCEPT ![c] = Killed(Coded(@, ExitStatus(c)),
                                            cmd[c] = "137")]
     \/ RunOver(c) /\ TimeOut(c)
     \/ /\ (cmd[c] = "killed" \/ link[c] = "down")
        /\ ~RunOver(c) /\ Abort(c)
  /\ link' = [link EXCEPT ![c] = "down"] /\ shut' = [shut EXCEPT ![c] = TRUE]
  /\ UNCHANGED <<backend, objVars, copier, got, cut, ctxVars, policy>>

K8sStep(c) ==
  EnsurePolicy(c) \/ WaitPodRunning(c) \/ NetWait(c) \/ Exec(c) \/ Stream(c)

CallStep(c) == Create(c) \/ Cleanup(c) \/ DockerStep(c) \/ K8sStep(c)

-----------------------------------------------------------------------------
\* The goroutine that copies output: StdCopy, or client-go's copiers behind
\* syncWriter.

Read(c) ==
  /\ copier[c] = "reading" /\ link[c] = "up" /\ got[c] < made[c]
  /\ copier' = [copier EXCEPT ![c] = "writing"] /\ UNCHANGED got

\* syncWriter.Write drops what comes after Close.
NeverDropped(c) == FALSE              \* mutant
Dropped(c) == shut[c]

Write(c) ==
  /\ copier[c] = "writing" /\ copier' = [copier EXCEPT ![c] = "reading"]
  /\ got' = [got EXCEPT ![c] = IF Dropped(c) THEN @ ELSE @ + 1]

CopyEnds(c) ==
  /\ copier[c] = "reading" /\ copier' = [copier EXCEPT ![c] = "done"]
  /\ \/ link[c] = "down"
     \/ cmd[c] \notin {"none", "running"} /\ got[c] = made[c]
  /\ UNCHANGED got

CopyStep(c) ==
  /\ (Read(c) \/ Write(c) \/ CopyEnds(c))
  /\ UNCHANGED <<backend, callVars, objVars, link, shut, cut, ctxVars, policy>>

-----------------------------------------------------------------------------
\* The environment.

Produce(c) ==
  /\ c \in Writers /\ cmd[c] = "running" /\ made[c] < Chunks
  /\ made' = [made EXCEPT ![c] = @ + 1]
  /\ UNCHANGED <<backend, callVars, obj, cmd, outVars, ctxVars, policy>>

\* The command exits; a container ends with its command, a pod does not.
Exit(c) ==
  /\ cmd[c] = "running"
  /\ \E how \in Exits : cmd' = [cmd EXCEPT ![c] = how]
  /\ obj' = [obj EXCEPT ![c] = IF backend = "docker" THEN "ended" ELSE @]
  /\ UNCHANGED <<backend, callVars, made, outVars, ctxVars, policy>>

PodStarts(c) ==
  /\ backend = "k8s" /\ obj[c] = "created"
  /\ \E s \in {"running", "ended"} : obj' = [obj EXCEPT ![c] = s]
  /\ UNCHANGED <<backend, callVars, cmd, made, outVars, ctxVars, policy>>

PodDies(c) ==
  /\ "death" \in Faults /\ backend = "k8s" /\ obj[c] = "running"
  /\ obj' = [obj EXCEPT ![c] = "ended"]
  /\ cmd' = [cmd EXCEPT ![c] = IF @ = "running" THEN "killed" ELSE @]
  /\ UNCHANGED <<backend, callVars, made, outVars, ctxVars, policy>>

\* The copier then ends with an error, at which nobody looks.  Before these stages
\* a break is as one in them, and after them as the deferred Close.
LinkBreaks(c) ==
  /\ "stream" \in Faults /\ link[c] = "up" /\ pc[c] \in {"wait", "drain", "stream"}
  /\ link' = [link EXCEPT ![c] = "down"]
  /\ cut' = [cut EXCEPT ![c] = "broken"]
  /\ UNCHANGED <<backend, callVars, objVars, copier, got, shut, ctxVars, policy>>

\* After these stages nobody asks a context of the run any more: draining, the
\* last inspect and the deferred removal have contexts of their own.
Asking(c) == pc[c] \notin {"drain", "oom", "cleanup", "returned"}

TimerFires(c) ==
  /\ timer[c] = "armed" /\ Asking(c)
  /\ timer' = [timer EXCEPT ![c] = "fired"]
  /\ UNCHANGED <<backend, callVars, objVars, outVars, cancelled, policy>>

Cancel(c) ==
  /\ "cancel" \in Faults /\ ~cancelled[c] /\ Asking(c)
  /\ cancelled' = [cancelled EXCEPT ![c] = TRUE]
  /\ UNCHANGED <<backend, callVars, objVars, outVars, timer, policy>>

Environment(c) ==
  \/ Produce(c) \/ Exit(c) \/ PodStarts(c) \/ PodDies(c)
  \/ LinkBreaks(c) \/ TimerFires(c) \/ Cancel(c)

Next ==
  \E c \in Calls : Begin(c) \/ CallStep(c) \/ CopyStep(c) \/ Environment(c)

Spec == Init /\ [][Next]_vars

(***************************************************************************)
(* The backend's requests are answered and goroutines that can run do run. *)
(* Commands need not end, pods need not start, timers fire in their time.  *)
(***************************************************************************)
Fairness ==
  \A c \in Calls : WF_vars(CallStep(c)) /\ WF_vars(CopyStep(c))

FairSpec == Spec /\ Fairness

-----------------------------------------------------------------------------
Returned(c) == pc[c] = "returned"

(***************************************************************************)
(* "Guaranteed cleanup on every exit path, including ctrl-C" (README.MD:57,*)
(* sandbox.go:153): when Run has returned there is no container or pod of  *)
(* its own left, whichever step failed.                                    *)
(***************************************************************************)
CleanedUp == \A c \in Calls : Returned(c) => obj[c] \in {"none", "gone"}

(***************************************************************************)
(* "stdout and stderr receive the command's output" (sandbox.go:155): when *)
(* Run returns without error the caller has all of it, although copying    *)
(* and waiting are separate goroutines.  k8s keeps this.  docker's Run     *)
(* also returns nil when its copier is late by two seconds                 *)
(* (dockerapi.go:148) or has failed (146-147), and the output may then be  *)
(* short; there is no other way for it to be.                              *)
(***************************************************************************)
OutputWhole ==
  \A c \in Calls : Returned(c) /\ ~res[c].err =>
    got[c] = made[c] \/ (backend = "docker" /\ cut[c] # "none")

(***************************************************************************)
(* syncWriter (syncwriter.go:14): once Run has returned, a copier that     *)
(* outlives it does not touch the caller's buffers.  On docker this holds  *)
(* only for calls that waited for their copier: not after an error, and    *)
(* not when it was late.                                                   *)
(***************************************************************************)
QuietAfterReturn ==
  [][\A c \in Calls :
       Returned(c) /\ (backend = "k8s" \/ (~res[c].err /\ cut[c] # "late"))
         => got'[c] = got[c]]_vars

(***************************************************************************)
(* The Result is true (sandbox.go:117-143): without an error the command   *)
(* has ended by itself with that exit code; a timeout comes with an error  *)
(* and only when the run's context has ended; oom_killed only with 137.    *)
(***************************************************************************)
ResultTrue ==
  \A c \in Calls : Returned(c) =>
    /\ ~res[c].err => cmd[c] = res[c].code
    /\ res[c].timedOut => res[c].err /\ RunOver(c)
    /\ res[c].oom => cmd[c] = "137"

(***************************************************************************)
(* No pod starts before the namespace has its deny-all policy, whichever   *)
(* of several calls creates it and whichever fails (k8sapi.go:134).        *)
(***************************************************************************)
Isolated == \A c \in Calls : backend = "k8s" /\ obj[c] # "none" => policy

(***************************************************************************)
(* "Timeout is the hard wall-clock limit for the run" (sandbox.go:41): a   *)
(* call whose timer has fired returns, although the command, the pod or    *)
(* the stream never ends.                                                  *)
(***************************************************************************)
TimeoutReturns == \A c \in Calls : timer[c] = "fired" ~> Returned(c)
=============================================================================
