------------------------------- MODULE Holder --------------------------------
(***************************************************************************)
(* pkg/sandbox/pooldocker.go and poolk8s.go: one holder of the pool, that  *)
(* is, one poolImpl.  It is built, runs commands one after the other, each *)
(* followed by cleanup and checkHolder, and is closed.  What the pool does *)
(* between these calls is in module Pool; "idle" is the time between two   *)
(* of its runs.                                                            *)
(*                                                                         *)
(* Inside the holder live the processes of the commands, with the parents  *)
(* that cleanup looks at, and the cleanup scripts: one that nobody waits   *)
(* for any more goes on during the next runs.  "runtime" is the parent 0   *)
(* of what the container runtime starts, "init" is PID 1, to which orphans *)
(* go.  On k8s the command runs below a shell that waits for it and        *)
(* replays its output (the wrapper).  The files are module Capture's.      *)
(*                                                                         *)
(* An operator marked "mutant" is no part of the model: it is the bug that *)
(* replaces the operator after it when a property is tested.               *)
(***************************************************************************)
EXTENDS Naturals

CONSTANTS Procs,     \* identities of processes
          NoProc, HolderProc,
          Last,      \* bound: the number of runs
          Backends,  \* what Opts.Backend may select: "docker", "k8s"
          Faults     \* "api": requests fail; "lost": a create is carried out
                     \* behind an error; "remove": fail's removal fails;
                     \* "stream": the output connection breaks; "death": the
                     \* container or pod ends or is closed

ASSUME HolderAssumption ==
  /\ NoProc \notin Procs /\ HolderProc \in Procs /\ Last \in Nat
  /\ "runtime" \notin Procs /\ "init" \notin Procs
  /\ Backends \subseteq {"docker", "k8s"} /\ Backends # {}
  /\ Faults \subseteq {"api", "lost", "remove", "stream", "death"}

VARIABLES
  backend,
  obj,                   \* the holder's container or pod
  pc, n, res, over,      \* the call in progress, number of the run, its
                         \* Result and error, runCtx.Err() # nil
  procs, parent,         \* live processes, and their parents
  main, exit,            \* the exec's own process and its exit code
  broken,                \* the exec's output connection is lost
  odd,                   \* k8s: processes that have had a space in their name
  script, scan,          \* the cleanup script of each run, what it still visits
  cleaned, doomed,       \* history: the script of this run has ended, what it
                         \* had to kill
  lapsed                 \* history: an answer was lost or a removal failed

resultVars == <<n, res, over>>
callVars == <<pc, resultVars>>
treeVars == <<parent, main, exit, odd>>
procVars == <<procs, treeVars>>     \* what lives in the holder
cleanVars == <<script, scan, cleaned, doomed>>
vars == <<backend, obj, callVars, procVars, broken, cleanVars, lapsed>>

Building == {"create", "verify", "start", "startup", "netwait"}
Stages == Building \cup {"failed", "idle", "exec", "stream", "inspect",
                         "cleanup", "reap", "check", "gone"}

TypeOK ==
  /\ backend \in Backends
  /\ obj \in {"none", "created", "running", "ended", "gone"}
  /\ pc \in Stages /\ n \in 0..Last /\ over \in BOOLEAN
  /\ res \in [code : {"0", "other", "137"}, timedOut : BOOLEAN, err : BOOLEAN]
  /\ procs \subseteq Procs
  /\ parent \in [Procs -> Procs \cup {"runtime", "init"}]
  /\ main \in Procs \cup {NoProc}
  /\ exit \in {"none", "0", "other", "137"} /\ broken \in BOOLEAN
  /\ odd \subseteq Procs
  /\ script \in [1..Last -> {"off", "rm", "kill", "scan"}]
  /\ scan \in [1..Last -> SUBSET Procs]
  /\ cleaned \in BOOLEAN /\ doomed \subseteq Procs /\ lapsed \in BOOLEAN

Up        == obj = "running"
Workload  == procs \ {HolderProc}
ApiFails  == "api" \in Faults \/ ~Up
Fresh(p)  == p \notin procs \cup doomed
NoResult  == [code |-> "0", timedOut |-> FALSE, err |-> FALSE]
Children(p) == {q \in procs : parent[q] = p}

\* The exec's own process on k8s: a shell that waits for its child.
Wrapper(p) == backend = "k8s" /\ parent[p] = "runtime" /\ p # HolderProc

Init ==
  /\ backend \in Backends /\ obj = "none"
  /\ pc = "create" /\ n = 0 /\ res = NoResult /\ over = FALSE
  /\ procs = {} /\ parent = [p \in Procs |-> "runtime"]
  /\ main = NoProc /\ exit = "none"
  /\ broken = FALSE /\ odd = {}
  /\ script = [k \in 1..Last |-> "off"] /\ scan = [k \in 1..Last |-> {}]
  /\ cleaned = FALSE /\ doomed = {} /\ lapsed = FALSE

-----------------------------------------------------------------------------
\* newDockerPool and newK8sPool.

\* A create that fails may have been carried out: nobody removes its container
\* or pod.
Create ==
  /\ pc = "create"
  /\ \/ /\ obj' = "created" /\ UNCHANGED lapsed
        /\ IF backend = "docker" THEN pc' \in {"verify", "start"}
           ELSE pc' = "startup"
     \/ "api" \in Faults /\ pc' = "failed" /\ UNCHANGED <<obj, lapsed>>
     \/ "lost" \in Faults /\ pc' = "failed" /\ obj' = "created" /\ lapsed' = TRUE
  /\ UNCHANGED <<backend, resultVars, procVars, broken, cleanVars>>

\* fail: what was created is removed again; the error of the removal is ignored.
FailForgotten == pc' = "failed" /\ UNCHANGED <<obj, procs, lapsed>> \* mutant
Fail ==
  /\ pc' = "failed"
  /\ \/ obj' = "gone" /\ procs' = {} /\ UNCHANGED lapsed
     \/ "remove" \in Faults /\ lapsed' = TRUE /\ UNCHANGED <<obj, procs>>

\* With Opts.Runtime set: did the daemon honour it?
Verify ==
  /\ pc = "verify"
  /\ \/ pc' = "start" /\ UNCHANGED <<obj, procs, lapsed>>
     \/ Fail
  /\ UNCHANGED <<backend, resultVars, treeVars, broken, cleanVars>>

\* The container or pod runs: its own process is there.
HolderUp == obj' = "running" /\ procs' = {HolderProc}

Start ==
  /\ pc = "start"
  /\ \/ pc' = "idle" /\ HolderUp /\ UNCHANGED lapsed
     \/ "api" \in Faults /\ Fail
  /\ UNCHANGED <<backend, resultVars, treeVars, broken, cleanVars>>

PodStarts ==
  /\ backend = "k8s" /\ obj = "created"
  /\ \/ HolderUp
     \/ obj' = "ended" /\ UNCHANGED procs
  /\ UNCHANGED <<backend, callVars, treeVars, broken, cleanVars, lapsed>>

\* waitPodRunning is content with a pod that has ended; it fails on an error
\* or after sixty seconds.  A wait for the network rules may follow.
Startup ==
  /\ pc = "startup"
  /\ \/ /\ obj \in {"running", "ended"} /\ pc' \in {"netwait", "idle"}
        /\ UNCHANGED <<obj, procs, lapsed>>
     \/ Fail
  /\ UNCHANGED <<backend, resultVars, treeVars, broken, cleanVars>>

NetWait ==
  /\ pc = "netwait"
  /\ \/ pc' = "idle" /\ UNCHANGED <<obj, procs, lapsed>>
     \/ Fail
  /\ UNCHANGED <<backend, resultVars, treeVars, broken, cleanVars>>

BuildStep == Create \/ Verify \/ Start \/ Startup \/ NetWait

-----------------------------------------------------------------------------
\* run.

Run ==
  /\ pc = "idle" /\ n < Last
  /\ pc' = "exec" /\ n' = n + 1 /\ cleaned' = FALSE /\ doomed' = {}
  /\ UNCHANGED <<backend, obj, res, over, procVars, broken, script, scan, lapsed>>

\* The exec's process p starts; on k8s it is the wrapper of the command q.
Launch(p, q) ==
  /\ Fresh(p) /\ main' = p
  /\ IF backend = "docker"
     THEN /\ q = p /\ procs' = procs \cup {p}
          /\ parent' = [parent EXCEPT ![p] = "runtime"]
     ELSE /\ Fresh(q) /\ q # p /\ procs' = procs \cup {p, q}
          /\ parent' = [parent EXCEPT ![p] = "runtime", ![q] = p]

FinishUncleaned(r) == pc' = "idle" /\ res' = r \* mutant
Finish(r) == pc' = "cleanup" /\ res' = r
WithError   == [res EXCEPT !.err = TRUE]
WithTimeout == [res EXCEPT !.err = TRUE, !.timedOut = TRUE]

\* ExecCreate and ExecAttach, or the start of StreamWithContext.  A request
\* that fails may have started the command.
Exec ==
  /\ pc = "exec"
  /\ \/ /\ Up /\ (\E p, q \in Procs : Launch(p, q))
        /\ pc' = "stream" /\ UNCHANGED res
     \/ /\ (ApiFails \/ over)
        /\ \/ UNCHANGED <<procs, parent, main>>
           \/ Up /\ \E p, q \in Procs : Launch(p, q)
        /\ Finish(IF backend = "k8s" /\ over THEN WithTimeout ELSE WithError)
  /\ UNCHANGED <<backend, obj, n, over, exit, broken, odd, cleanVars, lapsed>>

\* The output ends with the command, or because the connection breaks.
StreamEnds == main = NoProc \/ broken

OverUnseen == FALSE                   \* mutant
Over == over

\* The select of docker's run: the output has ended or the context has; then
\* the context is asked first.
OutputOnly == StreamEnds              \* mutant: run waits for the output
Selected == StreamEnds \/ over

StreamDocker ==
  /\ backend = "docker" /\ Selected
  /\ \/ Over /\ Finish(WithTimeout)
     \/ ~Over /\ pc' = "inspect" /\ UNCHANGED res

\* k8s: StreamWithContext returns nil, an exit code or another error.
AnyError == exit # "0"                \* mutant: every error is an exit code
CodeExitError == exit \in {"other", "137"}

StreamK8s ==
  /\ backend = "k8s"
  /\ \/ exit = "0" /\ Finish(res)
     \/ exit # "0" /\ over /\ Finish(WithTimeout)
     \/ CodeExitError /\ ~over /\ Finish([res EXCEPT !.code = exit])
     \/ (~Up \/ broken) /\ ~over /\ Finish(WithError)

Stream ==
  /\ pc = "stream" /\ (StreamDocker \/ StreamK8s)
  /\ UNCHANGED <<backend, obj, n, over, procVars, broken, cleanVars, lapsed>>

\* ExecInspect: a command that is still running has exit code 0.
Inspect ==
  /\ pc = "inspect"
  /\ \/ Finish([res EXCEPT !.code = IF exit = "none" THEN "0" ELSE exit])
     \/ ApiFails /\ Finish(WithError)
  /\ UNCHANGED <<backend, obj, n, over, procVars, broken, cleanVars, lapsed>>

-----------------------------------------------------------------------------
\* cleanup, checkHolder.

\* The steps of the cleanup script: docker removes files first, k8s goes
\* through the processes first.
Order == IF backend = "docker" THEN <<"rm", "kill">> ELSE <<"scan", "rm">>

\* The script of this run starts.  It has to kill what is an orphan now; on
\* docker, everything.
ScriptStarts ==
  /\ Up /\ script' = [script EXCEPT ![n] = Order[1]]
  /\ scan' = [scan EXCEPT ![n] = IF backend = "k8s" THEN procs ELSE {}]
  /\ doomed' = {p \in Workload : backend = "docker" \/ parent[p] = "init"}

\* run has returned: what it knew of its exec is forgotten.
Forget ==
  /\ res' = NoResult /\ over' = FALSE
  /\ main' = NoProc /\ exit' = "none" /\ broken' = FALSE

\* The exec request of cleanup.  When it fails nothing is cleaned, or the script
\* has started and nobody waits for it.
Cleanup ==
  /\ pc = "cleanup" /\ Forget
  /\ \/ ScriptStarts /\ (pc' = "reap" \/ ("api" \in Faults /\ pc' = "check"))
     \/ ApiFails /\ pc' = "check" /\ UNCHANGED <<script, scan, doomed>>
  /\ UNCHANGED <<backend, obj, n, procs, parent, odd, cleaned, lapsed>>

\* Processes ps end, with exit code `how` for the exec's own one; what they
\* leave behind becomes an orphan.
End(ps, how) ==
  /\ procs' = procs \ ps /\ odd' = odd \ ps
  /\ parent' = [p \in Procs |-> IF p \in ps THEN "runtime"
                                ELSE IF parent[p] \in ps THEN "init"
                                ELSE parent[p]]
  /\ IF main \in ps THEN main' = NoProc /\ exit' = how
                    ELSE UNCHANGED <<main, exit>>

\* What the scripts still visit when ps have been visited or are gone.
Unvisited(ps) == [k \in 1..Last |-> scan[k] \ ps]

\* A step of the script of run k is done.
StepDone(k) ==
  \/ /\ script[k] = Order[1] /\ script' = [script EXCEPT ![k] = Order[2]]
     /\ UNCHANGED cleaned
  \/ /\ script[k] = Order[2] /\ script' = [script EXCEPT ![k] = "off"]
     /\ cleaned' = (cleaned \/ k = n)

\* rm -rf /work/* /tmp/*; which files that are is module Capture's.
RemoveFiles(k) ==
  /\ script[k] = "rm" /\ StepDone(k)
  /\ UNCHANGED <<backend, obj, callVars, procVars, scan, doomed, broken, lapsed>>

\* docker: kill -9 -1 as the workload's user; the holder is another user's, any
\* other script of cleanup is the same's.
KillSpares == {p \in procs : parent[p] = "init"} \* mutant: orphans survive
Spared == {}

KillAll(k) ==
  /\ script[k] = "kill" /\ End(Workload \ Spared, "137")
  /\ script' = [j \in 1..Last |-> "off"]
  /\ cleaned' = (cleaned \/ script[n] # "off")
  /\ UNCHANGED <<backend, obj, callVars, broken, scan, doomed, lapsed>>

\* k8s: the loop over /proc kills what has PID 1 for a parent.
AnyParent(p) == TRUE                  \* mutant
IsOrphan(p) == parent[p] = "init"

\* The fourth field of /proc/pid/stat, which the script takes for the parent, is
\* anything after a name with a space.
Verdicts(p) == IF p \in odd THEN BOOLEAN ELSE {IsOrphan(p)}

Visit(k) ==
  /\ script[k] = "scan"
  /\ \/ \E p \in scan[k] \cap procs, kill \in BOOLEAN :
          /\ kill \in Verdicts(p) /\ UNCHANGED <<script, cleaned>>
          /\ IF kill THEN End({p}, "137") /\ scan' = Unvisited({p})
             ELSE scan' = [scan EXCEPT ![k] = @ \ {p}] /\ UNCHANGED procVars
     \/ scan[k] \cap procs = {} /\ StepDone(k) /\ UNCHANGED <<scan, procVars>>
  /\ UNCHANGED <<backend, obj, callVars, broken, doomed, lapsed>>

\* cleanup returns when its exec has ended, when its connection breaks, or after
\* its ten seconds, which docker's copy of the output does not know.
Reaped ==
  /\ pc = "reap" /\ pc' = "check"
  /\ script[n] = "off" \/ "stream" \in Faults \/ backend = "k8s"
  /\ UNCHANGED <<backend, obj, resultVars, procVars, broken, cleanVars, lapsed>>

Check ==
  /\ pc = "check"
  /\ \/ Up /\ pc' = "idle"
     \/ ApiFails /\ pc' = "gone"
  /\ UNCHANGED <<backend, obj, resultVars, procVars, broken, cleanVars, lapsed>>

CallStep == Exec \/ Stream \/ Inspect \/ Cleanup \/ Reaped \/ Check
ScriptStep == \E k \in 1..Last : RemoveFiles(k) \/ KillAll(k) \/ Visit(k)

-----------------------------------------------------------------------------
\* The workload and the rest of the environment.

\* A child starts with its parent's name.
Fork(p, q) ==
  /\ p \in Workload /\ ~Wrapper(p) /\ Fresh(q)
  /\ procs' = procs \cup {q}
  /\ parent' = [parent EXCEPT ![q] = p]
  /\ odd' = IF p \in odd THEN odd \cup {q} ELSE odd
  /\ UNCHANGED <<backend, obj, callVars, main, exit, broken, cleanVars, lapsed>>

\* A process of the workload takes a name with a space.  Only k8s' script reads
\* names.
Rename(p) ==
  /\ backend = "k8s" /\ p \in Workload /\ ~Wrapper(p)
  /\ odd' = odd \cup {p}
  /\ UNCHANGED <<backend, obj, callVars, procs, parent, main, exit, broken,
                 cleanVars, lapsed>>

Exit(p) ==
  /\ p \in Workload /\ (Wrapper(p) => Children(p) = {})
  /\ \E how \in {"0", "other"} : End({p}, how)
  /\ scan' = Unvisited({p})
  /\ UNCHANGED <<backend, obj, callVars, broken, script, cleaned, doomed, lapsed>>

\* Opts.Timeout expires or the caller's context ends.
ContextEnds ==
  /\ pc \in {"exec", "stream"} /\ ~over /\ over' = TRUE
  /\ UNCHANGED <<backend, obj, pc, n, res, procVars, broken, cleanVars, lapsed>>

StreamBreaks ==
  /\ "stream" \in Faults /\ pc = "stream" /\ ~broken /\ broken' = TRUE
  /\ UNCHANGED <<backend, obj, callVars, procVars, cleanVars, lapsed>>

\* The container or pod ends, or the pool closes the holder.
HolderEnds ==
  /\ "death" \in Faults /\ Up /\ obj' \in {"ended", "gone"}
  /\ End(procs, "137")
  /\ script' = [k \in 1..Last |-> "off"] /\ scan' = [k \in 1..Last |-> {}]
  /\ UNCHANGED <<backend, callVars, broken, cleaned, doomed, lapsed>>

Environment ==
  \/ \E p, q \in Procs : Fork(p, q)
  \/ \E p \in Procs : Exit(p) \/ Rename(p)
  \/ ContextEnds \/ StreamBreaks \/ HolderEnds \/ PodStarts

Next == BuildStep \/ Run \/ CallStep \/ ScriptStep \/ Environment

Spec == Init /\ [][Next]_vars

(***************************************************************************)
(* Requests are answered, the timer of a run fires, the cleanup script     *)
(* runs.  The workload need do nothing.                                    *)
(***************************************************************************)
Fairness ==
  WF_vars(CallStep) /\ WF_vars(ScriptStep) /\ WF_vars(ContextEnds)

FairSpec == Spec /\ Fairness

-----------------------------------------------------------------------------
(***************************************************************************)
(* "fail" (pooldocker.go:65, poolk8s.go:109): every way on which a holder  *)
(* cannot be brought up removes its container or pod.  What can stay is    *)
(* what a create whose answer is lost has made (pooldocker.go:59,          *)
(* poolk8s.go:102) and what fail's removal, whose error is ignored, fails  *)
(* to remove.                                                              *)
(***************************************************************************)
NothingBuiltInVain == pc = "failed" /\ ~lapsed => obj \in {"none", "gone"}

(***************************************************************************)
(* Cleanup never kills the holder's own process: "the root-side holder is  *)
(* untouchable" (pooldocker.go:155, of a container whose image does not    *)
(* run as Opts.User), "Holder and cleanup are spared automatically"        *)
(* (poolk8s.go:219).                                                       *)
(***************************************************************************)
HolderSpared == Up => HolderProc \in procs

(***************************************************************************)
(* When the script of a run's cleanup has ended, what it had to reap is    *)
(* dead, although the workload forks and exits meanwhile and an earlier    *)
(* script may still be at work.  docker: everything, "kill -9 -1 kills     *)
(* everything that uid can signal" (pooldocker.go:155).  k8s: what was an  *)
(* orphan when the script began (poolk8s.go:215), but for processes with a *)
(* space in their name, which the script takes for orphans or not.         *)
(***************************************************************************)
OrphansReaped ==
  cleaned => /\ doomed \cap procs \subseteq odd
             /\ backend = "docker" => Workload = {}

(***************************************************************************)
(* The Result is true (sandbox.go:117-143): without an error the command   *)
(* has ended with that exit code, also when its end races the timeout; a   *)
(* timeout comes with an error and after the end of the context.  Only     *)
(* when docker's output connection broke can this not be said: Inspect     *)
(* then takes the exit code 0 of a command that is still running.          *)
(***************************************************************************)
ResultTrue ==
  pc = "cleanup" =>
    /\ ~res.err => \/ exit # "none" /\ res.code = exit
                   \/ backend = "docker" /\ broken
    /\ res.timedOut => res.err /\ over

(***************************************************************************)
(* "opts.Timeout applies per run" (README.MD:165): run, cleanup and        *)
(* checkHolder come to an end, so that the holder is released or dropped,  *)
(* although the command never ends.                                        *)
(***************************************************************************)
RunReturns == pc = "exec" ~> pc \in {"idle", "gone"}

-----------------------------------------------------------------------------
\* PoolImpl's view of this holder, before newImpl returns and after.  What is
\* removed while the pool has the holder is down for the pool: close is idempotent.
CallOf ==
  CASE pc \in Building \cup {"failed"} -> "none"
    [] pc = "idle" -> "idle"
    [] pc \in {"exec", "stream", "inspect", "cleanup", "reap"} -> "run"
    [] pc = "check" -> "check"
    [] pc = "gone" -> "dead"

ObjOf ==
  IF pc = "failed" /\ lapsed THEN "left"
  ELSE IF pc \in Building \/ (pc = "failed" /\ obj \in {"none", "gone"})
  THEN "absent"
  ELSE IF obj \in {"created", "running"} THEN "up" ELSE "down"

Calls == INSTANCE PoolImpl WITH Holders <- {HolderProc},
                                call <- [h \in {HolderProc} |-> CallOf],
                                obj <- [h \in {HolderProc} |-> ObjOf]

(***************************************************************************)
(* A holder keeps to the protocol of poolImpl (pool.go:23-33): a failed    *)
(* newImpl leaves nothing that is used again, and nothing at all but where *)
(* NothingBuiltInVain says so; a run ends in cleanup and checkHolder, also *)
(* after an error or a timeout, and only a holder that is up passes.       *)
(***************************************************************************)
ImplementsPoolImpl == Calls!Spec
=============================================================================
