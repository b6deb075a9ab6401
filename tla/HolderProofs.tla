----------------------------- MODULE HolderProofs -----------------------------
(***************************************************************************)
(* Proofs about one holder, for any number of processes and runs, both     *)
(* backends and any faults: its own process is spared, what cleanup must   *)
(* reap is reaped although earlier scripts may still be at work, and a     *)
(* result is true.                                                         *)
(*                                                                         *)
(* None of these is inductive.  HolderInv adds where the processes hang in *)
(* the tree (Tree), what a build leaves (Brought), what the call's stage   *)
(* says of the exec and its result (Called), and what each step of the     *)
(* run's cleanup script has achieved (Script, Swept).                      *)
(***************************************************************************)
EXTENDS Holder, TLAPS

\* The holder's own process is the runtime's child and lives as long as the
\* container or pod.
Tree ==
  /\ parent[HolderProc] = "runtime" /\ HolderProc \notin odd
  /\ Up => HolderProc \in procs
  /\ ~Up => procs = {}

\* What has been created when (pooldocker.go:31-87, poolk8s.go:102-131).
Brought ==
  /\ pc = "create" => obj = "none"
  /\ obj = "created" => pc \in (Building \ {"netwait"}) \cup {"failed"}
  /\ lapsed => pc = "failed"
  /\ NothingBuiltInVain

\* The exec's process, its exit code and the result, by the call's stage.
Called ==
  /\ exit # "none" => main = NoProc
  /\ pc \notin {"stream", "inspect", "cleanup"} => main = NoProc /\ exit = "none"
  /\ pc # "cleanup" => res = NoResult
  /\ pc \in {"stream", "inspect"} => main # NoProc \/ exit # "none"
  /\ pc = "inspect" => backend = "docker" /\ (exit # "none" \/ broken)
  /\ ResultTrue

\* Once a run's cleanup has begun.
After == {"reap", "check", "idle", "gone"}

\* A script belongs to an earlier run, or to this one's cleanup.
Script ==
  /\ pc \in {"exec", "stream", "inspect", "cleanup", "reap"} => n \in 1..Last
  /\ \A k \in 1..Last :
       /\ script[k] # "off" => k < n \/ (k = n /\ pc \in After /\ ~cleaned)
       /\ script[k] = "kill" => backend = "docker"
       /\ script[k] = "scan" => backend = "k8s"
  /\ cleaned => pc \in After
  /\ HolderProc \notin doomed

\* What this run's script has achieved before each of its steps, and at its end.
Swept ==
  /\ \A k \in 1..Last : k = n /\ script[k] = "scan" =>
       \A p \in (doomed \cap procs) \ odd : p \in scan[k] /\ parent[p] = "init"
  /\ \A k \in 1..Last : k = n /\ script[k] = "rm" /\ backend = "k8s" =>
       doomed \cap procs \subseteq odd
  /\ OrphansReaped

\* The inductive invariant.
HolderInv == TypeOK /\ Tree /\ Brought /\ Called /\ Script /\ Swept

USE HolderAssumption

\* The stages by name.
LEMMA StageNames ==
  /\ \A s \in {"create", "verify", "start", "startup", "netwait"} :
       s \in Building /\ s \in Stages
  /\ \A s \in {"failed", "idle", "exec", "stream", "inspect", "cleanup", "reap", "check",
               "gone"} : s \notin Building /\ s \in Stages
BY DEF Building, Stages

\* The types of the parts of the state.
RestTyped ==
  /\ backend \in Backends
  /\ obj \in {"none", "created", "running", "ended", "gone"}
  /\ n \in 0..Last /\ over \in BOOLEAN
  /\ broken \in BOOLEAN /\ lapsed \in BOOLEAN
ProcsTyped ==
  /\ procs \subseteq Procs
  /\ parent \in [Procs -> Procs \cup {"runtime", "init"}]
  /\ main \in Procs \cup {NoProc}
  /\ exit \in {"none", "0", "other", "137"} /\ odd \subseteq Procs
CallTyped ==
  /\ pc \in Stages
  /\ res \in [code : {"0", "other", "137"}, timedOut : BOOLEAN, err : BOOLEAN]
CleanTyped ==
  /\ script \in [1..Last -> {"off", "rm", "kill", "scan"}]
  /\ scan \in [1..Last -> SUBSET Procs]
  /\ cleaned \in BOOLEAN /\ doomed \subseteq Procs

LEMMA TypeParts == TypeOK <=> RestTyped /\ ProcsTyped /\ CallTyped /\ CleanTyped
BY DEF TypeOK, RestTyped, ProcsTyped, CallTyped, CleanTyped

\* What the end of processes does to the tree.
LEMMA EndKeeps ==
  ASSUME ProcsTyped, NEW ps \in SUBSET procs, NEW how \in {"0", "other", "137"},
         End(ps, how)
  PROVE  /\ ProcsTyped'
         /\ procs' = procs \ ps
         /\ parent[HolderProc] = "runtime" => parent'[HolderProc] = "runtime"
         /\ odd' \subseteq odd /\ odd \cap procs' \subseteq odd'
         /\ \A p \in procs' : parent[p] = "init" => parent'[p] = "init"
         /\ \/ main' = main /\ exit' = exit
            \/ main # NoProc /\ main' = NoProc /\ exit' = how
<1>1. procs' = procs \ ps /\ procs' \subseteq Procs
  BY DEF End, ProcsTyped
<1>2. parent' \in [Procs -> Procs \cup {"runtime", "init"}]
  BY DEF End, ProcsTyped
<1>3. odd' \subseteq odd /\ odd' \subseteq Procs /\ odd \cap procs' \subseteq odd'
  BY <1>1 DEF End, ProcsTyped
<1>4. main' \in Procs \cup {NoProc} /\ exit' \in {"none", "0", "other", "137"}
  BY DEF End, ProcsTyped
<1>5. parent[HolderProc] = "runtime" => parent'[HolderProc] = "runtime"
  BY DEF End, ProcsTyped
<1>6. \A p \in procs' : parent[p] = "init" => parent'[p] = "init"
  BY <1>1 DEF End, ProcsTyped
<1>7. \/ main' = main /\ exit' = exit
      \/ main # NoProc /\ main' = NoProc /\ exit' = how
  BY DEF End, ProcsTyped
<1> QED BY <1>1, <1>2, <1>3, <1>4, <1>5, <1>6, <1>7 DEF ProcsTyped

\* What the start of a command adds to it.
LEMMA LaunchKeeps ==
  ASSUME ProcsTyped, Tree, Up, NEW p \in Procs, NEW q \in Procs,
         Launch(p, q), UNCHANGED <<exit, odd>>
  PROVE  /\ ProcsTyped' /\ main' = p
         /\ HolderProc \in procs' /\ parent'[HolderProc] = "runtime"
<1>1. HolderProc \in procs /\ parent[HolderProc] = "runtime"
  BY DEF Tree
<1>2. p # HolderProc /\ main' = p
  BY <1>1 DEF Launch, Fresh
<1>3. CASE backend = "docker"
  <2>1. procs' = procs \cup {p} /\ parent' = [parent EXCEPT ![p] = "runtime"]
    BY <1>3 DEF Launch
  <2>2. ProcsTyped'
    BY <2>1, <1>2 DEF ProcsTyped
  <2> QED BY <1>1, <1>2, <2>1, <2>2 DEF ProcsTyped
<1>4. CASE backend # "docker"
  <2>1. /\ q # HolderProc /\ q # p
        /\ procs' = procs \cup {p, q}
        /\ parent' = [parent EXCEPT ![p] = "runtime", ![q] = p]
    BY <1>1, <1>4 DEF Launch, Fresh
  <2>2. ProcsTyped'
    BY <2>1, <1>2 DEF ProcsTyped
  <2> QED BY <1>1, <1>2, <2>1, <2>2 DEF ProcsTyped
<1> QED BY <1>3, <1>4

-----------------------------------------------------------------------------
\* Each step keeps the processes' types and the tree.
Untouched == UNCHANGED <<procs, parent, main, exit, odd, obj>>

LEMMA TreeKept == HolderInv /\ [Next]_vars => ProcsTyped' /\ Tree'
<1> SUFFICES ASSUME HolderInv, [Next]_vars PROVE ProcsTyped' /\ Tree'
  OBVIOUS
<1>0. ProcsTyped /\ RestTyped /\ Tree
  BY TypeParts DEF HolderInv
<1>1. ASSUME Untouched PROVE ProcsTyped' /\ Tree'
  BY <1>0, <1>1 DEF Untouched, ProcsTyped, Tree, Up
<1>2. CASE BuildStep
  <2> USE <1>0
  <2>0. UNCHANGED treeVars
    BY <1>2 DEF BuildStep, Create, Verify, Start, Startup, NetWait, procVars
  <2>1. \/ UNCHANGED <<procs, obj>>
        \/ obj' = "gone" /\ procs' = {}
        \/ obj' = "running" /\ procs' = {HolderProc}
        \/ procs' = procs /\ obj = "none" /\ obj' = "created"
    BY <1>2 DEF BuildStep, Create, Verify, Start, Startup, NetWait, Fail, HolderUp,
                HolderInv, Brought, procVars
  <2>2. procs' \subseteq Procs
    BY <2>1 DEF ProcsTyped
  <2>3. ProcsTyped'
    BY <2>0, <2>2 DEF ProcsTyped, treeVars
  <2> QED BY <2>0, <2>1, <2>3 DEF Tree, treeVars, Up
<1>3. CASE Run \/ Stream \/ Inspect \/ Reaped \/ Check \/ ContextEnds \/ StreamBreaks
           \/ UNCHANGED vars
  <2>1. Untouched
    BY <1>3 DEF Run, Stream, Inspect, Reaped, Check, ContextEnds, StreamBreaks, Untouched,
                procVars, treeVars, vars
  <2> QED BY <1>1, <2>1
<1>4. CASE Exec
  <2>1. UNCHANGED <<obj, exit, odd>>
    BY <1>4 DEF Exec
  <2>2. CASE Untouched
    BY <1>1, <2>2
  <2>3. ASSUME Up, NEW p \in Procs, NEW q \in Procs, Launch(p, q) PROVE ProcsTyped' /\ Tree'
    <3>1. ProcsTyped' /\ HolderProc \in procs' /\ parent'[HolderProc] = "runtime"
      BY <1>0, <2>1, <2>3, LaunchKeeps
    <3> QED BY <1>0, <2>1, <2>3, <3>1 DEF Tree, Up
  <2> QED BY <1>4, <2>1, <2>2, <2>3 DEF Exec, Untouched
<1>5. CASE Cleanup
  BY <1>0, <1>5 DEF Cleanup, Forget, ProcsTyped, Tree, Up
\* An end of processes that spares the holder's own.
<1>6. ASSUME NEW ps \in SUBSET Workload, NEW how \in {"0", "other", "137"},
             End(ps, how), obj' = obj
      PROVE  ProcsTyped' /\ Tree'
  <2>0. ps \in SUBSET procs
    BY DEF Workload
  <2>1. /\ ProcsTyped' /\ procs' = procs \ ps /\ parent'[HolderProc] = "runtime"
        /\ odd' \subseteq odd
    BY <1>0, <1>6, <2>0, EndKeeps DEF Tree
  <2> QED BY <1>0, <1>6, <2>1 DEF Tree, Workload, Up
<1>7. ASSUME NEW k \in 1..Last, RemoveFiles(k) PROVE ProcsTyped' /\ Tree'
  <2>1. Untouched
    BY <1>7 DEF RemoveFiles, Untouched, procVars, treeVars
  <2> QED BY <1>1, <2>1
<1>8. ASSUME NEW k \in 1..Last, KillAll(k) PROVE ProcsTyped' /\ Tree'
  BY <1>6, <1>8 DEF KillAll, Spared
<1>9. ASSUME NEW k \in 1..Last, Visit(k) PROVE ProcsTyped' /\ Tree'
  <2>1. CASE Untouched
    BY <1>1, <2>1
  <2>2. ASSUME NEW p \in procs, TRUE \in Verdicts(p), End({p}, "137"), obj' = obj
        PROVE  ProcsTyped' /\ Tree'
    <3>1. p # HolderProc
      BY <1>0, <2>2 DEF Tree, Verdicts, IsOrphan
    <3>2. {p} \in SUBSET Workload
      BY <2>2, <3>1 DEF Workload
    <3> QED BY <1>6, <2>2, <3>2
  <2>3. \/ \E p \in procs : TRUE \in Verdicts(p) /\ End({p}, "137")
        \/ UNCHANGED procVars
    BY <1>9 DEF Visit
  <2>4. obj' = obj
    BY <1>9 DEF Visit
  <2> QED BY <2>1, <2>2, <2>3, <2>4 DEF Untouched, procVars, treeVars
<1>10. ASSUME NEW p \in Procs, NEW q \in Procs, Fork(p, q) PROVE ProcsTyped' /\ Tree'
  <2>1. p \in procs /\ p # HolderProc /\ Up /\ q \notin procs /\ q # HolderProc
    BY <1>0, <1>10 DEF Fork, Fresh, Workload, Tree
  <2>2. /\ procs' = procs \cup {q} /\ parent' = [parent EXCEPT ![q] = p]
        /\ odd' \subseteq odd \cup {q} /\ UNCHANGED <<obj, main, exit>>
    BY <1>10 DEF Fork
  <2>3. ProcsTyped'
    BY <1>0, <2>1, <2>2 DEF ProcsTyped
  <2> QED BY <1>0, <2>1, <2>2, <2>3 DEF Tree, Up, ProcsTyped
<1>11. ASSUME NEW p \in Procs, Exit(p) PROVE ProcsTyped' /\ Tree'
  <2>1. {p} \in SUBSET Workload /\ obj' = obj
    BY <1>11 DEF Exit
  <2>2. PICK how \in {"0", "other"} : End({p}, how)
    BY <1>11 DEF Exit
  <2> QED BY <1>6, <2>1, <2>2
<1>12. ASSUME NEW p \in Procs, Rename(p) PROVE ProcsTyped' /\ Tree'
  BY <1>0, <1>12 DEF Rename, Workload, ProcsTyped, Tree, Up
<1>14. CASE HolderEnds
  <2>1. End(procs, "137") /\ obj' \in {"ended", "gone"} /\ procs \in SUBSET procs
    BY <1>14 DEF HolderEnds
  <2>2. /\ ProcsTyped' /\ procs' = procs \ procs /\ parent'[HolderProc] = "runtime"
        /\ odd' \subseteq odd
    BY <1>0, <2>1, EndKeeps DEF Tree
  <2> QED BY <1>0, <2>1, <2>2 DEF Tree, Up
<1>15. CASE PodStarts
  BY <1>0, <1>15 DEF PodStarts, HolderUp, treeVars, ProcsTyped, Tree, Up
<1> QED BY <1>2, <1>3, <1>4, <1>5, <1>7, <1>8, <1>9, <1>10, <1>11, <1>12, <1>14, <1>15
        DEF Next, CallStep, ScriptStep, Environment

-----------------------------------------------------------------------------
\* Each step keeps the other types, what has been created, and the script's
\* place in the call.
LEMMA CallKept == HolderInv /\ [Next]_vars => CallTyped'
<1> SUFFICES ASSUME HolderInv, [Next]_vars PROVE CallTyped'
  OBVIOUS
<1>0. CallTyped /\ ProcsTyped
  BY TypeParts DEF HolderInv
<1>1. CASE UNCHANGED <<pc, res>>
  BY <1>0, <1>1 DEF CallTyped
<1>2. CASE BuildStep
  BY <1>0, <1>2, StageNames
     DEF BuildStep, Create, Verify, Start, Startup, NetWait, Fail, CallTyped, resultVars
<1>3. CASE Run \/ Cleanup \/ Reaped \/ Check
  <2>1. NoResult \in [code : {"0", "other", "137"}, timedOut : BOOLEAN, err : BOOLEAN]
    BY DEF NoResult
  <2>2. /\ pc' \in {"exec", "reap", "check", "idle", "gone"}
        /\ res' = res \/ res' = NoResult
    BY <1>3 DEF Run, Cleanup, Forget, Reaped, Check, resultVars
  <2> QED BY <1>0, <2>1, <2>2, StageNames DEF CallTyped
<1>4. CASE Exec
  <2>1. WithError \in [code : {"0", "other", "137"}, timedOut : BOOLEAN, err : BOOLEAN]
    BY <1>0 DEF WithError, CallTyped
  <2>2. WithTimeout \in [code : {"0", "other", "137"}, timedOut : BOOLEAN, err : BOOLEAN]
    BY <1>0 DEF WithTimeout, CallTyped
  <2>3. \/ pc' = "stream" /\ res' = res
        \/ pc' = "cleanup" /\ res' \in {WithError, WithTimeout}
    BY <1>4 DEF Exec, Finish
  <2> QED BY <1>0, <2>1, <2>2, <2>3, StageNames DEF CallTyped
<1>5. CASE Stream \/ Inspect
  <2>1. /\ WithError \in [code : {"0", "other", "137"}, timedOut : BOOLEAN, err : BOOLEAN]
        /\ WithTimeout \in [code : {"0", "other", "137"}, timedOut : BOOLEAN, err : BOOLEAN]
    BY <1>0 DEF WithError, WithTimeout, CallTyped
  <2>2. \A c \in {"0", "other", "137"} :
          [res EXCEPT !.code = c] \in [code : {"0", "other", "137"},
                                       timedOut : BOOLEAN, err : BOOLEAN]
    BY <1>0 DEF CallTyped
  <2>3. exit \in {"none", "0", "other", "137"}
    BY <1>0 DEF ProcsTyped
  <2>4. \/ pc' \in {"inspect", "cleanup"} /\ res' = res
        \/ pc' = "cleanup" /\ res' \in {WithError, WithTimeout}
        \/ pc' = "cleanup" /\ \E c \in {"0", "other", "137"} : res' = [res EXCEPT !.code = c]
    BY <1>5, <2>3 DEF Stream, StreamDocker, StreamK8s, CodeExitError, Inspect, Finish
  <2> QED BY <1>0, <2>1, <2>2, <2>4, StageNames DEF CallTyped
<1>6. CASE ScriptStep \/ Environment
  BY <1>1, <1>6 DEF ScriptStep, RemoveFiles, KillAll, Visit, Environment, Fork, Exit,
     Rename, ContextEnds, StreamBreaks, HolderEnds, PodStarts, callVars, resultVars
<1> QED BY <1>1, <1>2, <1>3, <1>4, <1>5, <1>6
        DEF Next, CallStep, vars, callVars, resultVars

LEMMA RestKept == HolderInv /\ [Next]_vars => RestTyped'
<1> SUFFICES ASSUME HolderInv, [Next]_vars PROVE RestTyped'
  OBVIOUS
<1>0. RestTyped
  BY TypeParts DEF HolderInv
<1>1. CASE BuildStep
  BY <1>0, <1>1 DEF BuildStep, Create, Verify, Start, Startup, NetWait, HolderUp, Fail,
     RestTyped, resultVars
<1>2. CASE Run
  BY <1>0, <1>2 DEF Run, RestTyped
<1>3. CASE CallStep
  BY <1>0, <1>3 DEF CallStep, Exec, Stream, Inspect, Cleanup, Forget, Reaped, Check, RestTyped,
     resultVars
<1>4. CASE ScriptStep
  BY <1>0, <1>4 DEF ScriptStep, RemoveFiles, KillAll, Visit, RestTyped, callVars, resultVars
<1>5. CASE Environment
  BY <1>0, <1>5 DEF Environment, Fork, Exit, Rename, ContextEnds, StreamBreaks, HolderEnds,
     PodStarts, HolderUp, RestTyped, callVars, resultVars
<1>6. CASE UNCHANGED vars
  BY <1>0, <1>6 DEF RestTyped, vars, callVars, resultVars
<1> QED BY <1>1, <1>2, <1>3, <1>4, <1>5, <1>6 DEF Next

\* What a step of a script leaves of the scripts.
LEMMA ScriptMoves ==
  ASSUME CleanTyped, NEW k \in 1..Last, RemoveFiles(k) \/ KillAll(k) \/ Visit(k)
  PROVE  /\ \A j \in 1..Last : script'[j] \in {script[j], "off"} \/ j = k
         /\ script'[k] \in {script[k], "off", "kill", "rm"}
         /\ script' \in [1..Last -> {"off", "rm", "kill", "scan"}]
         /\ cleaned' \in BOOLEAN /\ (cleaned => cleaned')
         /\ scan' \in [1..Last -> SUBSET Procs] /\ doomed' = doomed
<1>a. Order[1] \in {"rm", "scan"} /\ Order[2] \in {"rm", "kill"}
  BY DEF Order
<1>1. ASSUME StepDone(k)
      PROVE  /\ \A j \in 1..Last : j # k => script'[j] = script[j]
             /\ script'[k] \in {"off", "kill", "rm"}
             /\ script' \in [1..Last -> {"off", "rm", "kill", "scan"}]
             /\ cleaned' \in BOOLEAN /\ (cleaned => cleaned')
  BY <1>a, <1>1 DEF StepDone, CleanTyped
<1>2. CASE RemoveFiles(k)
  BY <1>1, <1>2 DEF RemoveFiles, CleanTyped
<1>3. CASE KillAll(k)
  BY <1>3 DEF KillAll, CleanTyped
<1>4. CASE Visit(k)
  <2>1. scan' \in [1..Last -> SUBSET Procs] /\ doomed' = doomed
    BY <1>4 DEF Visit, Unvisited, CleanTyped
  <2>2. StepDone(k) \/ UNCHANGED <<script, cleaned>>
    BY <1>4 DEF Visit
  <2> QED BY <1>1, <2>1, <2>2 DEF CleanTyped
<1> QED BY <1>2, <1>3, <1>4

LEMMA CleanKept == HolderInv /\ [Next]_vars => CleanTyped'
<1> SUFFICES ASSUME HolderInv, [Next]_vars PROVE CleanTyped'
  OBVIOUS
<1>0. CleanTyped /\ ProcsTyped
  BY TypeParts DEF HolderInv
<1>1. CASE UNCHANGED cleanVars
  BY <1>0, <1>1 DEF cleanVars, CleanTyped
<1>2. CASE Run
  BY <1>0, <1>2 DEF Run, CleanTyped
<1>3. CASE Cleanup
  <2>1. Order[1] \in {"rm", "scan"}
    BY DEF Order
  <2>2. CASE ScriptStarts
    <3>1. /\ script' = [script EXCEPT ![n] = Order[1]]
          /\ \E s \in SUBSET Procs : scan' = [scan EXCEPT ![n] = s]
          /\ doomed' \subseteq Procs
      BY <1>0, <2>2 DEF ScriptStarts, ProcsTyped, Workload
    <3> QED BY <1>0, <1>3, <2>1, <3>1 DEF Cleanup, CleanTyped
  <2>3. CASE UNCHANGED <<script, scan, doomed>>
    BY <1>0, <1>3, <2>3 DEF Cleanup, CleanTyped
  <2> QED BY <1>3, <2>2, <2>3 DEF Cleanup
<1>4. ASSUME NEW k \in 1..Last, RemoveFiles(k) \/ KillAll(k) \/ Visit(k) PROVE CleanTyped'
  <2>1. doomed' \subseteq Procs
    BY <1>0, <1>4, ScriptMoves DEF CleanTyped
  <2> QED BY <1>0, <1>4, <2>1, ScriptMoves DEF CleanTyped
<1>5. ASSUME NEW p \in Procs, Exit(p) PROVE CleanTyped'
  BY <1>0, <1>5 DEF Exit, Unvisited, CleanTyped
<1>6. CASE HolderEnds
  <2>1. {} \in SUBSET Procs
    OBVIOUS
  <2> QED BY <1>0, <1>6, <2>1 DEF HolderEnds, CleanTyped
<1>7. CASE BuildStep \/ Exec \/ Stream \/ Inspect \/ Reaped \/ Check \/ ContextEnds
           \/ StreamBreaks \/ PodStarts \/ UNCHANGED vars
  BY <1>1, <1>7 DEF BuildStep, Create, Verify, Start, Startup, NetWait, Exec, Stream, Inspect,
     Reaped, Check, ContextEnds, StreamBreaks, PodStarts, vars
<1>8. ASSUME NEW p \in Procs, NEW q \in Procs, Fork(p, q) \/ Rename(p) PROVE CleanTyped'
  BY <1>1, <1>8 DEF Fork, Rename
<1> QED BY <1>2, <1>3, <1>4, <1>5, <1>6, <1>7, <1>8
        DEF Next, CallStep, ScriptStep, Environment

LEMMA PlaceKept == HolderInv /\ [Next]_vars => Brought' /\ Script'
<1> SUFFICES ASSUME HolderInv, [Next]_vars PROVE Brought' /\ Script'
  OBVIOUS
<1>0. Brought /\ Script /\ RestTyped /\ CleanTyped
  BY TypeParts DEF HolderInv
<1>a. backend \in {"docker", "k8s"}
  BY <1>0 DEF RestTyped
<1>b. Order[1] = (IF backend = "docker" THEN "rm" ELSE "scan")
  BY DEF Order
<1>c. Order[2] = (IF backend = "docker" THEN "kill" ELSE "rm")
  BY DEF Order
<1> USE <1>0
<1>1. CASE BuildStep
  <2>1. UNCHANGED <<n, backend, script, cleaned, doomed>> /\ pc \in Building
    BY <1>1, StageNames DEF BuildStep, Create, Verify, Start, Startup, NetWait, cleanVars,
                            resultVars
  <2>2. /\ pc' \in (Building \ {"create"}) \cup {"failed", "idle"}
        /\ \A k \in 1..Last : script[k] # "off" => k < n
        /\ ~cleaned /\ ~lapsed
    BY <1>1, <2>1, StageNames DEF BuildStep, Create, Verify, Start, Startup, NetWait, Fail,
                                  Script, After, Brought, Building
  <2>3. Script'
    BY <2>1, <2>2, StageNames DEF Script, After, Building
  <2>4. CASE Create
    <3>1. \/ obj' = "created" /\ pc' \in {"verify", "start", "startup"} /\ ~lapsed'
          \/ obj' = "none" /\ pc' = "failed" /\ ~lapsed'
          \/ obj' = "created" /\ pc' = "failed" /\ lapsed'
      BY <2>2, <2>4 DEF Create, Brought
    <3> QED BY <2>3, <3>1, StageNames DEF Brought, NothingBuiltInVain
  <2>5. CASE Verify \/ Start \/ Startup \/ NetWait
    <3>1. \/ obj' = "gone" /\ pc' = "failed" /\ ~lapsed'
          \/ obj' = obj /\ pc' = "failed" /\ lapsed'
          \/ obj' = obj /\ pc' = "start" /\ ~lapsed'
          \/ obj' = obj /\ obj \in {"running", "ended"} /\ pc' = "netwait" /\ ~lapsed'
          \/ obj' = obj /\ obj \in {"running", "ended"} /\ pc' = "idle" /\ ~lapsed'
          \/ obj' = "running" /\ pc' = "idle" /\ ~lapsed'
          \/ pc = "netwait" /\ obj' = obj /\ pc' = "idle" /\ ~lapsed'
      BY <2>2, <2>5 DEF Verify, Start, Startup, NetWait, Fail, HolderUp
    <3> QED BY <2>3, <3>1, StageNames DEF Brought, NothingBuiltInVain
  <2> QED BY <1>1, <2>4, <2>5 DEF BuildStep
\* Outside the build, nothing is created and `lapsed` stays.
<1>2. ASSUME UNCHANGED <<obj, lapsed>>, pc \notin Building \cup {"failed"},
             pc' \notin Building \cup {"failed"}
      PROVE  Brought'
  BY <1>2, StageNames DEF Brought, NothingBuiltInVain
<1>3. CASE Run
  <2>1. n \in 0..Last /\ n < Last /\ n' = n + 1 /\ pc = "idle" /\ pc' = "exec" /\ ~cleaned'
        /\ UNCHANGED <<backend, script, obj, lapsed>> /\ doomed' = {}
    BY <1>3 DEF Run, RestTyped
  <2>2. n' \in 1..Last /\ \A k \in 1..Last : k <= n => k < n'
    BY <2>1, HolderAssumption
  <2>3. Script'
    BY <2>1, <2>2 DEF Script, After
  <2> QED BY <1>2, <2>1, <2>3, StageNames
<1>4. CASE Exec \/ Stream \/ Inspect \/ Reaped \/ Check
  <2>1. UNCHANGED <<n, obj, lapsed, backend, script, cleaned, doomed>>
    BY <1>4 DEF Exec, Stream, Inspect, Reaped, Check, cleanVars, resultVars
  <2>2. \/ /\ pc \in {"exec", "stream", "inspect"}
           /\ pc' \in {"stream", "inspect", "cleanup"}
        \/ pc = "reap" /\ pc' = "check"
        \/ pc = "check" /\ pc' \in {"idle", "gone"}
    BY <1>4 DEF Exec, Stream, StreamDocker, StreamK8s, Inspect, Finish, Reaped, Check
  <2>3. Script'
    BY <2>1, <2>2 DEF Script, After
  <2> QED BY <1>2, <2>1, <2>2, <2>3, StageNames
<1>5. CASE Cleanup
  <2>1. /\ pc = "cleanup" /\ UNCHANGED <<n, obj, lapsed, backend, cleaned>>
        /\ pc' \in {"reap", "check"} /\ HolderProc \notin doomed' /\ n \in 1..Last /\ ~cleaned
        /\ script' = script \/ script' = [script EXCEPT ![n] = Order[1]]
    BY <1>5 DEF Cleanup, ScriptStarts, Script, Workload, After
  <2>2. \A k \in 1..Last : script[k] # "off" => k < n
    BY <2>1 DEF Script, After
  <2>3. \A k \in 1..Last : script'[k] = script[k] \/ (k = n /\ script'[k] = Order[1])
    BY <2>1 DEF CleanTyped
  <2>4. Script'
    <3>1. ASSUME NEW k \in 1..Last
          PROVE  /\ script'[k] # "off" => k < n \/ k = n
                 /\ script'[k] = "kill" => backend = "docker"
                 /\ script'[k] = "scan" => backend = "k8s"
      BY <1>a, <1>b, <2>2, <2>3 DEF Script
    <3> QED BY <2>1, <3>1 DEF Script, After
  <2> QED BY <1>2, <2>1, <2>4, StageNames
<1>6. ASSUME NEW k \in 1..Last, RemoveFiles(k) \/ KillAll(k) \/ Visit(k)
      PROVE  Brought' /\ Script'
  <2>1. UNCHANGED <<n, obj, pc, lapsed, backend, doomed>>
    BY <1>6 DEF RemoveFiles, KillAll, Visit, callVars, resultVars
  <2>2. script[k] # "off"
    BY <1>6 DEF RemoveFiles, KillAll, Visit
  <2>3. /\ \A j \in 1..Last : script'[j] = script[j] \/ script'[j] = "off" \/ j = k
        /\ \/ script'[k] \in {script[k], "off"}
           \/ script'[k] = Order[2] /\ cleaned' = cleaned
        /\ cleaned' => cleaned \/ script[n] # "off" \/ k = n
        /\ cleaned' # cleaned => script' = [script EXCEPT ![k] = "off"]
                                   \/ script' = [j \in 1..Last |-> "off"]
    <3>1. ASSUME StepDone(k)
          PROVE  /\ \A j \in 1..Last : j # k => script'[j] = script[j]
                 /\ \/ script' = [script EXCEPT ![k] = Order[2]] /\ cleaned' = cleaned
                    \/ script' = [script EXCEPT ![k] = "off"] /\ (cleaned' <=> cleaned \/ k = n)
      BY <3>1 DEF StepDone, CleanTyped
    <3>2. CASE StepDone(k)
      BY <3>1, <3>2 DEF CleanTyped
    <3>3. CASE UNCHANGED <<script, cleaned>>
      BY <3>3
    <3>4. CASE KillAll(k)
      BY <3>4 DEF KillAll
    <3> QED BY <1>6, <3>2, <3>3, <3>4 DEF RemoveFiles, Visit
  <2>4. cleaned' => pc \in After
    <3>1. CASE cleaned
      BY <3>1 DEF Script
    <3>2. CASE cleaned' /\ ~cleaned
      <4>1. k = n \/ script[n] # "off"
        BY <2>3, <3>2
      <4>2. k <= n
        <5>1. k \in Nat /\ n \in Nat /\ (k < n \/ k = n)
          BY <2>2 DEF Script, RestTyped
        <5> QED BY <5>1
      <4>3. n \in 1..Last
        BY <4>2 DEF RestTyped
      <4> QED BY <2>2, <4>1, <4>3 DEF Script, RestTyped
    <3> QED BY <3>1, <3>2
  <2>5. ASSUME NEW j \in 1..Last
        PROVE  /\ script'[j] # "off" => j < n \/ (j = n /\ pc \in After /\ ~cleaned')
               /\ script'[j] = "kill" => backend = "docker"
               /\ script'[j] = "scan" => backend = "k8s"
    <3>1. script'[j] # "off" => script[j] # "off"
      BY <2>2, <2>3
    <3>2. script'[j] \in {script[j], "off"} \/ script'[j] = Order[2]
      BY <2>3
    <3>3. script'[j] # "off" /\ j = n => ~cleaned'
      <4>1. ASSUME script'[n] # "off", cleaned', j = n PROVE FALSE
        <5>1. ~cleaned
          BY <3>1, <4>1 DEF Script, RestTyped
        <5>2. script' = [script EXCEPT ![k] = "off"] /\ k # n
          BY <2>3, <4>1, <5>1 DEF CleanTyped
        <5>3. KillAll(k) \/ k = n
          BY <1>6, <4>1, <5>1, <5>2 DEF RemoveFiles, Visit, StepDone
        <5> QED BY <4>1, <5>2, <5>3 DEF KillAll
      <4> QED BY <4>1
    <3> QED BY <1>a, <1>c, <3>1, <3>2, <3>3 DEF Script
  <2>6. Script'
    BY <2>1, <2>4, <2>5 DEF Script
  <2> QED BY <2>1, <2>6 DEF Brought, NothingBuiltInVain
<1>7. CASE Environment \/ UNCHANGED vars
  <2>1. /\ UNCHANGED <<n, pc, lapsed, backend, cleaned, doomed>>
        /\ script' = script \/ script' = [k \in 1..Last |-> "off"]
    BY <1>7 DEF Environment, Fork, Exit, Rename, ContextEnds, StreamBreaks, HolderEnds,
       PodStarts, vars, callVars, resultVars, cleanVars
  <2>2. \/ UNCHANGED obj
        \/ obj = "running" /\ obj' \in {"ended", "gone"}
        \/ obj = "created" /\ obj' \in {"running", "ended"}
    BY <1>7 DEF Environment, Fork, Exit, Rename, ContextEnds, StreamBreaks, HolderEnds,
       PodStarts, HolderUp, Up, vars
  <2>3. Script'
    BY <2>1 DEF Script
  <2>4. Brought'
    BY <2>1, <2>2, StageNames DEF Brought, NothingBuiltInVain
  <2> QED BY <2>3, <2>4
<1> QED BY <1>1, <1>3, <1>4, <1>5, <1>6, <1>7 DEF Next, CallStep, ScriptStep

-----------------------------------------------------------------------------
\* Each step keeps what is known of the exec and the result.
LEMMA CalledKept == HolderInv /\ [Next]_vars => Called'
<1> SUFFICES ASSUME HolderInv, [Next]_vars PROVE Called'
  OBVIOUS
<1>0. Called /\ ProcsTyped /\ RestTyped /\ CallTyped /\ Script
  BY TypeParts DEF HolderInv
<1> USE <1>0
\* The exec's process may end; the rest is as before.
<1>1. ASSUME UNCHANGED <<backend, callVars, broken>>,
             \/ UNCHANGED <<main, exit>>
             \/ main # NoProc /\ main' = NoProc /\ exit' \in {"0", "other", "137"}
      PROVE  Called'
  BY <1>1 DEF Called, ResultTrue, callVars, resultVars
<1>2. CASE BuildStep
  <2>1. /\ pc' \in {"verify", "start", "startup", "netwait", "idle", "failed"}
        /\ pc \in {"create", "verify", "start", "startup", "netwait"}
    BY <1>2 DEF BuildStep, Create, Verify, Start, Startup, NetWait, Fail
  <2>2. UNCHANGED <<main, exit, res>>
    BY <1>2 DEF BuildStep, Create, Verify, Start, Startup, NetWait, resultVars, procVars,
                treeVars
  <2> QED BY <2>1, <2>2 DEF Called, ResultTrue
<1>3. CASE Run
  BY <1>3 DEF Run, Called, ResultTrue, procVars, treeVars
<1>4. CASE Exec
  <2>1. /\ res.timedOut = FALSE /\ res = NoResult /\ main = NoProc /\ exit = "none"
        /\ UNCHANGED <<n, over, exit, broken, backend>>
    BY <1>4 DEF Exec, Called, NoResult
  <2>2. CASE pc' = "stream" /\ res' = res /\ main' # NoProc
    BY <1>4, <2>1, <2>2 DEF Exec, Called, ResultTrue
  <2>3. CASE pc' = "cleanup" /\ res' = WithError
    BY <2>1, <2>3 DEF WithError, Called, ResultTrue, CallTyped
  <2>4. CASE pc' = "cleanup" /\ res' = WithTimeout /\ over
    BY <2>1, <2>4 DEF WithTimeout, Called, ResultTrue, CallTyped
  <2>5. \A p, q \in Procs : Launch(p, q) => main' = p /\ p # NoProc
    BY DEF Launch
  <2> QED BY <1>4, <2>2, <2>3, <2>4, <2>5 DEF Exec, Finish
<1>5. CASE Stream
  <2>1. /\ pc = "stream" /\ res.timedOut = FALSE /\ res = NoResult /\ res.code = "0"
        /\ exit # "none" => main = NoProc
        /\ main # NoProc \/ exit # "none"
        /\ UNCHANGED <<n, over, main, exit, broken, backend>>
    BY <1>5 DEF Stream, Called, NoResult, procVars, treeVars
  <2>2. CASE pc' = "inspect" /\ res' = res /\ backend = "docker" /\ StreamEnds
    BY <2>1, <2>2 DEF StreamEnds, Called, ResultTrue
  <2>3. CASE pc' = "cleanup" /\ res' = res /\ exit = "0"
    BY <2>1, <2>3 DEF Called, ResultTrue
  <2>4. CASE pc' = "cleanup" /\ res' = WithError
    BY <2>1, <2>4 DEF WithError, Called, ResultTrue, CallTyped
  <2>5. CASE pc' = "cleanup" /\ res' = WithTimeout /\ over
    BY <2>1, <2>5 DEF WithTimeout, Called, ResultTrue, CallTyped
  <2>6. CASE pc' = "cleanup" /\ res' = [res EXCEPT !.code = exit] /\ exit \in {"other", "137"}
    BY <2>1, <2>6 DEF Called, ResultTrue, CallTyped
  <2> QED BY <1>5, <2>2, <2>3, <2>4, <2>5, <2>6
          DEF Stream, StreamDocker, StreamK8s, Selected, Over, CodeExitError, Finish
<1>6. CASE Inspect
  <2>1. /\ pc' = "cleanup" /\ res.timedOut = FALSE /\ res = NoResult
        /\ exit # "none" => main = NoProc
        /\ backend = "docker" /\ (exit # "none" \/ broken)
        /\ UNCHANGED <<n, over, main, exit, broken, backend>>
    BY <1>6 DEF Inspect, Finish, Called, NoResult, procVars, treeVars
  <2>2. CASE res' = WithError
    BY <2>1, <2>2 DEF WithError, Called, ResultTrue, CallTyped
  <2>3. CASE res' = [res EXCEPT !.code = IF exit = "none" THEN "0" ELSE exit]
    BY <2>1, <2>3 DEF Called, ResultTrue, CallTyped
  <2> QED BY <1>6, <2>2, <2>3 DEF Inspect, Finish
<1>7. CASE Cleanup \/ Reaped \/ Check
  <2>1. CASE Cleanup
    BY <2>1 DEF Cleanup, Forget, Called, ResultTrue
  <2>2. CASE Reaped \/ Check
    <3>1. /\ pc \in {"reap", "check"} /\ pc' \in {"check", "idle", "gone"}
          /\ UNCHANGED <<res, main, exit>>
      BY <2>2 DEF Reaped, Check, resultVars, procVars, treeVars
    <3> QED BY <3>1 DEF Called, ResultTrue
  <2> QED BY <1>7, <2>1, <2>2
<1>8. ASSUME NEW ps \in SUBSET procs, NEW how \in {"0", "other", "137"}, End(ps, how),
             UNCHANGED <<backend, callVars, broken>>
      PROVE  Called'
  BY <1>1, <1>8, EndKeeps
<1>9. ASSUME NEW k \in 1..Last, RemoveFiles(k) \/ KillAll(k) PROVE Called'
  <2>1. Workload \ Spared \in SUBSET procs
    BY DEF Workload
  <2> QED BY <1>1, <1>8, <1>9, <2>1 DEF RemoveFiles, KillAll, procVars, treeVars
<1>10. ASSUME NEW k \in 1..Last, Visit(k) PROVE Called'
  <2>1. /\ UNCHANGED <<backend, callVars, broken>>
        /\ \/ \E p \in procs : End({p}, "137")
           \/ UNCHANGED procVars
    BY <1>10 DEF Visit
  <2> QED BY <1>1, <1>8, <2>1 DEF procVars, treeVars
<1>11. ASSUME NEW p \in Procs, NEW q \in Procs, Fork(p, q) \/ Rename(p) PROVE Called'
  BY <1>1, <1>11 DEF Fork, Rename
<1>12. ASSUME NEW p \in Procs, Exit(p) PROVE Called'
  <2>1. {p} \in SUBSET procs
    BY <1>12 DEF Exit, Workload
  <2> QED BY <1>8, <1>12, <2>1 DEF Exit
<1>13. CASE HolderEnds
  BY <1>8, <1>13 DEF HolderEnds
<1>14. CASE ContextEnds \/ StreamBreaks
  BY <1>14 DEF ContextEnds, StreamBreaks, Called, ResultTrue, callVars, resultVars, procVars,
     treeVars
<1>15. CASE PodStarts \/ UNCHANGED vars
  BY <1>1, <1>15 DEF PodStarts, vars, procVars, treeVars
<1> QED BY <1>2, <1>3, <1>4, <1>5, <1>6, <1>7, <1>9, <1>10, <1>11, <1>12, <1>13, <1>14, <1>15
        DEF Next, CallStep, ScriptStep, Environment

\* Each step keeps what cleanup has achieved.
LEMMA SweptKept == HolderInv /\ [Next]_vars => Swept'
<1> SUFFICES ASSUME HolderInv, [Next]_vars PROVE Swept'
  OBVIOUS
<1>0. ProcsTyped /\ RestTyped /\ CleanTyped /\ Tree /\ Script /\ Swept
  BY TypeParts DEF HolderInv
<1>a. backend \in {"docker", "k8s"}
  BY <1>0 DEF RestTyped
<1>b. Order[1] = (IF backend = "docker" THEN "rm" ELSE "scan")
  BY DEF Order
<1>c. Order[2] = (IF backend = "docker" THEN "kill" ELSE "rm")
  BY DEF Order
\* Before a run's cleanup nothing is said.
<1>1. ASSUME ~cleaned', \A k \in 1..Last : k = n' => script'[k] = "off" PROVE Swept'
  BY <1>1 DEF Swept, OrphansReaped
\* The scripts and what they work on stay.
<1>2. ASSUME UNCHANGED <<n, backend, procs, parent, odd, cleanVars>> PROVE Swept'
  BY <1>0, <1>2 DEF Swept, OrphansReaped, Workload, cleanVars
<1>3. CASE BuildStep
  <2>1. pc \in Building /\ UNCHANGED <<n, script, cleaned>>
    BY <1>3, StageNames DEF BuildStep, Create, Verify, Start, Startup, NetWait, cleanVars,
                            resultVars
  <2>2. ~cleaned /\ \A k \in 1..Last : k = n => script[k] = "off"
    BY <1>0, <2>1, StageNames DEF Script, After, Building, RestTyped
  <2> QED BY <1>1, <2>1, <2>2
<1>4. CASE Run
  <2>1. n' = n + 1 /\ script' = script /\ ~cleaned' /\ n \in 0..Last
    BY <1>0, <1>4 DEF Run, RestTyped
  <2>2. \A k \in 1..Last : k = n' => script[k] = "off"
    BY <1>0, <2>1, HolderAssumption DEF Script
  <2> QED BY <1>1, <2>1, <2>2
<1>5. CASE Exec \/ Stream \/ Inspect
  <2>1. pc \in {"exec", "stream", "inspect"} /\ UNCHANGED <<n, script, cleaned>>
    BY <1>5 DEF Exec, Stream, Inspect, cleanVars
  <2>2. ~cleaned /\ \A k \in 1..Last : k = n => script[k] = "off"
    BY <1>0, <2>1 DEF Script, After, RestTyped
  <2> QED BY <1>1, <2>1, <2>2
<1>6. CASE Cleanup
  <2>1. ~cleaned /\ UNCHANGED <<n, cleaned, backend, procs, parent, odd>>
        /\ n \in 1..Last /\ script[n] = "off"
    BY <1>0, <1>6 DEF Cleanup, Script, After, RestTyped
  <2>2. CASE script' = script
    BY <1>1, <2>1, <2>2
  <2>3. CASE ScriptStarts
    <3>1. script'[n] = Order[1] /\ scan'[n] = (IF backend = "k8s" THEN procs ELSE {})
      BY <1>0, <2>1, <2>3 DEF ScriptStarts, CleanTyped
    <3>2. doomed' = {p \in Workload : backend = "docker" \/ parent[p] = "init"}
      BY <2>3 DEF ScriptStarts
    <3> QED BY <1>a, <1>b, <2>1, <3>1, <3>2 DEF Swept, OrphansReaped, Workload
  <2> QED BY <1>6, <2>2, <2>3 DEF Cleanup
<1>7. CASE Reaped \/ Check \/ ContextEnds \/ StreamBreaks \/ UNCHANGED vars
  BY <1>2, <1>7 DEF Reaped, Check, ContextEnds, StreamBreaks, vars, callVars, resultVars,
     procVars, treeVars
\* A script goes on to its next step, or ends.
<1>8. ASSUME NEW k \in 1..Last, StepDone(k),
             UNCHANGED <<n, backend, procs, parent, odd, scan, doomed>>,
             script[k] # "kill",
             script[k] = "scan" => scan[k] \cap procs = {}
      PROVE  Swept'
  <2>1. /\ k = n /\ backend = "k8s" => doomed \cap procs \subseteq odd
        /\ script[k] \in {Order[1], Order[2]}
    BY <1>0, <1>a, <1>b, <1>c, <1>8 DEF StepDone, Swept
  <2>2. \/ /\ script[k] = Order[1] /\ script'[k] = Order[2] /\ cleaned' = cleaned
        \/ /\ script[k] = Order[2] /\ script'[k] = "off" /\ (cleaned' = (cleaned \/ k = n))
    BY <1>0, <1>8 DEF StepDone, CleanTyped
  <2>3. \A j \in 1..Last : j # k => script'[j] = script[j]
    BY <1>0, <1>8 DEF StepDone, CleanTyped
  <2>4. k = n /\ cleaned' /\ ~cleaned => backend = "k8s"
    BY <1>8, <1>a, <1>c, <2>2
  <2>5. OrphansReaped'
    BY <1>0, <1>8, <2>1, <2>2, <2>4 DEF Swept, OrphansReaped, Workload
  <2>6. ASSUME NEW j \in 1..Last, j = n, script'[j] \in {"scan", "rm"}, backend = "k8s"
        PROVE  /\ script'[j] = "scan" =>
                    \A p \in (doomed \cap procs) \ odd : p \in scan[j] /\ parent[p] = "init"
               /\ script'[j] = "rm" => doomed \cap procs \subseteq odd
    BY <1>0, <1>b, <1>c, <2>1, <2>2, <2>3, <2>6 DEF Swept
  <2>7. \A j \in 1..Last : script'[j] = "scan" => backend = "k8s"
    BY <1>0, <1>a, <1>b, <1>c, <2>2, <2>3 DEF Script
  <2> QED BY <1>8, <2>5, <2>6, <2>7 DEF Swept
<1>9. ASSUME NEW k \in 1..Last, RemoveFiles(k) PROVE Swept'
  BY <1>8, <1>9 DEF RemoveFiles, callVars, resultVars, procVars, treeVars
<1>10. ASSUME NEW k \in 1..Last, KillAll(k) PROVE Swept'
  <2>1. /\ script[k] = "kill" /\ backend = "docker" /\ UNCHANGED <<n, backend, doomed>>
    BY <1>0, <1>10 DEF KillAll, Script, callVars, resultVars
  <2>2. procs' = procs \ Workload
    BY <1>10 DEF KillAll, Spared, End
  <2>3. \A j \in 1..Last : script'[j] = "off"
    BY <1>10 DEF KillAll
  <2>4. doomed \cap procs' = {}
    BY <1>0, <2>2 DEF Script, Workload
  <2> QED BY <2>1, <2>2, <2>3, <2>4 DEF Swept, OrphansReaped, Workload
\* Processes end; no script goes on.
<1>11. ASSUME NEW ps \in SUBSET procs, NEW how \in {"0", "other", "137"}, End(ps, how),
              scan' = Unvisited(ps), UNCHANGED <<n, backend, script, cleaned, doomed>>
       PROVE  Swept'
  <2>1. /\ procs' = procs \ ps /\ odd \cap procs' \subseteq odd'
        /\ \A r \in procs' : parent[r] = "init" => parent'[r] = "init"
    BY <1>0, <1>11, EndKeeps
  <2>2. \A k \in 1..Last : scan'[k] = scan[k] \ ps
    BY <1>11 DEF Unvisited
  <2> QED BY <1>0, <1>11, <2>1, <2>2 DEF Swept, OrphansReaped, Workload
<1>12. ASSUME NEW k \in 1..Last, Visit(k) PROVE Swept'
  <2>0. UNCHANGED <<n, backend, doomed>> /\ script[k] = "scan"
    BY <1>12 DEF Visit, callVars, resultVars
  <2>1. CASE scan[k] \cap procs = {} /\ StepDone(k) /\ UNCHANGED <<scan, procVars>>
    BY <1>8, <2>0, <2>1 DEF procVars, treeVars
  <2>2. ASSUME NEW p \in procs, End({p}, "137"), scan' = Unvisited({p}),
               UNCHANGED <<script, cleaned>>
        PROVE  Swept'
    <3>1. {p} \in SUBSET procs
      OBVIOUS
    <3> QED BY <1>11, <2>0, <2>2, <3>1
  <2>3. ASSUME NEW p \in procs, FALSE \in Verdicts(p), scan' = [scan EXCEPT ![k] = @ \ {p}],
               UNCHANGED <<script, cleaned, procVars>>
        PROVE  Swept'
    <3>1. p \in odd \/ parent[p] # "init"
      BY <2>3 DEF Verdicts, IsOrphan
    <3>2. \A j \in 1..Last : scan[j] \ {p} \subseteq scan'[j]
      BY <1>0, <2>3 DEF CleanTyped
    <3> QED BY <1>0, <2>0, <2>3, <3>1, <3>2
            DEF Swept, OrphansReaped, Workload, procVars, treeVars
  <2> QED BY <1>12, <2>1, <2>2, <2>3 DEF Visit
<1>13. ASSUME NEW p \in Procs, NEW q \in Procs, Fork(p, q) PROVE Swept'
  <2>1. /\ p \in Workload /\ q \notin doomed /\ q \notin procs /\ procs' = procs \cup {q}
        /\ parent' = [parent EXCEPT ![q] = p] /\ odd \subseteq odd'
        /\ UNCHANGED <<n, backend, script, scan, cleaned, doomed>>
    BY <1>13 DEF Fork, Fresh, cleanVars, callVars, resultVars
  <2>2. doomed \cap procs' = doomed \cap procs /\ \A r \in procs : parent'[r] = parent[r]
    BY <1>0, <2>1 DEF ProcsTyped
  <2> QED BY <1>0, <2>1, <2>2 DEF Swept, OrphansReaped, Workload
<1>14. ASSUME NEW p \in Procs, Rename(p) PROVE Swept'
  BY <1>0, <1>14 DEF Rename, Swept, OrphansReaped, Workload, callVars, resultVars, cleanVars
<1>15. ASSUME NEW p \in Procs, Exit(p) PROVE Swept'
  <2>1. /\ {p} \in SUBSET procs /\ scan' = Unvisited({p})
        /\ UNCHANGED <<n, backend, script, cleaned, doomed>>
    BY <1>15 DEF Exit, Workload, callVars, resultVars
  <2>2. PICK how \in {"0", "other", "137"} : End({p}, how)
    BY <1>15 DEF Exit
  <2> QED BY <1>11, <2>1, <2>2
<1>16. CASE HolderEnds
  <2>1. procs' = procs \ procs
    BY <1>16 DEF HolderEnds, End
  <2>2. \A k \in 1..Last : script'[k] = "off"
    BY <1>16 DEF HolderEnds
  <2> QED BY <2>1, <2>2 DEF Swept, OrphansReaped, Workload
<1>17. CASE PodStarts
  <2>1. pc \notin After /\ UNCHANGED <<n, script, cleaned>>
    BY <1>17, StageNames DEF PodStarts, callVars, resultVars, cleanVars, HolderInv, Brought,
                             After
  <2>2. ~cleaned /\ \A k \in 1..Last : k = n => script[k] = "off"
    BY <1>0, <2>1 DEF Script, RestTyped
  <2> QED BY <1>1, <2>1, <2>2
<1> QED BY <1>3, <1>4, <1>5, <1>6, <1>7, <1>9, <1>10, <1>12, <1>13, <1>14, <1>15, <1>16, <1>17
        DEF Next, CallStep, ScriptStep, Environment

-----------------------------------------------------------------------------
\* The initial states.
LEMMA HolderInit == Init => HolderInv
<1> SUFFICES ASSUME Init PROVE HolderInv
  OBVIOUS
<1>1. CallTyped
  BY StageNames DEF Init, CallTyped, NoResult
<1>2. RestTyped
  <2>1. n \in 0..Last
    BY DEF Init
  <2>2. over \in BOOLEAN /\ broken \in BOOLEAN /\ lapsed \in BOOLEAN
    BY DEF Init
  <2> QED BY <2>1, <2>2 DEF Init, RestTyped
<1>3. ProcsTyped
  BY DEF Init, ProcsTyped
<1>4. CleanTyped
  <2>1. {} \in SUBSET Procs /\ cleaned \in BOOLEAN
    BY DEF Init
  <2> QED BY <2>1 DEF Init, CleanTyped
<1>5. Tree /\ Brought /\ Called /\ Script /\ Swept
  BY StageNames DEF Init, Tree, Brought, NothingBuiltInVain, Called, ResultTrue, Script, Swept,
     OrphansReaped, Up
<1> QED BY <1>1, <1>2, <1>3, <1>4, <1>5, TypeParts DEF HolderInv

(***************************************************************************)
(* One holder keeps its inductive invariant, whatever the workload forks,  *)
(* renames and ends, and whatever fails (pooldocker.go, poolk8s.go).       *)
(***************************************************************************)
THEOREM HolderInvariant == Spec => []HolderInv
<1>1. Init => HolderInv
  BY HolderInit
<1>2. HolderInv /\ [Next]_vars => HolderInv'
  <2>1. HolderInv /\ [Next]_vars => TypeOK'
    BY TreeKept, CallKept, RestKept, CleanKept
       DEF TypeOK, RestTyped, ProcsTyped, CallTyped, CleanTyped
  <2> QED BY <2>1, TreeKept, PlaceKept, CalledKept, SweptKept DEF HolderInv
<1> QED BY <1>1, <1>2, PTL DEF Spec

(***************************************************************************)
(* Every variable of the holder keeps its type.                            *)
(***************************************************************************)
THEOREM TypeCorrect == Spec => []TypeOK
<1>1. HolderInv => TypeOK
  BY DEF HolderInv
<1> QED BY <1>1, HolderInvariant, PTL

(***************************************************************************)
(* A holder that could not be brought up leaves no container or pod, but   *)
(* behind a lost answer of create or a removal that fails ("fail",         *)
(* pooldocker.go:65, poolk8s.go:107).                                      *)
(***************************************************************************)
THEOREM NothingLeftOver == Spec => []NothingBuiltInVain
<1>1. HolderInv => NothingBuiltInVain
  BY DEF HolderInv, Brought
<1> QED BY <1>1, HolderInvariant, PTL

(***************************************************************************)
(* Cleanup never kills the holder's own process (pooldocker.go:155,        *)
(* poolk8s.go:219).                                                        *)
(***************************************************************************)
THEOREM HolderAlwaysSpared == Spec => []HolderSpared
<1>1. HolderInv => HolderSpared
  BY DEF HolderInv, Tree, HolderSpared
<1> QED BY <1>1, HolderInvariant, PTL

(***************************************************************************)
(* Whatever forks and exits while the script runs, what it has to reap is  *)
(* dead when it ends, but for k8s processes with a space in their name     *)
(* (pooldocker.go:155, poolk8s.go:215).                                    *)
(***************************************************************************)
THEOREM AlwaysReaped == Spec => []OrphansReaped
<1>1. HolderInv => OrphansReaped
  BY DEF HolderInv, Swept
<1> QED BY <1>1, HolderInvariant, PTL

(***************************************************************************)
(* A result without error has the exit code of a command that has ended,   *)
(* but for docker's broken connection; a timeout is an error and comes     *)
(* after the end of the context (pooldocker.go:132-151,                    *)
(* poolk8s.go:185-203).                                                    *)
(***************************************************************************)
THEOREM ResultAlwaysTrue == Spec => []ResultTrue
<1>1. HolderInv => ResultTrue
  BY DEF HolderInv, Called
<1> QED BY <1>1, HolderInvariant, PTL

-----------------------------------------------------------------------------
\* The variables of PoolImpl, and what one step does to them.
CallFunction == [h \in {HolderProc} |-> CallOf]
ObjFunction  == [h \in {HolderProc} |-> ObjOf]

LEMMA CallFunctions ==
  /\ CallFunction[HolderProc] = CallOf /\ ObjFunction[HolderProc] = ObjOf
  /\ CallFunction' = [CallFunction EXCEPT ![HolderProc] = CallOf']
  /\ ObjFunction' = [ObjFunction EXCEPT ![HolderProc] = ObjOf']
BY DEF CallFunction, ObjFunction

\* Which changes of the two are steps of PoolImpl.
LEMMA CallMoves ==
  ASSUME \/ CallOf' = CallOf /\ ObjOf' = ObjOf
         \/ CallOf = "none" /\ ObjOf = "absent" /\ CallOf' = "idle" /\ ObjOf' \in {"up", "down"}
         \/ CallOf = "idle" /\ CallOf' = "run" /\ ObjOf' = ObjOf
         \/ CallOf = "run" /\ CallOf' = "check" /\ ObjOf' = ObjOf
         \/ CallOf = "check" /\ CallOf' = "idle" /\ ObjOf = "up" /\ ObjOf' = ObjOf
         \/ CallOf = "check" /\ CallOf' = "dead" /\ ObjOf' = ObjOf
         \/ CallOf' = CallOf /\ ObjOf = "up" /\ ObjOf' = "down"
         \/ CallOf' = CallOf /\ CallOf = "none" /\ ObjOf = "absent" /\ ObjOf' = "left"
  PROVE  Calls!Next \/ UNCHANGED Calls!vars
<1> DEFINE C == CallFunction
           O == ObjFunction
<1>1. /\ C[HolderProc] = CallOf /\ O[HolderProc] = ObjOf
      /\ C' = [C EXCEPT ![HolderProc] = CallOf'] /\ O' = [O EXCEPT ![HolderProc] = ObjOf']
      /\ CallOf' = CallOf => C' = C
      /\ ObjOf' = ObjOf => O' = O
  BY CallFunctions DEF CallFunction, ObjFunction
<1> USE DEF CallFunction, ObjFunction, Calls!Next, Calls!Calls
<1>2. CASE CallOf' = CallOf /\ ObjOf' = ObjOf
  BY <1>1, <1>2 DEF Calls!vars
<1>3. CASE CallOf = "none" /\ ObjOf = "absent" /\ CallOf' = "idle" /\ ObjOf' \in {"up", "down"}
  BY <1>1, <1>3 DEF Calls!Provide
<1>4. CASE CallOf = "idle" /\ CallOf' = "run" /\ ObjOf' = ObjOf
  BY <1>1, <1>4 DEF Calls!Run
<1>5. CASE CallOf = "run" /\ CallOf' = "check" /\ ObjOf' = ObjOf
  BY <1>1, <1>5 DEF Calls!Finish
<1>6. CASE CallOf = "check" /\ ((CallOf' = "idle" /\ ObjOf = "up") \/ CallOf' = "dead")
             /\ ObjOf' = ObjOf
  BY <1>1, <1>6 DEF Calls!Judge
<1>7. CASE CallOf' = CallOf /\ ObjOf = "up" /\ ObjOf' = "down"
  BY <1>1, <1>7 DEF Calls!Die
<1>8. CASE CallOf' = CallOf /\ CallOf = "none" /\ ObjOf = "absent" /\ ObjOf' = "left"
  BY <1>1, <1>8 DEF Calls!Abandon
<1> QED BY <1>2, <1>3, <1>4, <1>5, <1>6, <1>7, <1>8

\* Every step of a holder is a step of PoolImpl or concerns neither the method
\* that is called nor whether the container or pod is there.
LEMMA CallsStep == HolderInv /\ [Next]_vars => [Calls!Next]_(Calls!vars)
<1> SUFFICES ASSUME TypeOK, Brought, [Next]_vars PROVE [Calls!Next]_(Calls!vars)
  BY DEF HolderInv
<1> USE DEF CallOf, ObjOf, Building, callVars, resultVars, procVars, treeVars, cleanVars
<1>1. CASE BuildStep
  <2>1. CASE Create
    BY <2>1, CallMoves DEF Create, Brought
  <2>2. CASE Verify \/ Start
    BY <2>2, CallMoves DEF Verify, Start, Fail, HolderUp, Brought
  <2>3. CASE Startup \/ NetWait
    BY <2>3, CallMoves DEF Startup, NetWait, Fail, Brought
  <2> QED BY <1>1, <2>1, <2>2, <2>3 DEF BuildStep
<1>2. CASE Run
  BY <1>2, CallMoves DEF Run
<1>3. CASE CallStep
  <2>1. CASE Exec
    BY <2>1, CallMoves DEF Exec, Finish
  <2>2. CASE Stream
    BY <2>2, CallMoves DEF Stream, StreamDocker, StreamK8s, Finish
  <2>3. CASE Inspect
    BY <2>3, CallMoves DEF Inspect, Finish
  <2>4. CASE Cleanup \/ Reaped
    BY <2>4, CallMoves DEF Cleanup, Reaped, Brought
  <2>5. CASE Check
    BY <2>5, CallMoves DEF Check, Up
  <2> QED BY <1>3, <2>1, <2>2, <2>3, <2>4, <2>5 DEF CallStep
<1>0. ASSUME UNCHANGED <<pc, obj, lapsed>> PROVE [Calls!Next]_(Calls!vars)
  <2>1. CallOf' = CallOf /\ ObjOf' = ObjOf
    BY <1>0
  <2> QED BY <2>1, CallMoves
<1>4. CASE ScriptStep
  <2>1. UNCHANGED <<pc, obj, lapsed>>
    BY <1>4 DEF ScriptStep, RemoveFiles, KillAll, Visit
  <2> QED BY <1>0, <2>1
<1>5. CASE Environment /\ ~HolderEnds /\ ~PodStarts
  <2>1. UNCHANGED <<pc, obj, lapsed>>
    BY <1>5 DEF Environment, Fork, Exit, Rename, ContextEnds, StreamBreaks
  <2> QED BY <1>0, <2>1
<1>6. CASE HolderEnds
  BY <1>6, CallMoves DEF HolderEnds, Up, Brought, NothingBuiltInVain, TypeOK, Stages
<1>7. CASE PodStarts
  BY <1>7, CallMoves DEF PodStarts, HolderUp, Brought, NothingBuiltInVain
<1>8. CASE UNCHANGED vars
  BY <1>8, CallMoves DEF vars
<1> QED BY <1>1, <1>2, <1>3, <1>4, <1>5, <1>6, <1>7, <1>8 DEF Next, Environment

(***************************************************************************)
(* A docker or k8s holder implements the protocol of poolImpl              *)
(* (pool.go:23-33; pooldocker.go:31-197, poolk8s.go:102-242), for any      *)
(* number of runs and processes and any faults.                            *)
(***************************************************************************)
THEOREM HolderImplementsPoolImpl == Spec => ImplementsPoolImpl
<1>1. Init => Calls!Init
  BY DEF Init, Calls!Init, CallOf, ObjOf, Building
<1> QED BY <1>1, CallsStep, HolderInvariant, PTL DEF Spec, ImplementsPoolImpl, Calls!Spec
=============================================================================
