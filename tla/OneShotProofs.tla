---------------------------- MODULE OneShotProofs ----------------------------
(***************************************************************************)
(* The safety properties of OneShot for every set of calls, both backends, *)
(* any number of chunks and any faults that a theorem does not rule out.   *)
(*                                                                         *)
(* A step of one call changes nothing of another one, except that it may   *)
(* create the policy (FrameStep), so the invariant is one of single calls, *)
(* CallInv(c), and is shown per action for the call that acts.             *)
(***************************************************************************)
EXTENDS OneShot, TLAPS

Early    == {"idle", "policy", "create"}
Unstarted == Early \cup {"verify", "attach", "start", "startup", "netwait",
                         "exec"}
Linked   == {"start", "wait", "drain", "oom", "stream"}
Finished == {"cleanup", "returned"}

\* The object exists from Create on, and the command only inside it.
LifeOK(c) ==
  /\ pc[c] \in Early => obj[c] = "none"
  /\ pc[c] \notin Early \cup {"returned"} => obj[c] # "none"
  /\ pc[c] \in Unstarted => cmd[c] = "none"
  /\ cmd[c] = "running" => obj[c] = "running"

\* Nothing is left behind, if requests to create and to remove are honest.
Honest == Faults \cap {"lost", "remove"} = {}
LeftOK(c) == Honest /\ pc[c] = "returned" => obj[c] \in {"none", "gone"}

IsolatedOK(c) ==
  backend = "k8s" /\ (pc[c] = "create" \/ obj[c] # "none") => policy

\* The copier is never ahead of the command; while the connection is up it
\* stops only at the end of the output.  Only k8s never gives up on it.
CopyOK(c) ==
  /\ got[c] <= made[c] /\ (copier[c] = "writing" => got[c] < made[c])
  /\ pc[c] \in Linked /\ cut[c] = "none" => link[c] = "up"
  /\ cut[c] = "late" => backend = "docker" /\ pc[c] \in {"oom"} \cup Finished
  /\ copier[c] = "done" /\ link[c] = "up"
       => cmd[c] \notin {"none", "running"} /\ got[c] = made[c]

\* What a call that succeeds knows of its copier.
Whole(c) ==
  /\ cut[c] # "late" => copier[c] = "done"
  /\ got[c] = made[c] \/ (backend = "docker" /\ cut[c] # "none")

\* What the result says, from the moment its parts are known.
ResultOK(c) ==
  /\ pc[c] \in {"drain", "oom"} => cmd[c] \in Exits /\ res[c].code = cmd[c]
  /\ pc[c] = "oom" => Whole(c)
  /\ pc[c] \in Finished /\ ~res[c].err
       => cmd[c] \in Exits /\ res[c].code = cmd[c] /\ Whole(c)
  /\ pc[c] \notin Finished => ~res[c].timedOut /\ ~res[c].oom
  /\ res[c].timedOut => res[c].err /\ RunOver(c)
  /\ res[c].oom => cmd[c] = "137"

\* On k8s a copier exists only behind syncWriters, and Stream closes them.
QuietOK(c) ==
  backend = "k8s" =>
    /\ pc[c] \notin {"verify", "attach", "start", "wait", "drain", "oom"}
    /\ pc[c] # "stream" => shut[c] \/ copier[c] = "none"

CallInv(c) ==
  /\ LifeOK(c) /\ LeftOK(c) /\ IsolatedOK(c)
  /\ CopyOK(c) /\ ResultOK(c) /\ QuietOK(c)

SafeInv == TypeOK /\ \A c \in Calls : CallInv(c)

Acts(c) == Begin(c) \/ CallStep(c) \/ CopyStep(c) \/ Environment(c)

-----------------------------------------------------------------------------
\* All of a call's state is as it was.
Same(d) ==
  /\ pc'[d] = pc[d] /\ res'[d] = res[d]
  /\ obj'[d] = obj[d] /\ cmd'[d] = cmd[d] /\ made'[d] = made[d]
  /\ link'[d] = link[d] /\ copier'[d] = copier[d] /\ got'[d] = got[d]
  /\ shut'[d] = shut[d] /\ timer'[d] = timer[d]
  /\ cancelled'[d] = cancelled[d] /\ cut'[d] = cut[d]
-----------------------------------------------------------------------------
\* What Failed, Late, Coded and Killed make of a Result r.
ErrorFields(r) ==
  /\ Failed(r) \in Results /\ Failed(r).err /\ Failed(r).code = r.code
  /\ Failed(r).timedOut = r.timedOut /\ Failed(r).oom = r.oom
  /\ Late(r) \in Results /\ Late(r).err /\ Late(r).code = r.code
  /\ Late(r).timedOut /\ Late(r).oom = r.oom

CodedFields(r, x) ==
  /\ Coded(r, x) \in Results /\ Coded(r, x).code = x
  /\ Coded(r, x).err = r.err /\ Coded(r, x).oom = r.oom
  /\ Coded(r, x).timedOut = r.timedOut

KilledFields(r, seen) ==
  /\ Killed(r, seen) \in Results /\ Killed(r, seen).oom = seen
  /\ Killed(r, seen).err = r.err /\ Killed(r, seen).code = r.code
  /\ Killed(r, seen).timedOut = r.timedOut

\* Failed and Late set the error, and Late the timeout; the rest stays.
LEMMA ErrorSets == ASSUME NEW r \in Results PROVE ErrorFields(r)
  BY DEF Results, Failed, Late, ErrorFields

\* Coded sets the exit code and nothing else.
LEMMA CodedSets ==
  ASSUME NEW r \in Results, NEW x \in Exits PROVE CodedFields(r, x)
  BY DEF Results, Coded, CodedFields

\* Killed sets the OOM flag and nothing else.
LEMMA KilledSets ==
  ASSUME NEW r \in Results, NEW seen \in BOOLEAN PROVE KilledFields(r, seen)
  BY DEF Results, Killed, KilledFields

-----------------------------------------------------------------------------
\* TypeOK: no action of a call gives a variable a value outside its type.
LEMMA TypeStep ==
  ASSUME TypeOK, NEW c \in Calls, CopyOK(c), Acts(c)
  PROVE  TypeOK'
<1> USE OneShotAssumption
<1>r. res[c] \in Results
  BY DEF TypeOK
<1>e. ErrorFields(res[c])
  BY <1>r, ErrorSets
<1>c. cmd[c] \in Exits => CodedFields(res[c], cmd[c])
  BY <1>r, CodedSets
<1>s. cmd[c] \in Exits =>
        KilledFields(Coded(res[c], cmd[c]), cmd[c] = "137")
  BY <1>c, KilledSets DEF CodedFields
<1>1. CASE Begin(c)
  BY <1>1, <1>e DEF Begin, Move, Goto, ReturnError, ErrorFields, TypeOK,
     Stages, Exits, callVars, objVars, outVars, ctxVars
<1>2. CASE Create(c)
  BY <1>2, <1>e DEF Create, Move, Goto, ReturnError, ApiFails, ErrorFields,
     TypeOK, Stages, Exits, callVars, objVars, outVars, ctxVars
<1>3. CASE Cleanup(c)
  BY <1>3 DEF Cleanup, Move, Goto, TypeOK, Stages, Exits, callVars, objVars,
     outVars, ctxVars
<1>4. CASE Verify(c)
  BY <1>4, <1>e DEF Verify, Move, Goto, Abort, ErrorFields, TypeOK, Stages,
     Exits, callVars, objVars, outVars, ctxVars
<1>5. CASE Attach(c)
  BY <1>5, <1>e DEF Attach, Move, Goto, Abort, Connect, ErrorFields, TypeOK,
     Stages, Exits, callVars, objVars, outVars, ctxVars
<1>6. CASE Start(c)
  BY <1>6, <1>e DEF Start, Move, Goto, Abort, Started, ErrorFields, TypeOK,
     Stages, Exits, callVars, objVars, outVars, ctxVars
<1>7. CASE Wait(c)
  BY <1>7, <1>e, <1>c DEF Wait, Goto, Abort, TimeOut, Exited, ExitStatus,
     RunOver, ErrorFields, CodedFields, TypeOK, Stages, Exits, callVars,
     objVars, outVars, ctxVars
<1>8. CASE Drain(c)
  BY <1>8 DEF Drain, Move, Goto, Drained, TypeOK, Stages, Exits, callVars,
     objVars, outVars, ctxVars
<1>9. CASE InspectOOM(c)
  <2>1. PICK seen \in BOOLEAN :
          (seen => cmd[c] = "137") /\ res' = [res EXCEPT ![c] = Killed(@, seen)]
    BY <1>9 DEF InspectOOM
  <2>2. KilledFields(res[c], seen)
    BY <1>r, KilledSets
  <2> QED
    BY <1>9, <2>1, <2>2 DEF InspectOOM, Goto, KilledFields, TypeOK, Stages,
       Exits, callVars, objVars, outVars, ctxVars
<1>10. CASE EnsurePolicy(c)
  <2>1. CASE policy' = TRUE /\ Move(c, "create")
    BY <1>10, <2>1 DEF EnsurePolicy, Move, Goto, TypeOK, Stages, Exits,
       callVars, objVars, outVars, ctxVars
  <2>2. CASE PolicyError(c) /\ UNCHANGED policy
    BY <1>10, <2>2, <1>e DEF EnsurePolicy, Goto, PolicyError, ReturnError,
       ErrorFields, TypeOK, Stages, Exits, callVars, objVars, outVars,
       ctxVars
  <2> QED
    BY <1>10, <2>1, <2>2 DEF EnsurePolicy
<1>11. CASE WaitPodRunning(c)
  BY <1>11, <1>e DEF WaitPodRunning, Move, Goto, Abort, TimeOut, RunOver,
     ErrorFields, TypeOK, Stages, Exits, callVars, objVars, outVars, ctxVars
<1>12. CASE NetWait(c)
  BY <1>12, <1>e DEF NetWait, Move, Goto, TimeOut, RunOver, ErrorFields,
     TypeOK, Stages, Exits, callVars, objVars, outVars, ctxVars
<1>13. CASE Exec(c)
  BY <1>13, <1>e DEF Exec, Move, Goto, Abort, TimeOut, Connect, RunOver,
     ErrorFields, TypeOK, Stages, Exits, callVars, objVars, outVars, ctxVars
<1>14. CASE Stream(c)
  BY <1>14, <1>e, <1>s, <1>c DEF Stream, Goto, Abort, TimeOut, Exited,
     ExitStatus, RunOver, ErrorFields, KilledFields, CodedFields, TypeOK,
     Stages, Exits, callVars, objVars, outVars, ctxVars
<1>15. CASE CopyStep(c)
  BY <1>15 DEF CopyStep, Read, Write, CopyEnds, Dropped, TypeOK, Stages,
     Exits, callVars, objVars, outVars, ctxVars, CopyOK
<1>16. CASE Produce(c)
  BY <1>16 DEF Produce, TypeOK, Stages, Exits, callVars, objVars, outVars,
     ctxVars
<1>17. CASE Exit(c)
  BY <1>17 DEF Exit, TypeOK, Stages, Exits, callVars, objVars, outVars,
     ctxVars
<1>18. CASE PodStarts(c)
  BY <1>18 DEF PodStarts, TypeOK, Stages, Exits, callVars, objVars, outVars,
     ctxVars
<1>19. CASE PodDies(c)
  BY <1>19 DEF PodDies, TypeOK, Stages, Exits, callVars, objVars, outVars,
     ctxVars
<1>20. CASE TimerFires(c)
  BY <1>20 DEF TimerFires, TypeOK, Stages, Exits, callVars, objVars,
     outVars, ctxVars
<1>21. CASE Cancel(c)
  BY <1>21 DEF Cancel, TypeOK, Stages, Exits, callVars, objVars, outVars,
     ctxVars
<1>22. CASE LinkBreaks(c)
  BY <1>22 DEF LinkBreaks, TypeOK, Stages, Exits, callVars, objVars, outVars,
     ctxVars
<1> QED
  BY <1>1, <1>2, <1>3, <1>4, <1>5, <1>6, <1>7, <1>8, <1>9, <1>10, <1>11,
     <1>12, <1>13, <1>14, <1>15, <1>16, <1>17, <1>18, <1>19, <1>20, <1>21, <1>22
     DEF Acts, CallStep, DockerStep, K8sStep, Environment

\* A step of call c leaves the other calls, the backend and the policy be.
LEMMA FrameStep ==
  ASSUME TypeOK, NEW c \in Calls, Acts(c)
  PROVE  /\ backend' = backend /\ (policy => policy')
         /\ \A d \in Calls \ {c} : Same(d)
<1>1. CASE Begin(c)
  BY <1>1 DEF Begin, Move, Goto, ReturnError, TypeOK, Same, callVars,
     objVars, outVars, ctxVars
<1>2. CASE Create(c)
  BY <1>2 DEF Create, Move, Goto, ReturnError, ApiFails, TypeOK, Same,
     callVars, objVars, outVars, ctxVars
<1>3. CASE Cleanup(c)
  BY <1>3 DEF Cleanup, Move, Goto, TypeOK, Same, callVars, objVars, outVars,
     ctxVars
<1>4. CASE Verify(c)
  BY <1>4 DEF Verify, Move, Goto, Abort, TypeOK, Same, callVars, objVars,
     outVars, ctxVars
<1>5. CASE Attach(c)
  BY <1>5 DEF Attach, Move, Goto, Abort, Connect, TypeOK, Same, callVars,
     objVars, outVars, ctxVars
<1>6. CASE Start(c)
  BY <1>6 DEF Start, Move, Goto, Abort, Started, TypeOK, Same, callVars,
     objVars, outVars, ctxVars
<1>7. CASE Wait(c)
  BY <1>7 DEF Wait, Goto, Abort, TimeOut, Exited, ExitStatus, RunOver,
     TypeOK, Same, callVars, objVars, outVars, ctxVars
<1>8. CASE Drain(c)
  BY <1>8 DEF Drain, Move, Goto, Drained, TypeOK, Same, callVars, objVars,
     outVars, ctxVars
<1>9. CASE InspectOOM(c)
  BY <1>9 DEF InspectOOM, Goto, TypeOK, Same, callVars, objVars, outVars,
     ctxVars
<1>10. CASE EnsurePolicy(c)
  BY <1>10 DEF EnsurePolicy, Move, Goto, PolicyError, ReturnError, TypeOK,
     Same, callVars, objVars, outVars, ctxVars
<1>11. CASE WaitPodRunning(c)
  BY <1>11 DEF WaitPodRunning, Move, Goto, Abort, TimeOut, RunOver, TypeOK,
     Same, callVars, objVars, outVars, ctxVars
<1>12. CASE NetWait(c)
  BY <1>12 DEF NetWait, Move, Goto, TimeOut, RunOver, TypeOK, Same,
     callVars, objVars, outVars, ctxVars
<1>13. CASE Exec(c)
  BY <1>13 DEF Exec, Move, Goto, Abort, TimeOut, Connect, RunOver, TypeOK,
     Same, callVars, objVars, outVars, ctxVars
<1>14. CASE Stream(c)
  BY <1>14 DEF Stream, Goto, Abort, TimeOut, Exited, ExitStatus, RunOver,
     TypeOK, Same, callVars, objVars, outVars, ctxVars
<1>15. CASE CopyStep(c)
  BY <1>15 DEF CopyStep, Read, Write, CopyEnds, Dropped, TypeOK, Same,
     callVars, objVars, outVars, ctxVars
<1>16. CASE Produce(c)
  BY <1>16 DEF Produce, TypeOK, Same, callVars, objVars, outVars, ctxVars
<1>17. CASE Exit(c)
  BY <1>17 DEF Exit, TypeOK, Same, callVars, objVars, outVars, ctxVars
<1>18. CASE PodStarts(c)
  BY <1>18 DEF PodStarts, TypeOK, Same, callVars, objVars, outVars, ctxVars
<1>19. CASE PodDies(c)
  BY <1>19 DEF PodDies, TypeOK, Same, callVars, objVars, outVars, ctxVars
<1>20. CASE TimerFires(c)
  BY <1>20 DEF TimerFires, TypeOK, Same, callVars, objVars, outVars, ctxVars
<1>21. CASE Cancel(c)
  BY <1>21 DEF Cancel, TypeOK, Same, callVars, objVars, outVars, ctxVars
<1>22. CASE LinkBreaks(c)
  BY <1>22 DEF LinkBreaks, TypeOK, Same, callVars, objVars, outVars, ctxVars
<1> QED
  BY <1>1, <1>2, <1>3, <1>4, <1>5, <1>6, <1>7, <1>8, <1>9, <1>10, <1>11,
     <1>12, <1>13, <1>14, <1>15, <1>16, <1>17, <1>18, <1>19, <1>20, <1>21, <1>22
     DEF Acts, CallStep, DockerStep, K8sStep, Environment

\* LifeOK: the object and the command keep in step with the call.
LEMMA LifeStep ==
  ASSUME TypeOK, NEW c \in Calls, CallInv(c), Acts(c)
  PROVE  LifeOK(c)'
<1> USE OneShotAssumption DEF CallInv
<1>1. CASE Begin(c)
  BY <1>1 DEF Begin, Move, Goto, ReturnError, LifeOK, TypeOK, Stages, Exits,
     Early, Unstarted, Linked, Finished, callVars, objVars, outVars, ctxVars
<1>2. CASE Create(c)
  BY <1>2 DEF Create, Move, Goto, ReturnError, ApiFails, LifeOK, TypeOK,
     Stages, Exits, Early, Unstarted, Linked, Finished, callVars, objVars,
     outVars, ctxVars
<1>3. CASE Cleanup(c)
  BY <1>3 DEF Cleanup, Move, Goto, LifeOK, TypeOK, Stages, Exits, Early,
     Unstarted, Linked, Finished, callVars, objVars, outVars, ctxVars
<1>4. CASE Verify(c)
  BY <1>4 DEF Verify, Move, Goto, Abort, LifeOK, TypeOK, Stages, Exits,
     Early, Unstarted, Linked, Finished, callVars, objVars, outVars, ctxVars
<1>5. CASE Attach(c)
  BY <1>5 DEF Attach, Move, Goto, Abort, Connect, LifeOK, TypeOK, Stages,
     Exits, Early, Unstarted, Linked, Finished, callVars, objVars, outVars,
     ctxVars
<1>6. CASE Start(c)
  BY <1>6 DEF Start, Move, Goto, Abort, Started, LifeOK, TypeOK, Stages,
     Exits, Early, Unstarted, Linked, Finished, callVars, objVars, outVars,
     ctxVars
<1>7. CASE Wait(c)
  BY <1>7 DEF Wait, Goto, Abort, TimeOut, Exited, ExitStatus, RunOver,
     LifeOK, TypeOK, Stages, Exits, Early, Unstarted, Linked, Finished,
     callVars, objVars, outVars, ctxVars
<1>8. CASE Drain(c)
  BY <1>8 DEF Drain, Move, Goto, Drained, LifeOK, TypeOK, Stages, Exits,
     Early, Unstarted, Linked, Finished, callVars, objVars, outVars, ctxVars
<1>9. CASE InspectOOM(c)
  BY <1>9 DEF InspectOOM, Goto, LifeOK, TypeOK, Stages, Exits, Early,
     Unstarted, Linked, Finished, callVars, objVars, outVars, ctxVars
<1>10. CASE EnsurePolicy(c)
  BY <1>10 DEF EnsurePolicy, Move, Goto, PolicyError, ReturnError, LifeOK,
     TypeOK, Stages, Exits, Early, Unstarted, Linked, Finished, callVars,
     objVars, outVars, ctxVars
<1>11. CASE WaitPodRunning(c)
  BY <1>11 DEF WaitPodRunning, Move, Goto, Abort, TimeOut, RunOver, LifeOK,
     TypeOK, Stages, Exits, Early, Unstarted, Linked, Finished, callVars,
     objVars, outVars, ctxVars
<1>12. CASE NetWait(c)
  BY <1>12 DEF NetWait, Move, Goto, TimeOut, RunOver, LifeOK, TypeOK,
     Stages, Exits, Early, Unstarted, Linked, Finished, callVars, objVars,
     outVars, ctxVars
<1>13. CASE Exec(c)
  BY <1>13 DEF Exec, Move, Goto, Abort, TimeOut, Connect, RunOver, LifeOK,
     TypeOK, Stages, Exits, Early, Unstarted, Linked, Finished, callVars,
     objVars, outVars, ctxVars
<1>14. CASE Stream(c)
  BY <1>14 DEF Stream, Goto, Abort, TimeOut, Exited, ExitStatus, RunOver,
     LifeOK, TypeOK, Stages, Exits, Early, Unstarted, Linked, Finished,
     callVars, objVars, outVars, ctxVars
<1>15. CASE CopyStep(c)
  BY <1>15 DEF CopyStep, Read, Write, CopyEnds, Dropped, LifeOK, TypeOK,
     Stages, Exits, Early, Unstarted, Linked, Finished, callVars, objVars,
     outVars, ctxVars
<1>16. CASE Produce(c)
  BY <1>16 DEF Produce, LifeOK, TypeOK, Stages, Exits, Early, Unstarted,
     Linked, Finished, callVars, objVars, outVars, ctxVars
<1>17. CASE Exit(c)
  BY <1>17 DEF Exit, LifeOK, TypeOK, Stages, Exits, Early, Unstarted,
     Linked, Finished, callVars, objVars, outVars, ctxVars
<1>18. CASE PodStarts(c)
  BY <1>18 DEF PodStarts, LifeOK, TypeOK, Stages, Exits, Early, Unstarted,
     Linked, Finished, callVars, objVars, outVars, ctxVars
<1>19. CASE PodDies(c)
  BY <1>19 DEF PodDies, LifeOK, TypeOK, Stages, Exits, Early, Unstarted,
     Linked, Finished, callVars, objVars, outVars, ctxVars
<1>20. CASE TimerFires(c)
  BY <1>20 DEF TimerFires, LifeOK, TypeOK, Stages, Exits, Early, Unstarted,
     Linked, Finished, callVars, objVars, outVars, ctxVars
<1>21. CASE Cancel(c)
  BY <1>21 DEF Cancel, LifeOK, TypeOK, Stages, Exits, Early, Unstarted,
     Linked, Finished, callVars, objVars, outVars, ctxVars
<1>22. CASE LinkBreaks(c)
  BY <1>22 DEF LinkBreaks, LifeOK, TypeOK, Stages, Exits, Early, Unstarted,
     Linked, Finished, callVars, objVars, outVars, ctxVars
<1> QED
  BY <1>1, <1>2, <1>3, <1>4, <1>5, <1>6, <1>7, <1>8, <1>9, <1>10, <1>11,
     <1>12, <1>13, <1>14, <1>15, <1>16, <1>17, <1>18, <1>19, <1>20, <1>21, <1>22
     DEF Acts, CallStep, DockerStep, K8sStep, Environment

\* LeftOK: a call returns before its object exists or after removing it.
LEMMA LeftStep ==
  ASSUME TypeOK, NEW c \in Calls, CallInv(c), Acts(c)
  PROVE  LeftOK(c)'
<1> USE OneShotAssumption DEF CallInv
<1>1. CASE Begin(c)
  BY <1>1 DEF Begin, Move, Goto, ReturnError, LifeOK, LeftOK, Honest,
     TypeOK, Stages, Exits, Early, Unstarted, Linked, Finished, callVars,
     objVars, outVars, ctxVars
<1>2. CASE Create(c)
  BY <1>2 DEF Create, Move, Goto, ReturnError, ApiFails, LifeOK, LeftOK,
     Honest, TypeOK, Stages, Exits, Early, Unstarted, Linked, Finished,
     callVars, objVars, outVars, ctxVars
<1>3. CASE Cleanup(c)
  BY <1>3 DEF Cleanup, Move, Goto, LifeOK, LeftOK, Honest, TypeOK, Stages,
     Exits, Early, Unstarted, Linked, Finished, callVars, objVars, outVars,
     ctxVars
<1>4. CASE Verify(c)
  BY <1>4 DEF Verify, Move, Goto, Abort, LifeOK, LeftOK, Honest, TypeOK,
     Stages, Exits, Early, Unstarted, Linked, Finished, callVars, objVars,
     outVars, ctxVars
<1>5. CASE Attach(c)
  BY <1>5 DEF Attach, Move, Goto, Abort, Connect, LifeOK, LeftOK, Honest,
     TypeOK, Stages, Exits, Early, Unstarted, Linked, Finished, callVars,
     objVars, outVars, ctxVars
<1>6. CASE Start(c)
  BY <1>6 DEF Start, Move, Goto, Abort, Started, LifeOK, LeftOK, Honest,
     TypeOK, Stages, Exits, Early, Unstarted, Linked, Finished, callVars,
     objVars, outVars, ctxVars
<1>7. CASE Wait(c)
  BY <1>7 DEF Wait, Goto, Abort, TimeOut, Exited, ExitStatus, RunOver,
     LifeOK, LeftOK, Honest, TypeOK, Stages, Exits, Early, Unstarted,
     Linked, Finished, callVars, objVars, outVars, ctxVars
<1>8. CASE Drain(c)
  BY <1>8 DEF Drain, Move, Goto, Drained, LifeOK, LeftOK, Honest, TypeOK,
     Stages, Exits, Early, Unstarted, Linked, Finished, callVars, objVars,
     outVars, ctxVars
<1>9. CASE InspectOOM(c)
  BY <1>9 DEF InspectOOM, Goto, LifeOK, LeftOK, Honest, TypeOK, Stages,
     Exits, Early, Unstarted, Linked, Finished, callVars, objVars, outVars,
     ctxVars
<1>10. CASE EnsurePolicy(c)
  BY <1>10 DEF EnsurePolicy, Move, Goto, PolicyError, ReturnError, LifeOK,
     LeftOK, Honest, TypeOK, Stages, Exits, Early, Unstarted, Linked,
     Finished, callVars, objVars, outVars, ctxVars
<1>11. CASE WaitPodRunning(c)
  BY <1>11 DEF WaitPodRunning, Move, Goto, Abort, TimeOut, RunOver, LifeOK,
     LeftOK, Honest, TypeOK, Stages, Exits, Early, Unstarted, Linked,
     Finished, callVars, objVars, outVars, ctxVars
<1>12. CASE NetWait(c)
  BY <1>12 DEF NetWait, Move, Goto, TimeOut, RunOver, LifeOK, LeftOK,
     Honest, TypeOK, Stages, Exits, Early, Unstarted, Linked, Finished,
     callVars, objVars, outVars, ctxVars
<1>13. CASE Exec(c)
  BY <1>13 DEF Exec, Move, Goto, Abort, TimeOut, Connect, RunOver, LifeOK,
     LeftOK, Honest, TypeOK, Stages, Exits, Early, Unstarted, Linked,
     Finished, callVars, objVars, outVars, ctxVars
<1>14. CASE Stream(c)
  BY <1>14 DEF Stream, Goto, Abort, TimeOut, Exited, ExitStatus, RunOver,
     LifeOK, LeftOK, Honest, TypeOK, Stages, Exits, Early, Unstarted,
     Linked, Finished, callVars, objVars, outVars, ctxVars
<1>15. CASE CopyStep(c)
  BY <1>15 DEF CopyStep, Read, Write, CopyEnds, Dropped, LifeOK, LeftOK,
     Honest, TypeOK, Stages, Exits, Early, Unstarted, Linked, Finished,
     callVars, objVars, outVars, ctxVars
<1>16. CASE Produce(c)
  BY <1>16 DEF Produce, LifeOK, LeftOK, Honest, TypeOK, Stages, Exits,
     Early, Unstarted, Linked, Finished, callVars, objVars, outVars, ctxVars
<1>17. CASE Exit(c)
  BY <1>17 DEF Exit, LifeOK, LeftOK, Honest, TypeOK, Stages, Exits, Early,
     Unstarted, Linked, Finished, callVars, objVars, outVars, ctxVars
<1>18. CASE PodStarts(c)
  BY <1>18 DEF PodStarts, LifeOK, LeftOK, Honest, TypeOK, Stages, Exits,
     Early, Unstarted, Linked, Finished, callVars, objVars, outVars, ctxVars
<1>19. CASE PodDies(c)
  BY <1>19 DEF PodDies, LifeOK, LeftOK, Honest, TypeOK, Stages, Exits,
     Early, Unstarted, Linked, Finished, callVars, objVars, outVars, ctxVars
<1>20. CASE TimerFires(c)
  BY <1>20 DEF TimerFires, LifeOK, LeftOK, Honest, TypeOK, Stages, Exits,
     Early, Unstarted, Linked, Finished, callVars, objVars, outVars, ctxVars
<1>21. CASE Cancel(c)
  BY <1>21 DEF Cancel, LifeOK, LeftOK, Honest, TypeOK, Stages, Exits, Early,
     Unstarted, Linked, Finished, callVars, objVars, outVars, ctxVars
<1>22. CASE LinkBreaks(c)
  BY <1>22 DEF LinkBreaks, LifeOK, LeftOK, Honest, TypeOK, Stages, Exits,
     Early, Unstarted, Linked, Finished, callVars, objVars, outVars, ctxVars
<1> QED
  BY <1>1, <1>2, <1>3, <1>4, <1>5, <1>6, <1>7, <1>8, <1>9, <1>10, <1>11,
     <1>12, <1>13, <1>14, <1>15, <1>16, <1>17, <1>18, <1>19, <1>20, <1>21, <1>22
     DEF Acts, CallStep, DockerStep, K8sStep, Environment

\* IsolatedOK: the policy comes before the pod.
LEMMA IsolatedStep ==
  ASSUME TypeOK, NEW c \in Calls, CallInv(c), Acts(c)
  PROVE  IsolatedOK(c)'
<1> USE OneShotAssumption DEF CallInv
<1>1. CASE Begin(c)
  BY <1>1 DEF Begin, Move, Goto, ReturnError, LifeOK, IsolatedOK, TypeOK,
     Stages, Exits, Early, Unstarted, Linked, Finished, callVars, objVars,
     outVars, ctxVars
<1>2. CASE Create(c)
  BY <1>2 DEF Create, Move, Goto, ReturnError, ApiFails, LifeOK, IsolatedOK,
     TypeOK, Stages, Exits, Early, Unstarted, Linked, Finished, callVars,
     objVars, outVars, ctxVars
<1>3. CASE Cleanup(c)
  BY <1>3 DEF Cleanup, Move, Goto, LifeOK, IsolatedOK, TypeOK, Stages,
     Exits, Early, Unstarted, Linked, Finished, callVars, objVars, outVars,
     ctxVars
<1>4. CASE Verify(c)
  BY <1>4 DEF Verify, Move, Goto, Abort, LifeOK, IsolatedOK, TypeOK, Stages,
     Exits, Early, Unstarted, Linked, Finished, callVars, objVars, outVars,
     ctxVars
<1>5. CASE Attach(c)
  BY <1>5 DEF Attach, Move, Goto, Abort, Connect, LifeOK, IsolatedOK,
     TypeOK, Stages, Exits, Early, Unstarted, Linked, Finished, callVars,
     objVars, outVars, ctxVars
<1>6. CASE Start(c)
  BY <1>6 DEF Start, Move, Goto, Abort, Started, LifeOK, IsolatedOK, TypeOK,
     Stages, Exits, Early, Unstarted, Linked, Finished, callVars, objVars,
     outVars, ctxVars
<1>7. CASE Wait(c)
  BY <1>7 DEF Wait, Goto, Abort, TimeOut, Exited, ExitStatus, RunOver,
     LifeOK, IsolatedOK, TypeOK, Stages, Exits, Early, Unstarted, Linked,
     Finished, callVars, objVars, outVars, ctxVars
<1>8. CASE Drain(c)
  BY <1>8 DEF Drain, Move, Goto, Drained, LifeOK, IsolatedOK, TypeOK,
     Stages, Exits, Early, Unstarted, Linked, Finished, callVars, objVars,
     outVars, ctxVars
<1>9. CASE InspectOOM(c)
  BY <1>9 DEF InspectOOM, Goto, LifeOK, IsolatedOK, TypeOK, Stages, Exits,
     Early, Unstarted, Linked, Finished, callVars, objVars, outVars, ctxVars
<1>10. CASE EnsurePolicy(c)
  BY <1>10 DEF EnsurePolicy, Move, Goto, PolicyError, ReturnError, LifeOK,
     IsolatedOK, TypeOK, Stages, Exits, Early, Unstarted, Linked, Finished,
     callVars, objVars, outVars, ctxVars
<1>11. CASE WaitPodRunning(c)
  BY <1>11 DEF WaitPodRunning, Move, Goto, Abort, TimeOut, RunOver, LifeOK,
     IsolatedOK, TypeOK, Stages, Exits, Early, Unstarted, Linked, Finished,
     callVars, objVars, outVars, ctxVars
<1>12. CASE NetWait(c)
  BY <1>12 DEF NetWait, Move, Goto, TimeOut, RunOver, LifeOK, IsolatedOK,
     TypeOK, Stages, Exits, Early, Unstarted, Linked, Finished, callVars,
     objVars, outVars, ctxVars
<1>13. CASE Exec(c)
  BY <1>13 DEF Exec, Move, Goto, Abort, TimeOut, Connect, RunOver, LifeOK,
     IsolatedOK, TypeOK, Stages, Exits, Early, Unstarted, Linked, Finished,
     callVars, objVars, outVars, ctxVars
<1>14. CASE Stream(c)
  BY <1>14 DEF Stream, Goto, Abort, TimeOut, Exited, ExitStatus, RunOver,
     LifeOK, IsolatedOK, TypeOK, Stages, Exits, Early, Unstarted, Linked,
     Finished, callVars, objVars, outVars, ctxVars
<1>15. CASE CopyStep(c)
  BY <1>15 DEF CopyStep, Read, Write, CopyEnds, Dropped, LifeOK, IsolatedOK,
     TypeOK, Stages, Exits, Early, Unstarted, Linked, Finished, callVars,
     objVars, outVars, ctxVars
<1>16. CASE Produce(c)
  BY <1>16 DEF Produce, LifeOK, IsolatedOK, TypeOK, Stages, Exits, Early,
     Unstarted, Linked, Finished, callVars, objVars, outVars, ctxVars
<1>17. CASE Exit(c)
  BY <1>17 DEF Exit, LifeOK, IsolatedOK, TypeOK, Stages, Exits, Early,
     Unstarted, Linked, Finished, callVars, objVars, outVars, ctxVars
<1>18. CASE PodStarts(c)
  BY <1>18 DEF PodStarts, LifeOK, IsolatedOK, TypeOK, Stages, Exits, Early,
     Unstarted, Linked, Finished, callVars, objVars, outVars, ctxVars
<1>19. CASE PodDies(c)
  BY <1>19 DEF PodDies, LifeOK, IsolatedOK, TypeOK, Stages, Exits, Early,
     Unstarted, Linked, Finished, callVars, objVars, outVars, ctxVars
<1>20. CASE TimerFires(c)
  BY <1>20 DEF TimerFires, LifeOK, IsolatedOK, TypeOK, Stages, Exits, Early,
     Unstarted, Linked, Finished, callVars, objVars, outVars, ctxVars
<1>21. CASE Cancel(c)
  BY <1>21 DEF Cancel, LifeOK, IsolatedOK, TypeOK, Stages, Exits, Early,
     Unstarted, Linked, Finished, callVars, objVars, outVars, ctxVars
<1>22. CASE LinkBreaks(c)
  BY <1>22 DEF LinkBreaks, LifeOK, IsolatedOK, TypeOK, Stages, Exits, Early,
     Unstarted, Linked, Finished, callVars, objVars, outVars, ctxVars
<1> QED
  BY <1>1, <1>2, <1>3, <1>4, <1>5, <1>6, <1>7, <1>8, <1>9, <1>10, <1>11,
     <1>12, <1>13, <1>14, <1>15, <1>16, <1>17, <1>18, <1>19, <1>20, <1>21, <1>22
     DEF Acts, CallStep, DockerStep, K8sStep, Environment

\* CopyOK: the copier stays behind the command and stops at the end.
LEMMA CopyStepKeeps ==
  ASSUME TypeOK, NEW c \in Calls, CallInv(c), Acts(c)
  PROVE  CopyOK(c)'
<1> USE OneShotAssumption DEF CallInv
<1>1. CASE Begin(c)
  BY <1>1 DEF Begin, Move, Goto, ReturnError, LifeOK, CopyOK, TypeOK,
     Stages, Exits, Early, Unstarted, Linked, Finished, callVars, objVars,
     outVars, ctxVars
<1>2. CASE Create(c)
  BY <1>2 DEF Create, Move, Goto, ReturnError, ApiFails, LifeOK, CopyOK,
     TypeOK, Stages, Exits, Early, Unstarted, Linked, Finished, callVars,
     objVars, outVars, ctxVars
<1>3. CASE Cleanup(c)
  BY <1>3 DEF Cleanup, Move, Goto, LifeOK, CopyOK, TypeOK, Stages, Exits,
     Early, Unstarted, Linked, Finished, callVars, objVars, outVars, ctxVars
<1>4. CASE Verify(c)
  BY <1>4 DEF Verify, Move, Goto, Abort, LifeOK, CopyOK, TypeOK, Stages,
     Exits, Early, Unstarted, Linked, Finished, callVars, objVars, outVars,
     ctxVars
<1>5. CASE Attach(c)
  BY <1>5 DEF Attach, Move, Goto, Abort, Connect, LifeOK, CopyOK, TypeOK,
     Stages, Exits, Early, Unstarted, Linked, Finished, callVars, objVars,
     outVars, ctxVars
<1>6. CASE Start(c)
  BY <1>6 DEF Start, Move, Goto, Abort, Started, LifeOK, CopyOK, TypeOK,
     Stages, Exits, Early, Unstarted, Linked, Finished, callVars, objVars,
     outVars, ctxVars
<1>7. CASE Wait(c)
  BY <1>7 DEF Wait, Goto, Abort, TimeOut, Exited, ExitStatus, RunOver,
     LifeOK, CopyOK, TypeOK, Stages, Exits, Early, Unstarted, Linked,
     Finished, callVars, objVars, outVars, ctxVars
<1>8. CASE Drain(c)
  BY <1>8 DEF Drain, Move, Goto, Drained, LifeOK, CopyOK, QuietOK,
     TypeOK, Stages, Exits, Early, Unstarted, Linked, Finished, callVars, objVars, outVars,
     ctxVars
<1>9. CASE InspectOOM(c)
  BY <1>9 DEF InspectOOM, Goto, LifeOK, CopyOK, TypeOK, Stages, Exits,
     Early, Unstarted, Linked, Finished, callVars, objVars, outVars, ctxVars
<1>10. CASE EnsurePolicy(c)
  BY <1>10 DEF EnsurePolicy, Move, Goto, PolicyError, ReturnError, LifeOK,
     CopyOK, TypeOK, Stages, Exits, Early, Unstarted, Linked, Finished,
     callVars, objVars, outVars, ctxVars
<1>11. CASE WaitPodRunning(c)
  BY <1>11 DEF WaitPodRunning, Move, Goto, Abort, TimeOut, RunOver, LifeOK,
     CopyOK, TypeOK, Stages, Exits, Early, Unstarted, Linked, Finished,
     callVars, objVars, outVars, ctxVars
<1>12. CASE NetWait(c)
  BY <1>12 DEF NetWait, Move, Goto, TimeOut, RunOver, LifeOK, CopyOK,
     TypeOK, Stages, Exits, Early, Unstarted, Linked, Finished, callVars,
     objVars, outVars, ctxVars
<1>13. CASE Exec(c)
  BY <1>13 DEF Exec, Move, Goto, Abort, TimeOut, Connect, RunOver, LifeOK,
     CopyOK, TypeOK, Stages, Exits, Early, Unstarted, Linked, Finished,
     callVars, objVars, outVars, ctxVars
<1>14. CASE Stream(c)
  BY <1>14 DEF Stream, Goto, Abort, TimeOut, Exited, ExitStatus, RunOver,
     LifeOK, CopyOK, TypeOK, Stages, Exits, Early, Unstarted, Linked,
     Finished, callVars, objVars, outVars, ctxVars
<1>15. CASE CopyStep(c)
  BY <1>15 DEF CopyStep, Read, Write, CopyEnds, Dropped, LifeOK, CopyOK,
     TypeOK, Stages, Exits, Early, Unstarted, Linked, Finished, callVars,
     objVars, outVars, ctxVars
<1>16. CASE Produce(c)
  BY <1>16 DEF Produce, LifeOK, CopyOK, TypeOK, Stages, Exits, Early,
     Unstarted, Linked, Finished, callVars, objVars, outVars, ctxVars
<1>17. CASE Exit(c)
  BY <1>17 DEF Exit, LifeOK, CopyOK, TypeOK, Stages, Exits, Early,
     Unstarted, Linked, Finished, callVars, objVars, outVars, ctxVars
<1>18. CASE PodStarts(c)
  BY <1>18 DEF PodStarts, LifeOK, CopyOK, TypeOK, Stages, Exits, Early,
     Unstarted, Linked, Finished, callVars, objVars, outVars, ctxVars
<1>19. CASE PodDies(c)
  BY <1>19 DEF PodDies, LifeOK, CopyOK, TypeOK, Stages, Exits, Early,
     Unstarted, Linked, Finished, callVars, objVars, outVars, ctxVars
<1>20. CASE TimerFires(c)
  BY <1>20 DEF TimerFires, LifeOK, CopyOK, TypeOK, Stages, Exits, Early,
     Unstarted, Linked, Finished, callVars, objVars, outVars, ctxVars
<1>21. CASE Cancel(c)
  BY <1>21 DEF Cancel, LifeOK, CopyOK, TypeOK, Stages, Exits, Early,
     Unstarted, Linked, Finished, callVars, objVars, outVars, ctxVars
<1>22. CASE LinkBreaks(c)
  BY <1>22 DEF LinkBreaks, LifeOK, CopyOK, TypeOK, Stages, Exits, Early,
     Unstarted, Linked, Finished, callVars, objVars, outVars, ctxVars
<1> QED
  BY <1>1, <1>2, <1>3, <1>4, <1>5, <1>6, <1>7, <1>8, <1>9, <1>10, <1>11,
     <1>12, <1>13, <1>14, <1>15, <1>16, <1>17, <1>18, <1>19, <1>20, <1>21, <1>22
     DEF Acts, CallStep, DockerStep, K8sStep, Environment

\* QuietOK: no copier is left that could still write on k8s.
LEMMA QuietStep ==
  ASSUME TypeOK, NEW c \in Calls, CallInv(c), Acts(c)
  PROVE  QuietOK(c)'
<1> USE OneShotAssumption DEF CallInv
<1>1. CASE Begin(c)
  BY <1>1 DEF Begin, Move, Goto, ReturnError, QuietOK, TypeOK, Stages,
     Exits, Early, Unstarted, Linked, Finished, callVars, objVars, outVars,
     ctxVars
<1>2. CASE Create(c)
  BY <1>2 DEF Create, Move, Goto, ReturnError, ApiFails, QuietOK, TypeOK,
     Stages, Exits, Early, Unstarted, Linked, Finished, callVars, objVars,
     outVars, ctxVars
<1>3. CASE Cleanup(c)
  BY <1>3 DEF Cleanup, Move, Goto, QuietOK, TypeOK, Stages, Exits, Early,
     Unstarted, Linked, Finished, callVars, objVars, outVars, ctxVars
<1>4. CASE Verify(c)
  BY <1>4 DEF Verify, Move, Goto, Abort, QuietOK, TypeOK, Stages, Exits,
     Early, Unstarted, Linked, Finished, callVars, objVars, outVars, ctxVars
<1>5. CASE Attach(c)
  BY <1>5 DEF Attach, Move, Goto, Abort, Connect, QuietOK, TypeOK, Stages,
     Exits, Early, Unstarted, Linked, Finished, callVars, objVars, outVars,
     ctxVars
<1>6. CASE Start(c)
  BY <1>6 DEF Start, Move, Goto, Abort, Started, QuietOK, TypeOK, Stages,
     Exits, Early, Unstarted, Linked, Finished, callVars, objVars, outVars,
     ctxVars
<1>7. CASE Wait(c)
  BY <1>7 DEF Wait, Goto, Abort, TimeOut, Exited, ExitStatus, RunOver,
     QuietOK, TypeOK, Stages, Exits, Early, Unstarted, Linked, Finished,
     callVars, objVars, outVars, ctxVars
<1>8. CASE Drain(c)
  BY <1>8 DEF Drain, Move, Goto, Drained, QuietOK, TypeOK, Stages, Exits,
     Early, Unstarted, Linked, Finished, callVars, objVars, outVars, ctxVars
<1>9. CASE InspectOOM(c)
  BY <1>9 DEF InspectOOM, Goto, QuietOK, TypeOK, Stages, Exits, Early,
     Unstarted, Linked, Finished, callVars, objVars, outVars, ctxVars
<1>10. CASE EnsurePolicy(c)
  BY <1>10 DEF EnsurePolicy, Move, Goto, PolicyError, ReturnError, QuietOK,
     TypeOK, Stages, Exits, Early, Unstarted, Linked, Finished, callVars,
     objVars, outVars, ctxVars
<1>11. CASE WaitPodRunning(c)
  BY <1>11 DEF WaitPodRunning, Move, Goto, Abort, TimeOut, RunOver, QuietOK,
     TypeOK, Stages, Exits, Early, Unstarted, Linked, Finished, callVars,
     objVars, outVars, ctxVars
<1>12. CASE NetWait(c)
  BY <1>12 DEF NetWait, Move, Goto, TimeOut, RunOver, QuietOK, TypeOK,
     Stages, Exits, Early, Unstarted, Linked, Finished, callVars, objVars,
     outVars, ctxVars
<1>13. CASE Exec(c)
  BY <1>13 DEF Exec, Move, Goto, Abort, TimeOut, Connect, RunOver, QuietOK,
     TypeOK, Stages, Exits, Early, Unstarted, Linked, Finished, callVars,
     objVars, outVars, ctxVars
<1>14. CASE Stream(c)
  BY <1>14 DEF Stream, Goto, Abort, TimeOut, Exited, ExitStatus, RunOver,
     QuietOK, TypeOK, Stages, Exits, Early, Unstarted, Linked, Finished,
     callVars, objVars, outVars, ctxVars
<1>15. CASE CopyStep(c)
  BY <1>15 DEF CopyStep, Read, Write, CopyEnds, Dropped, QuietOK, TypeOK,
     Stages, Exits, Early, Unstarted, Linked, Finished, callVars, objVars,
     outVars, ctxVars
<1>16. CASE Produce(c)
  BY <1>16 DEF Produce, QuietOK, TypeOK, Stages, Exits, Early, Unstarted,
     Linked, Finished, callVars, objVars, outVars, ctxVars
<1>17. CASE Exit(c)
  BY <1>17 DEF Exit, QuietOK, TypeOK, Stages, Exits, Early, Unstarted,
     Linked, Finished, callVars, objVars, outVars, ctxVars
<1>18. CASE PodStarts(c)
  BY <1>18 DEF PodStarts, QuietOK, TypeOK, Stages, Exits, Early, Unstarted,
     Linked, Finished, callVars, objVars, outVars, ctxVars
<1>19. CASE PodDies(c)
  BY <1>19 DEF PodDies, QuietOK, TypeOK, Stages, Exits, Early, Unstarted,
     Linked, Finished, callVars, objVars, outVars, ctxVars
<1>20. CASE TimerFires(c)
  BY <1>20 DEF TimerFires, QuietOK, TypeOK, Stages, Exits, Early, Unstarted,
     Linked, Finished, callVars, objVars, outVars, ctxVars
<1>21. CASE Cancel(c)
  BY <1>21 DEF Cancel, QuietOK, TypeOK, Stages, Exits, Early, Unstarted,
     Linked, Finished, callVars, objVars, outVars, ctxVars
<1>22. CASE LinkBreaks(c)
  BY <1>22 DEF LinkBreaks, QuietOK, TypeOK, Stages, Exits, Early, Unstarted,
     Linked, Finished, callVars, objVars, outVars, ctxVars
<1> QED
  BY <1>1, <1>2, <1>3, <1>4, <1>5, <1>6, <1>7, <1>8, <1>9, <1>10, <1>11,
     <1>12, <1>13, <1>14, <1>15, <1>16, <1>17, <1>18, <1>19, <1>20, <1>21, <1>22
     DEF Acts, CallStep, DockerStep, K8sStep, Environment

\* ResultOK: the result is filled in only from what was observed.
LEMMA ResultStep ==
  ASSUME TypeOK, NEW c \in Calls, CallInv(c), Acts(c)
  PROVE  ResultOK(c)'
<1> USE OneShotAssumption DEF CallInv
<1>r. res[c] \in Results
  BY DEF TypeOK
<1>e. ErrorFields(res[c])
  BY <1>r, ErrorSets
<1>c. cmd[c] \in Exits => CodedFields(res[c], cmd[c])
  BY <1>r, CodedSets
<1>s. cmd[c] \in Exits =>
        KilledFields(Coded(res[c], cmd[c]), cmd[c] = "137")
  BY <1>c, KilledSets DEF CodedFields
<1>1. CASE Begin(c)
  BY <1>1, <1>e DEF Begin, Move, Goto, ReturnError, ErrorFields, LifeOK,
     CopyOK, ResultOK, RunOver, Whole, TypeOK, Stages, Exits, Early,
     Unstarted, Linked, Finished, callVars, objVars, outVars, ctxVars
<1>2. CASE Create(c)
  BY <1>2, <1>e DEF Create, Move, Goto, ReturnError, ApiFails, ErrorFields,
     LifeOK, CopyOK, ResultOK, RunOver, Whole, TypeOK, Stages, Exits, Early,
     Unstarted, Linked, Finished, callVars, objVars, outVars, ctxVars
<1>3. CASE Cleanup(c)
  BY <1>3 DEF Cleanup, Move, Goto, LifeOK, CopyOK, ResultOK, RunOver, Whole,
     TypeOK, Stages, Exits, Early, Unstarted, Linked, Finished, callVars,
     objVars, outVars, ctxVars
<1>4. CASE Verify(c)
  BY <1>4, <1>e DEF Verify, Move, Goto, Abort, ErrorFields, LifeOK, CopyOK,
     ResultOK, RunOver, Whole, TypeOK, Stages, Exits, Early, Unstarted,
     Linked, Finished, callVars, objVars, outVars, ctxVars
<1>5. CASE Attach(c)
  BY <1>5, <1>e DEF Attach, Move, Goto, Abort, Connect, ErrorFields, LifeOK,
     CopyOK, ResultOK, RunOver, Whole, TypeOK, Stages, Exits, Early,
     Unstarted, Linked, Finished, callVars, objVars, outVars, ctxVars
<1>6. CASE Start(c)
  BY <1>6, <1>e DEF Start, Move, Goto, Abort, Started, ErrorFields, LifeOK,
     CopyOK, ResultOK, RunOver, Whole, TypeOK, Stages, Exits, Early,
     Unstarted, Linked, Finished, callVars, objVars, outVars, ctxVars
<1>7. CASE Wait(c)
  BY <1>7, <1>e, <1>c DEF Wait, Goto, Abort, TimeOut, Exited, ExitStatus,
     RunOver, ErrorFields, CodedFields, LifeOK, CopyOK, ResultOK, RunOver,
     Whole, TypeOK, Stages, Exits, Early, Unstarted, Linked, Finished,
     callVars, objVars, outVars, ctxVars
<1>8. CASE Drain(c)
  BY <1>8 DEF Drain, Move, Goto, Drained, LifeOK, CopyOK, ResultOK, RunOver,
     QuietOK, Whole, TypeOK, Stages, Exits, Early, Unstarted, Linked, Finished,
     callVars, objVars, outVars, ctxVars
<1>9. CASE InspectOOM(c)
  <2>1. PICK seen \in BOOLEAN :
          (seen => cmd[c] = "137") /\ res' = [res EXCEPT ![c] = Killed(@, seen)]
    BY <1>9 DEF InspectOOM
  <2>2. KilledFields(res[c], seen)
    BY <1>r, KilledSets
  <2> QED
    BY <1>9, <2>1, <2>2 DEF InspectOOM, Goto, KilledFields, LifeOK, CopyOK,
       ResultOK, RunOver, Whole, TypeOK, Stages, Exits, Early, Unstarted,
       Linked, Finished, callVars, objVars, outVars, ctxVars
<1>10. CASE EnsurePolicy(c)
  BY <1>10, <1>e DEF EnsurePolicy, Move, Goto, PolicyError, ReturnError,
     ErrorFields, LifeOK, CopyOK, ResultOK, RunOver, Whole, TypeOK, Stages,
     Exits, Early, Unstarted, Linked, Finished, callVars, objVars, outVars,
     ctxVars
<1>11. CASE WaitPodRunning(c)
  BY <1>11, <1>e DEF WaitPodRunning, Move, Goto, Abort, TimeOut, RunOver,
     ErrorFields, LifeOK, CopyOK, ResultOK, RunOver, Whole, TypeOK, Stages,
     Exits, Early, Unstarted, Linked, Finished, callVars, objVars, outVars,
     ctxVars
<1>12. CASE NetWait(c)
  BY <1>12, <1>e DEF NetWait, Move, Goto, TimeOut, RunOver, ErrorFields,
     LifeOK, CopyOK, ResultOK, RunOver, Whole, TypeOK, Stages, Exits, Early,
     Unstarted, Linked, Finished, callVars, objVars, outVars, ctxVars
<1>13. CASE Exec(c)
  BY <1>13, <1>e DEF Exec, Move, Goto, Abort, TimeOut, Connect, RunOver,
     ErrorFields, LifeOK, CopyOK, ResultOK, RunOver, Whole, TypeOK, Stages,
     Exits, Early, Unstarted, Linked, Finished, callVars, objVars, outVars,
     ctxVars
<1>14. CASE Stream(c)
  BY <1>14, <1>e, <1>s, <1>c DEF Stream, Goto, Abort, TimeOut, Exited,
     ExitStatus, RunOver, ErrorFields, KilledFields, CodedFields, LifeOK,
     CopyOK, ResultOK, RunOver, Whole, TypeOK, Stages, Exits, Early,
     Unstarted, Linked, Finished, callVars, objVars, outVars, ctxVars
<1>15. CASE CopyStep(c)
  BY <1>15 DEF CopyStep, Read, Write, CopyEnds, Dropped, LifeOK, CopyOK,
     ResultOK, RunOver, Whole, TypeOK, Stages, Exits, Early, Unstarted,
     Linked, Finished, callVars, objVars, outVars, ctxVars
<1>16. CASE Produce(c)
  BY <1>16 DEF Produce, LifeOK, CopyOK, ResultOK, RunOver, Whole, TypeOK,
     Stages, Exits, Early, Unstarted, Linked, Finished, callVars, objVars,
     outVars, ctxVars
<1>17. CASE Exit(c)
  BY <1>17 DEF Exit, LifeOK, CopyOK, ResultOK, RunOver, Whole, TypeOK,
     Stages, Exits, Early, Unstarted, Linked, Finished, callVars, objVars,
     outVars, ctxVars
<1>18. CASE PodStarts(c)
  BY <1>18 DEF PodStarts, LifeOK, CopyOK, ResultOK, RunOver, Whole, TypeOK,
     Stages, Exits, Early, Unstarted, Linked, Finished, callVars, objVars,
     outVars, ctxVars
<1>19. CASE PodDies(c)
  BY <1>19 DEF PodDies, LifeOK, CopyOK, ResultOK, RunOver, Whole, TypeOK,
     Stages, Exits, Early, Unstarted, Linked, Finished, callVars, objVars,
     outVars, ctxVars
<1>20. CASE TimerFires(c)
  BY <1>20 DEF TimerFires, LifeOK, CopyOK, ResultOK, RunOver, Whole, TypeOK,
     Stages, Exits, Early, Unstarted, Linked, Finished, callVars, objVars,
     outVars, ctxVars
<1>21. CASE Cancel(c)
  BY <1>21 DEF Cancel, LifeOK, CopyOK, ResultOK, RunOver, Whole, TypeOK,
     Stages, Exits, Early, Unstarted, Linked, Finished, callVars, objVars,
     outVars, ctxVars
<1>22. CASE LinkBreaks(c)
  BY <1>22 DEF LinkBreaks, LifeOK, CopyOK, ResultOK, RunOver, Whole, TypeOK,
     Stages, Exits, Early, Unstarted, Linked, Finished, callVars, objVars,
     outVars, ctxVars
<1> QED
  BY <1>1, <1>2, <1>3, <1>4, <1>5, <1>6, <1>7, <1>8, <1>9, <1>10, <1>11,
     <1>12, <1>13, <1>14, <1>15, <1>16, <1>17, <1>18, <1>19, <1>20, <1>21, <1>22
     DEF Acts, CallStep, DockerStep, K8sStep, Environment

-----------------------------------------------------------------------------
\* The calls that do not act keep the invariant.
LEMMA OthersKeep ==
  ASSUME TypeOK, NEW c \in Calls, Acts(c), NEW d \in Calls \ {c}, CallInv(d)
  PROVE  CallInv(d)'
<1>1. backend' = backend /\ (policy => policy') /\ Same(d)
  BY FrameStep
<1> QED
  BY <1>1 DEF Same, CallInv, LifeOK, LeftOK, IsolatedOK, CopyOK, Whole,
     ResultOK, QuietOK, RunOver

\* The invariant holds before any call has begun.
LEMMA InitInv == Init => SafeInv
<1> SUFFICES ASSUME Init PROVE SafeInv
  OBVIOUS
<1> USE OneShotAssumption DEF Init
<1>1. TypeOK
  <2>1. policy \in BOOLEAN
    OBVIOUS
  <2>2. \A c \in Calls : res[c] \in Results
    BY DEF Exits, Results
  <2> QED
    BY <2>1, <2>2 DEF TypeOK, Stages, Exits, Results
<1>2. ASSUME NEW c \in Calls PROVE CallInv(c)
  BY DEF CallInv, LifeOK, LeftOK, IsolatedOK, CopyOK, ResultOK, QuietOK, Early,
     Unstarted, Linked, Finished
<1> QED
  BY <1>1, <1>2 DEF SafeInv

\* Every step of every call keeps it.
LEMMA InvStep == SafeInv /\ [Next]_vars => SafeInv'
<1> SUFFICES ASSUME SafeInv, [Next]_vars PROVE SafeInv'
  OBVIOUS
<1>1. ASSUME NEW c \in Calls, Acts(c) PROVE SafeInv'
  <2>1. TypeOK /\ CallInv(c)
    BY DEF SafeInv
  <2>2. TypeOK'
    BY <1>1, <2>1, TypeStep DEF CallInv
  <2>3. CallInv(c)'
    BY <1>1, <2>1, LifeStep, LeftStep, IsolatedStep, CopyStepKeeps, ResultStep,
       QuietStep DEF CallInv
  <2>4. \A d \in Calls \ {c} : CallInv(d)'
    BY <1>1, OthersKeep DEF SafeInv
  <2> QED
    BY <2>2, <2>3, <2>4 DEF SafeInv
<1>2. CASE UNCHANGED vars
  BY <1>2 DEF vars, callVars, objVars, outVars, ctxVars, SafeInv, TypeOK,
     CallInv, LifeOK, LeftOK, IsolatedOK, CopyOK, Whole, ResultOK, QuietOK,
     RunOver
<1> QED
  BY <1>1, <1>2 DEF Next, Acts

(***************************************************************************)
(* The inductive invariant holds in every state of every behaviour.        *)
(***************************************************************************)
THEOREM SafeInvariant == Spec => []SafeInv
  BY InitInv, InvStep, PTL DEF Spec

(***************************************************************************)
(* The variables of Backend.Run's model keep their types.                  *)
(***************************************************************************)
THEOREM TypeCorrect == Spec => []TypeOK
<1>1. SafeInv => TypeOK
  BY DEF SafeInv
<1> QED
  BY <1>1, SafeInvariant, PTL

(***************************************************************************)
(* "Guaranteed cleanup on every exit path" (README.MD:57): a call that has *)
(* returned left nothing, unless a create request was carried out behind   *)
(* an error or the removal itself failed.                                  *)
(***************************************************************************)
THEOREM NothingLeft ==
  ASSUME Faults \cap {"lost", "remove"} = {}
  PROVE  Spec => []CleanedUp
<1>1. SafeInv => CleanedUp
  BY DEF SafeInv, CallInv, LeftOK, Honest, CleanedUp, Returned
<1> QED
  BY <1>1, SafeInvariant, PTL

(***************************************************************************)
(* No pod of either backend's calls is there before the namespace's policy *)
(* (k8sapi.go:134), whichever call creates it and whichever fails.         *)
(***************************************************************************)
THEOREM IsolatedAlways == Spec => []Isolated
<1>1. SafeInv => Isolated
  BY DEF SafeInv, CallInv, IsolatedOK, Isolated
<1> QED
  BY <1>1, SafeInvariant, PTL

(***************************************************************************)
(* A Result without error has the exit code of a command that ended by     *)
(* itself; timed_out and oom_killed are never without cause                *)
(* (sandbox.go:117-143).                                                   *)
(***************************************************************************)
THEOREM ResultAlwaysTrue == Spec => []ResultTrue
<1>1. SafeInv => ResultTrue
  <2> SUFFICES ASSUME SafeInv, NEW c \in Calls, Returned(c)
               PROVE  /\ ~res[c].err => cmd[c] = res[c].code
                      /\ res[c].timedOut => res[c].err /\ RunOver(c)
                      /\ res[c].oom => cmd[c] = "137"
    BY DEF ResultTrue
  <2> QED
    BY DEF SafeInv, CallInv, ResultOK, Finished, Returned
<1> QED
  BY <1>1, SafeInvariant, PTL

(***************************************************************************)
(* A call that succeeds has handed over all of the command's output        *)
(* (sandbox.go:155), always on k8s, and on docker unless its copier was    *)
(* late by two seconds or failed (dockerapi.go:146-148).                   *)
(***************************************************************************)
THEOREM OutputAlwaysWhole == Spec => []OutputWhole
<1>1. SafeInv => OutputWhole
  BY DEF SafeInv, CallInv, ResultOK, Whole, Finished, OutputWhole, Returned
<1> QED
  BY <1>1, SafeInvariant, PTL

(***************************************************************************)
(* After its call has returned no copier writes to the caller's buffers    *)
(* (syncwriter.go:14), on k8s whatever the call returned, on docker when   *)
(* it has waited for its copier.                                           *)
(***************************************************************************)
THEOREM AlwaysQuiet == Spec => QuietAfterReturn
<1>1. SafeInv /\ [Next]_vars =>
        [\A c \in Calls :
           Returned(c) /\ (backend = "k8s" \/ (~res[c].err /\ cut[c] # "late"))
             => got'[c] = got[c]]_vars
  <2> SUFFICES ASSUME SafeInv, Next, NEW d \in Calls, Returned(d),
                      backend = "k8s" \/ (~res[d].err /\ cut[d] # "late")
               PROVE  got'[d] = got[d]
    OBVIOUS
  <2>1. PICK c \in Calls : Acts(c)
    BY DEF Next, Acts
  <2>2. CASE d # c
    BY <2>1, <2>2, FrameStep DEF SafeInv, Same
  <2>3. CASE d = c /\ CopyStep(c)
    BY <2>3 DEF CopyStep, Read, Write, CopyEnds, Dropped, SafeInv, CallInv,
       TypeOK, ResultOK, QuietOK, Whole, Finished, Returned
  <2>4. CASE d = c /\ ~CopyStep(c)
    BY <2>1, <2>4 DEF Acts, CallStep, DockerStep, K8sStep, Environment, Begin,
       Create, Cleanup, Verify, Attach, Start, Wait, Drain, InspectOOM,
       EnsurePolicy, WaitPodRunning, NetWait, Exec, Stream, Produce, Exit,
       PodStarts, PodDies, LinkBreaks, TimerFires, Cancel, outVars
  <2> QED
    BY <2>2, <2>3, <2>4
<1> QED
  BY <1>1, SafeInvariant, PTL DEF Spec, QuietAfterReturn
=============================================================================
