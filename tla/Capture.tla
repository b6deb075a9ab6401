------------------------------- MODULE Capture -------------------------------
(***************************************************************************)
(* pkg/sandbox/poolk8s.go: the files of a holder pod from one run to the   *)
(* next.  The wrapper shell of a run sends its command's output to capture *)
(* files, replays them when the command has ended, removes them and exits; *)
(* cleanup kills orphans and clears /work and /tmp.                        *)
(*                                                                         *)
(* Module Holder has the processes and the result of a run; here a run has *)
(* one command and one process that the command may leave in the           *)
(* background, and the files are what counts.  /tmp/.o and /tmp/.e are     *)
(* opened, read and removed together: they are one name, and what it       *)
(* stands for is known by the run that created it.  A file that has lost   *)
(* its name lives on for whoever has it open.                              *)
(*                                                                         *)
(* An operator marked "mutant" is no part of the model: it is the bug that *)
(* replaces the operator after it when a property is tested.               *)
(***************************************************************************)
EXTENDS Naturals

CONSTANTS Last,   \* bound: the number of runs in the pod
          Faults  \* "lost": a run returns an error while its wrapper goes on
                  \* (its timeout, its caller, its connection); "api": the
                  \* request of cleanup fails; "slow": its script takes longer
                  \* than ten seconds; "storm": orphans fork under the kills

ASSUME CaptureAssumption ==
  Last \in Nat /\ Faults \subseteq {"lost", "api", "slow", "storm"}

RunNrs == 1..Last

VARIABLES
  n, pc, res,   \* number of the run, where the pool is, the runs' results
  wrap,         \* the wrapper shells
  cmd, bg,      \* the commands and what they left in the background
  name, out,    \* the file called /tmp/.o (0: none), each run's open file
  text, wrote,  \* which runs' output a file has, which commands had output
  replay,       \* whose output a wrapper has replayed
  scratch,      \* the file a command left in /work
  script, scan, \* cleanup's scripts and the runs whose processes they go to
  cut           \* the cleanups that ended before their scripts

runVars   == <<n, pc, res>>
procVars  == <<wrap, cmd, bg>>
fileVars  == <<name, out, text, wrote, replay, scratch>>
cleanVars == <<script, scan, cut>>
vars      == <<runVars, procVars, fileVars, cleanVars>>

TypeOK ==
  /\ n \in 0..Last /\ pc \in {"idle", "stream", "cleanup", "reap"}
  /\ res \in [RunNrs -> {"none", "ok", "error"}]
  /\ wrap \in [RunNrs -> {"off", "open", "wait", "rm", "exited"}]
  /\ cmd \in [RunNrs -> {"off", "alive", "gone"}]
  /\ bg \in [RunNrs -> {"off", "child", "orphan", "gone"}]
  /\ name \in 0..Last /\ out \in [RunNrs -> 0..Last]
  /\ text \in [RunNrs -> SUBSET RunNrs] /\ wrote \subseteq RunNrs
  /\ replay \in [RunNrs -> SUBSET RunNrs]
  /\ scratch \in [RunNrs -> {"none", "there", "lost"}]
  /\ script \in [RunNrs -> {"off", "kill", "rm"}]
  /\ scan \in [RunNrs -> SUBSET RunNrs] /\ cut \subseteq RunNrs

Init ==
  /\ n = 0 /\ pc = "idle" /\ res = [r \in RunNrs |-> "none"]
  /\ wrap = [r \in RunNrs |-> "off"] /\ cmd = [r \in RunNrs |-> "off"]
  /\ bg = [r \in RunNrs |-> "off"]
  /\ name = 0 /\ out = [r \in RunNrs |-> 0] /\ text = [r \in RunNrs |-> {}]
  /\ wrote = {} /\ replay = [r \in RunNrs |-> {}]
  /\ scratch = [r \in RunNrs |-> "none"]
  /\ script = [r \in RunNrs |-> "off"] /\ scan = [r \in RunNrs |-> {}]
  /\ cut = {}

-----------------------------------------------------------------------------
\* run, on the pool's side.

Run ==
  /\ pc = "idle" /\ n < Last
  /\ n' = n + 1 /\ pc' = "stream" /\ wrap' = [wrap EXCEPT ![n + 1] = "open"]
  /\ UNCHANGED <<res, cmd, bg, fileVars, cleanVars>>

Return(r) == pc' = "cleanup" /\ res' = [res EXCEPT ![n] = r]

\* StreamWithContext ends with the wrapper.
Streamed ==
  /\ pc = "stream" /\ wrap[n] = "exited" /\ Return("ok")
  /\ UNCHANGED <<n, procVars, fileVars, cleanVars>>

\* It ends before the wrapper, which stays: nobody signals it.  (A wrapper
\* that has not been started yet may start later or never.)
Lost ==
  /\ "lost" \in Faults /\ pc = "stream" /\ Return("error")
  /\ UNCHANGED <<n, procVars, fileVars, cleanVars>>

-----------------------------------------------------------------------------
\* The wrapper: sh -c '"$@" >/tmp/.o 2>/tmp/.e; ec=$?; cat ...; rm ...'.

\* The redirection makes a file, or empties the one of that name; the command
\* starts with it.
Opened(r) == IF name = 0 THEN r ELSE name

Redirect(r) ==
  /\ wrap[r] = "open" /\ wrap' = [wrap EXCEPT ![r] = "wait"]
  /\ name' = Opened(r) /\ out' = [out EXCEPT ![r] = Opened(r)]
  /\ text' = [text EXCEPT ![Opened(r)] = {}]
  /\ cmd' = [cmd EXCEPT ![r] = "alive"]
  /\ UNCHANGED <<runVars, bg, wrote, replay, scratch, cleanVars>>

\* The command has ended: cat what has the name now, which may be nothing.
AtOnce(r) == TRUE                     \* mutant: the shell does not wait
Ended(r) == cmd[r] = "gone"

Replay(r) ==
  /\ wrap[r] = "wait" /\ Ended(r) /\ wrap' = [wrap EXCEPT ![r] = "rm"]
  /\ replay' = [replay EXCEPT ![r] = IF name = 0 THEN {} ELSE text[name]]
  /\ UNCHANGED <<runVars, cmd, bg, name, out, text, wrote, scratch, cleanVars>>

\* rm -f of the name, whoever's file it is.
NameKept == name                      \* mutant: no rm
NameRemoved == 0

Remove(r) ==
  /\ wrap[r] = "rm" /\ wrap' = [wrap EXCEPT ![r] = "exited"]
  /\ name' = NameRemoved
  /\ UNCHANGED <<runVars, cmd, bg, out, text, wrote, replay, scratch, cleanVars>>

WrapperStep(r) == Redirect(r) \/ Replay(r) \/ Remove(r)

-----------------------------------------------------------------------------
\* The workload: it writes to the file it was started with, forks, leaves a
\* file in /work and ends.  Its children keep the file open.

Writes(r) == text' = [text EXCEPT ![out[r]] = @ \cup {r}]

CommandWrites(r) ==
  /\ cmd[r] = "alive" /\ Writes(r) /\ wrote' = wrote \cup {r}
  /\ UNCHANGED <<runVars, procVars, name, out, replay, scratch, cleanVars>>

ChildWrites(r) ==
  /\ bg[r] \in {"child", "orphan"} /\ Writes(r)
  /\ UNCHANGED <<runVars, procVars, name, out, wrote, replay, scratch, cleanVars>>

LeaveFile(r) ==
  /\ cmd[r] = "alive" /\ scratch[r] = "none"
  /\ scratch' = [scratch EXCEPT ![r] = "there"]
  /\ UNCHANGED <<runVars, procVars, name, out, text, wrote, replay, cleanVars>>

Fork(r) ==
  /\ cmd[r] = "alive" /\ bg[r] = "off" /\ bg' = [bg EXCEPT ![r] = "child"]
  /\ UNCHANGED <<runVars, wrap, cmd, fileVars, cleanVars>>

\* What the command leaves behind goes to PID 1.
CommandEnds(r) ==
  /\ cmd[r] = "alive" /\ cmd' = [cmd EXCEPT ![r] = "gone"]
  /\ bg' = IF bg[r] = "child" THEN [bg EXCEPT ![r] = "orphan"] ELSE bg
  /\ UNCHANGED <<runVars, wrap, fileVars, cleanVars>>

ChildEnds(r) ==
  /\ bg[r] \in {"child", "orphan"} /\ bg' = [bg EXCEPT ![r] = "gone"]
  /\ UNCHANGED <<runVars, wrap, cmd, fileVars, cleanVars>>

Workload(r) ==
  \/ CommandWrites(r) \/ ChildWrites(r) \/ LeaveFile(r) \/ Fork(r)
  \/ CommandEnds(r) \/ ChildEnds(r)

-----------------------------------------------------------------------------
\* cleanup.  The commands and wrappers have other parents than PID 1.

Cleanup ==
  /\ pc = "cleanup"
  /\ \/ /\ pc' = "reap" /\ script' = [script EXCEPT ![n] = "kill"]
        /\ scan' = [scan EXCEPT ![n] = {r \in RunNrs : bg[r] \in {"child", "orphan"}}]
     \/ "api" \in Faults /\ pc' = "idle" /\ UNCHANGED <<script, scan>>
  /\ UNCHANGED <<n, res, procVars, fileVars, cut>>

\* The loop over /proc, whose list was made when it began.
Visit(k, r) ==
  /\ script[k] = "kill" /\ r \in scan[k]
  /\ scan' = [scan EXCEPT ![k] = @ \ {r}]
  /\ \/ bg[r] = "orphan" /\ bg' = [bg EXCEPT ![r] = "gone"]
     \/ (bg[r] # "orphan" \/ "storm" \in Faults) /\ UNCHANGED bg
  /\ UNCHANGED <<runVars, wrap, cmd, fileVars, script, cut>>

Visited(k) ==
  /\ script[k] = "kill" /\ scan[k] = {} /\ script' = [script EXCEPT ![k] = "rm"]
  /\ UNCHANGED <<runVars, procVars, fileVars, scan, cut>>

\* rm -rf /work/* /tmp/*: not /tmp/.o, which has a leading dot.
ClearScratch(k) ==
  /\ script[k] = "rm" /\ script' = [script EXCEPT ![k] = "off"]
  /\ scratch' = [r \in RunNrs |-> IF scratch[r] = "there" THEN "lost"
                                  ELSE scratch[r]]
  /\ UNCHANGED <<runVars, procVars, name, out, text, wrote, replay, scan, cut>>

ScriptStep(k) == (\E r \in RunNrs : Visit(k, r)) \/ Visited(k) \/ ClearScratch(k)

NotAwaited == TRUE                    \* mutant: cleanup does not wait
ScriptOver == script[n] = "off"

\* cleanup returns with its script, or after ten seconds; nobody ends the
\* script then.  checkHolder has nothing against either.
Reaped ==
  /\ pc = "reap" /\ ScriptOver /\ pc' = "idle"
  /\ UNCHANGED <<n, res, procVars, fileVars, cleanVars>>

TenSeconds ==
  /\ "slow" \in Faults /\ pc = "reap" /\ script[n] # "off" /\ pc' = "idle"
  /\ cut' = cut \cup {n}
  /\ UNCHANGED <<n, res, procVars, fileVars, script, scan>>

Next ==
  \/ Run \/ Streamed \/ Lost \/ Cleanup \/ Reaped \/ TenSeconds
  \/ \E r \in RunNrs : WrapperStep(r) \/ Workload(r) \/ ScriptStep(r)

Spec == Init /\ [][Next]_vars

-----------------------------------------------------------------------------
\* Run r has returned without an error with what its command wrote, and
\* nothing else.
OwnOutput(r) ==
  res[r] = "ok" => replay[r] \subseteq {r} /\ (r \in wrote => r \in replay[r])

(***************************************************************************)
(* "replay the captures once the foreground command exits"                 *)
(* (poolk8s.go:175): as long as every run before it ended by itself, a run *)
(* gets its own output, whole and unmixed, whatever earlier runs left in   *)
(* the background, whether or not cleanup killed it, and however long its  *)
(* scripts take.                                                           *)
(***************************************************************************)
OutputOwn ==
  \A r \in RunNrs : (\A k \in 1..(r - 1) : res[k] = "ok") => OwnOutput(r)

(***************************************************************************)
(* The files a run works with do not disappear under it, unless a cleanup  *)
(* before it was cut off after its ten seconds ("clears scratch between    *)
(* its own runs", pool.go:67).                                             *)
(***************************************************************************)
ScratchKept ==
  [][\A r \in RunNrs :
       pc = "stream" /\ n = r /\ scratch[r] = "there" /\ scratch'[r] = "lost" =>
         \E k \in cut : k < r]_vars

(***************************************************************************)
(* "timed out after %s (workload reaped)" (poolk8s.go:191): after a run    *)
(* that timed out the next one is not affected either.                     *)
(***************************************************************************)
OutputAlwaysOwn == \A r \in RunNrs : OwnOutput(r)
=============================================================================
