---------------------------- MODULE CaptureProofs -----------------------------
(***************************************************************************)
(* Proof that a run on a k8s holder returns its own output, for any number *)
(* of runs and any faults, as long as the runs before it ended by          *)
(* themselves.                                                             *)
(*                                                                         *)
(* OutputOwn is not inductive.  FileInv adds what makes it true: the       *)
(* wrappers of such runs have exited and have removed the capture file, so *)
(* that the next run creates one of its own, which nobody else has open.   *)
(*                                                                         *)
(* ScratchKept needs to know which scripts of cleanup may still be at work *)
(* while a command is: ScriptInv.                                          *)
(***************************************************************************)
EXTENDS Capture, TLAPS

\* Runs come in order: nothing has happened in a run that has not begun, and
\* only the last one has no result yet.
InOrder ==
  /\ n = 0 => name = 0 /\ pc = "idle"
  /\ name <= n
  /\ \A r \in RunNrs :
       /\ out[r] <= n
       /\ r <= n => wrap[r] # "off" /\ (res[r] = "none" => r = n /\ pc = "stream")
       /\ r > n => /\ wrap[r] = "off" /\ res[r] = "none" /\ text[r] = {}

\* What the stage of a wrapper says of its command.
Staged ==
  \A r \in RunNrs :
    /\ res[r] = "ok" => wrap[r] = "exited"
    /\ wrap[r] \in {"off", "open"} => cmd[r] = "off"
    /\ wrap[r] \in {"rm", "exited"} => cmd[r] = "gone"
    /\ cmd[r] = "off" => bg[r] = "off" /\ r \notin wrote

\* Every run before the last has ended by itself.
Sound == \A k \in RunNrs : k < n => res[k] = "ok"

\* Then the last run's capture file is its own.
FilesOwn ==
  Sound /\ n # 0 =>
    /\ \A k \in RunNrs : k < n => out[k] # n
    /\ wrap[n] \in {"wait", "rm"} => name = n /\ out[n] = n
    /\ wrap[n] \in {"open", "exited"} => name = 0
    /\ text[n] \subseteq {n} /\ (n \in wrote => n \in text[n])
    /\ wrap[n] \in {"rm", "exited"} =>
         replay[n] \subseteq {n} /\ (n \in wrote => n \in replay[n])

\* The inductive invariant.
FileInv == TypeOK /\ InOrder /\ Staged /\ FilesOwn /\ OutputOwn

USE CaptureAssumption

\* Numbers of runs are numbers, and those of the runs begun are runs.
LEMMA Numbers ==
  ASSUME TypeOK
  PROVE  /\ n \in Nat /\ Last \in Nat /\ n <= Last /\ name \in Nat
         /\ \A r \in RunNrs : r \in Nat /\ r >= 1 /\ r # 0 /\ out[r] \in Nat
         /\ n # 0 => n \in RunNrs
         /\ name # 0 => name \in RunNrs
         /\ \A r \in RunNrs : out[r] # 0 => out[r] \in RunNrs
BY DEF TypeOK, RunNrs

\* Every step keeps the types.
LEMMA TypeStep == TypeOK /\ InOrder /\ [Next]_vars => TypeOK'
<1> SUFFICES ASSUME TypeOK, InOrder, [Next]_vars PROVE TypeOK'
  OBVIOUS
<1> USE DEF TypeOK, runVars, procVars, fileVars, cleanVars
<1>1. CASE Run
  BY <1>1, Numbers DEF Run, RunNrs
<1>2. CASE Streamed \/ Lost \/ Cleanup \/ Reaped \/ TenSeconds
  <2>1. pc # "idle" /\ n' = n
    BY <1>2 DEF Streamed, Lost, Cleanup, Reaped, TenSeconds
  <2>2. CASE Streamed \/ Lost
    BY <2>2 DEF Streamed, Lost, Return
  <2>3. CASE Cleanup
    BY <2>3 DEF Cleanup
  <2>4. CASE Reaped
    BY <2>4 DEF Reaped
  <2>5. CASE TenSeconds
    <3>1. n \in RunNrs
      BY <2>1, Numbers DEF InOrder
    <3> QED BY <2>5, <3>1 DEF TenSeconds, RunNrs
  <2> QED BY <1>2, <2>2, <2>3, <2>4, <2>5
<1>3. ASSUME NEW r \in RunNrs, WrapperStep(r) PROVE TypeOK'
  <2>1. name # 0 => name \in RunNrs
    BY Numbers
  <2>2. CASE Redirect(r)
    BY <2>1, <2>2 DEF Redirect, Opened, RunNrs
  <2>3. CASE Replay(r)
    BY <2>1, <2>3 DEF Replay
  <2>4. CASE Remove(r)
    BY <2>4 DEF Remove, NameRemoved
  <2> QED BY <1>3, <2>2, <2>3, <2>4 DEF WrapperStep
<1>4. ASSUME NEW r \in RunNrs, Workload(r) PROVE TypeOK'
  <2>1. CASE CommandWrites(r) \/ ChildWrites(r)
    BY <2>1 DEF CommandWrites, ChildWrites, Writes
  <2>2. CASE LeaveFile(r)
    BY <2>2 DEF LeaveFile
  <2>3. CASE Fork(r) \/ CommandEnds(r) \/ ChildEnds(r)
    BY <2>3 DEF Fork, CommandEnds, ChildEnds
  <2> QED BY <1>4, <2>1, <2>2, <2>3 DEF Workload
<1>5. ASSUME NEW k \in RunNrs, ScriptStep(k) PROVE TypeOK'
  <2>1. ASSUME NEW r \in RunNrs, Visit(k, r) PROVE TypeOK'
    BY <2>1 DEF Visit
  <2>2. CASE Visited(k)
    BY <2>2 DEF Visited
  <2>3. CASE ClearScratch(k)
    BY <2>3 DEF ClearScratch
  <2> QED BY <1>5, <2>1, <2>2, <2>3 DEF ScriptStep
<1>6. CASE UNCHANGED vars
  BY <1>6 DEF vars
<1> QED BY <1>1, <1>2, <1>3, <1>4, <1>5, <1>6 DEF Next

\* Which steps concern only processes, results, scripts and scratch files.
LEMMA InOrderStep ==
  ASSUME TypeOK, InOrder, [Next]_vars PROVE InOrder'
<1> USE DEF InOrder, runVars, procVars, fileVars, cleanVars
<1>a. /\ n \in Nat /\ name \in Nat /\ \A r \in RunNrs : r \in Nat /\ r >= 1 /\ out[r] \in Nat
      /\ n # 0 => n \in RunNrs
  BY Numbers
<1>b. /\ wrap \in [RunNrs -> {"off", "open", "wait", "rm", "exited"}]
      /\ res \in [RunNrs -> {"none", "ok", "error"}]
      /\ text \in [RunNrs -> SUBSET RunNrs] /\ out \in [RunNrs -> 0..Last]
  BY DEF TypeOK
<1>1. CASE Run
  <2>1. /\ pc = "idle" /\ n' = n + 1 /\ pc' = "stream" /\ wrap' = [wrap EXCEPT ![n + 1] = "open"]
        /\ UNCHANGED <<res, name, out, text>>
    BY <1>1 DEF Run
  <2>2. n' # 0 /\ name' <= n' /\ \A r \in RunNrs : r <= n' => r <= n \/ r = n'
    BY <1>a, <2>1
  <2>3. ASSUME NEW r \in RunNrs
        PROVE  /\ out'[r] <= n'
               /\ r <= n' => wrap'[r] # "off" /\ (res'[r] = "none" => r = n' /\ pc' = "stream")
               /\ r > n' => wrap'[r] = "off" /\ res'[r] = "none" /\ text'[r] = {}
    <3>1. CASE r <= n
      <4>1. out'[r] <= n' /\ wrap[r] # "off" /\ res[r] # "none" /\ ~(r > n') /\ wrap'[r] = wrap[r]
        BY <1>a, <1>b, <2>1, <3>1
      <4> QED BY <2>1, <4>1
    <3>2. CASE r = n + 1
      <4>1. wrap'[r] = "open" /\ r = n' /\ ~(r > n') /\ out'[r] <= n'
        BY <1>a, <1>b, <2>1, <3>2
      <4> QED BY <2>1, <4>1
    <3>3. CASE r > n + 1
      <4>1. r > n /\ out'[r] <= n' /\ ~(r <= n') /\ wrap'[r] = wrap[r]
        BY <1>a, <1>b, <2>1, <3>3
      <4> QED BY <2>1, <4>1
    <3> QED BY <1>a, <3>1, <3>2, <3>3
  <2> QED BY <2>2, <2>3
<1>2. CASE Streamed \/ Lost
  <2>1. n # 0 /\ n' = n /\ \E s \in {"ok", "error"} : res' = [res EXCEPT ![n] = s]
    BY <1>2 DEF Streamed, Lost, Return
  <2> QED BY <1>a, <1>b, <1>2, <2>1 DEF Streamed, Lost, Return
<1>3. CASE Cleanup \/ Reaped \/ TenSeconds
  BY <1>a, <1>3 DEF Cleanup, Reaped, TenSeconds
<1>4. ASSUME NEW r \in RunNrs, WrapperStep(r) PROVE InOrder'
  <2>1. UNCHANGED runVars /\ r <= n /\ n # 0
    BY <1>a, <1>4 DEF WrapperStep, Redirect, Replay, Remove
  <2>2. CASE Redirect(r)
    <3>1. PICK o \in 0..n : o = Opened(r)
      BY <1>a, <2>1 DEF Opened
    <3>2. /\ name' = o /\ out' = [out EXCEPT ![r] = o] /\ text' = [text EXCEPT ![o] = {}]
          /\ wrap' = [wrap EXCEPT ![r] = "wait"]
      BY <2>2, <3>1 DEF Redirect
    <3> QED BY <1>a, <1>b, <2>1, <3>1, <3>2
  <2>3. CASE Replay(r)
    BY <1>a, <1>b, <2>1, <2>3 DEF Replay
  <2>4. CASE Remove(r)
    BY <1>a, <1>b, <2>1, <2>4 DEF Remove, NameRemoved
  <2> QED BY <1>4, <2>2, <2>3, <2>4 DEF WrapperStep
<1>5. ASSUME NEW r \in RunNrs, Workload(r) PROVE InOrder'
  <2>1. CASE CommandWrites(r) \/ ChildWrites(r)
    <3>1. PICK o \in 0..n : o = out[r]
      BY <1>a
    <3>2. \A k \in RunNrs : k > n => text'[k] = text[k]
      BY <1>a, <1>b, <2>1, <3>1 DEF CommandWrites, ChildWrites, Writes
    <3> QED BY <1>a, <2>1, <3>2 DEF CommandWrites, ChildWrites
  <2>2. CASE LeaveFile(r) \/ Fork(r) \/ CommandEnds(r) \/ ChildEnds(r)
    BY <2>2 DEF LeaveFile, Fork, CommandEnds, ChildEnds
  <2> QED BY <1>5, <2>1, <2>2 DEF Workload
<1>6. ASSUME NEW k \in RunNrs, ScriptStep(k) PROVE InOrder'
  BY <1>6 DEF ScriptStep, Visit, Visited, ClearScratch
<1>7. CASE UNCHANGED vars
  BY <1>7 DEF vars
<1> QED BY <1>1, <1>2, <1>3, <1>4, <1>5, <1>6, <1>7 DEF Next

\* A command starts with its wrapper's redirection and has ended when the
\* wrapper replays its output.
LEMMA StagedStep ==
  ASSUME TypeOK, InOrder, Staged, [Next]_vars PROVE Staged'
<1> USE DEF Staged, runVars, procVars, fileVars, cleanVars
<1>a. /\ n \in Nat /\ \A r \in RunNrs : r \in Nat
      /\ wrap \in [RunNrs -> {"off", "open", "wait", "rm", "exited"}]
      /\ res \in [RunNrs -> {"none", "ok", "error"}]
      /\ cmd \in [RunNrs -> {"off", "alive", "gone"}]
      /\ bg \in [RunNrs -> {"off", "child", "orphan", "gone"}]
  BY Numbers DEF TypeOK
<1>1. CASE Run
  <2>1. \A r \in RunNrs : r = n + 1 => wrap[r] = "off" /\ res[r] = "none"
    BY <1>a DEF InOrder
  <2> QED BY <1>a, <1>1, <2>1 DEF Run
<1>2. CASE Streamed \/ Lost
  BY <1>a, <1>2 DEF Streamed, Lost, Return
<1>3. CASE Cleanup \/ Reaped \/ TenSeconds
  BY <1>3 DEF Cleanup, Reaped, TenSeconds
<1>4. ASSUME NEW r \in RunNrs, WrapperStep(r) PROVE Staged'
  <2>1. CASE Redirect(r)
    BY <1>a, <2>1 DEF Redirect
  <2>2. CASE Replay(r) \/ Remove(r)
    BY <1>a, <2>2 DEF Replay, Remove, Ended
  <2> QED BY <1>4, <2>1, <2>2 DEF WrapperStep
<1>5. ASSUME NEW r \in RunNrs, Workload(r) PROVE Staged'
  <2>1. CASE CommandWrites(r) \/ ChildWrites(r) \/ LeaveFile(r)
    BY <1>a, <2>1 DEF CommandWrites, ChildWrites, LeaveFile
  <2>2. CASE Fork(r) \/ CommandEnds(r) \/ ChildEnds(r)
    BY <1>a, <2>2 DEF Fork, CommandEnds, ChildEnds
  <2> QED BY <1>5, <2>1, <2>2 DEF Workload
<1>6. ASSUME NEW k \in RunNrs, ScriptStep(k) PROVE Staged'
  BY <1>a, <1>6 DEF ScriptStep, Visit, Visited, ClearScratch
<1>7. CASE UNCHANGED vars
  BY <1>7 DEF vars
<1> QED BY <1>1, <1>2, <1>3, <1>4, <1>5, <1>6, <1>7 DEF Next

\* The wrappers of runs that ended by themselves have exited.
LEMMA EarlierDone ==
  ASSUME TypeOK, InOrder, Staged, Sound
  PROVE  \A r \in RunNrs : wrap[r] \notin {"off", "exited"} \/ cmd[r] = "alive" => r = n
<1>1. ASSUME NEW r \in RunNrs, r < n PROVE wrap[r] = "exited" /\ cmd[r] = "gone"
  BY <1>1 DEF Sound, Staged
<1>2. ASSUME NEW r \in RunNrs, r > n PROVE wrap[r] = "off" /\ cmd[r] = "off"
  BY <1>2 DEF InOrder, Staged
<1>3. \A r \in RunNrs : r < n \/ r > n \/ r = n
  BY Numbers
<1> QED BY <1>1, <1>2, <1>3

\* The last run's file stays its own, and the next run finds no file.
LEMMA FilesOwnStep ==
  ASSUME TypeOK, InOrder, Staged, FilesOwn, [Next]_vars PROVE FilesOwn'
<1> USE DEF runVars, procVars, fileVars, cleanVars
<1>a. /\ n \in Nat /\ \A r \in RunNrs : r \in Nat
      /\ n # 0 => n \in RunNrs
      /\ wrap \in [RunNrs -> {"off", "open", "wait", "rm", "exited"}]
      /\ res \in [RunNrs -> {"none", "ok", "error"}]
      /\ text \in [RunNrs -> SUBSET RunNrs] /\ out \in [RunNrs -> 0..Last]
      /\ replay \in [RunNrs -> SUBSET RunNrs]
  BY Numbers DEF TypeOK
<1>1. CASE Run
  <2> SUFFICES ASSUME Sound' PROVE
        /\ \A k \in RunNrs : k < n' => out'[k] # n'
        /\ wrap'[n'] \in {"wait", "rm"} => name' = n' /\ out'[n'] = n'
        /\ wrap'[n'] \in {"open", "exited"} => name' = 0
        /\ text'[n'] \subseteq {n'} /\ (n' \in wrote' => n' \in text'[n'])
        /\ wrap'[n'] \in {"rm", "exited"} =>
             replay'[n'] \subseteq {n'} /\ (n' \in wrote' => n' \in replay'[n'])
    BY DEF FilesOwn
  <2>1. /\ n' = n + 1 /\ wrap' = [wrap EXCEPT ![n + 1] = "open"]
        /\ UNCHANGED <<res, name, out, text, wrote, replay>> /\ n + 1 \in RunNrs
    BY <1>a, <1>1, Numbers DEF Run, RunNrs
  <2>2. \A k \in RunNrs : k <= n => res[k] = "ok"
    BY <1>a, <2>1 DEF Sound
  <2>3. name = 0
    <3>1. CASE n = 0
      BY <3>1 DEF InOrder
    <3>2. CASE n # 0
      <4>1. Sound /\ wrap[n] = "exited"
        BY <1>a, <2>2, <3>2 DEF Sound, Staged
      <4> QED BY <3>2, <4>1 DEF FilesOwn
    <3> QED BY <3>1, <3>2
  <2>4. /\ text[n + 1] = {} /\ n + 1 \notin wrote
        /\ \A k \in RunNrs : out[k] <= n /\ out[k] # n + 1
    <3>1. n + 1 > n
      BY <1>a
    <3>2. wrap[n + 1] = "off" /\ text[n + 1] = {}
      BY <2>1, <3>1 DEF InOrder
    <3>3. \A k \in RunNrs : out[k] <= n /\ out[k] \in Nat
      BY Numbers DEF InOrder
    <3> QED BY <1>a, <2>1, <3>2, <3>3 DEF Staged
  <2>5. wrap'[n'] = "open"
    BY <1>a, <2>1
  <2> QED BY <2>1, <2>3, <2>4, <2>5
<1>2. CASE Streamed \/ Lost
  <2>1. n # 0 /\ n' = n /\ \A k \in RunNrs : k < n => res'[k] = res[k]
    BY <1>a, <1>2 DEF Streamed, Lost, Return, InOrder
  <2>2. Sound' => Sound
    BY <2>1 DEF Sound
  <2> QED BY <1>2, <2>2 DEF FilesOwn, Streamed, Lost
<1>3. CASE Cleanup \/ Reaped \/ TenSeconds
  BY <1>3 DEF FilesOwn, Sound, Cleanup, Reaped, TenSeconds
<1>4. ASSUME NEW r \in RunNrs, WrapperStep(r) PROVE FilesOwn'
  <2> SUFFICES ASSUME Sound, n # 0 PROVE FilesOwn'
    BY <1>4 DEF FilesOwn, Sound, WrapperStep, Redirect, Replay, Remove
  <2>1. UNCHANGED runVars /\ r = n /\ n \in RunNrs
    BY <1>a, <1>4, EarlierDone DEF WrapperStep, Redirect, Replay, Remove
  <2>2. CASE Redirect(r)
    <3>1. Opened(r) = n /\ cmd[n] = "off"
      BY <2>1, <2>2 DEF Redirect, Opened, FilesOwn, Staged
    <3>2. n \notin wrote
      BY <2>1, <3>1 DEF Staged
    <3>3. /\ name' = n /\ out' = [out EXCEPT ![n] = n] /\ text' = [text EXCEPT ![n] = {}]
          /\ wrap' = [wrap EXCEPT ![n] = "wait"] /\ UNCHANGED <<wrote, replay>>
      BY <2>1, <2>2, <3>1 DEF Redirect
    <3> QED BY <1>a, <2>1, <3>2, <3>3 DEF FilesOwn
  <2>3. CASE Replay(r)
    <3>1. name = n /\ text[n] \subseteq {n} /\ (n \in wrote => n \in text[n])
      BY <2>1, <2>3 DEF Replay, FilesOwn
    <3> QED BY <1>a, <2>1, <2>3, <3>1 DEF Replay, FilesOwn
  <2>4. CASE Remove(r)
    BY <1>a, <2>1, <2>4 DEF Remove, NameRemoved, FilesOwn
  <2> QED BY <1>4, <2>2, <2>3, <2>4 DEF WrapperStep
<1>5. ASSUME NEW r \in RunNrs, Workload(r) PROVE FilesOwn'
  <2> SUFFICES ASSUME Sound, n # 0 PROVE FilesOwn'
    BY <1>5 DEF FilesOwn, Sound, Workload, CommandWrites, ChildWrites, LeaveFile, Fork,
                CommandEnds, ChildEnds
  <2>1. CASE CommandWrites(r) \/ ChildWrites(r)
    <3>1. UNCHANGED <<runVars, wrap, name, out, replay>>
          /\ text' = [text EXCEPT ![out[r]] = @ \cup {r}]
      BY <2>1 DEF CommandWrites, ChildWrites, Writes
    <3>2. r # n => out[r] # n
      <4>1. r < n => out[r] # n
        BY DEF FilesOwn
      <4>2. r > n => cmd[r] = "off" /\ bg[r] = "off"
        BY DEF InOrder, Staged
      <4> QED BY <1>a, <2>1, <4>1, <4>2 DEF CommandWrites, ChildWrites
    <3>3. text'[n] \subseteq {n} /\ text[n] \subseteq text'[n]
      BY <1>a, <3>1, <3>2 DEF FilesOwn
    <3>4. CASE CommandWrites(r)
      <4>1. r = n /\ wrap[n] = "wait" /\ wrote' = wrote \cup {n}
        <5>1. r = n /\ wrote' = wrote \cup {n} /\ cmd[n] = "alive"
          BY <3>4, EarlierDone DEF CommandWrites
        <5> QED BY <1>a, <5>1 DEF Staged, InOrder
      <4>2. out[n] = n /\ n \in text'[n]
        BY <1>a, <3>1, <4>1 DEF FilesOwn
      <4> QED BY <3>1, <3>3, <4>1, <4>2 DEF FilesOwn
    <3>5. CASE ChildWrites(r)
      BY <3>1, <3>3, <3>5 DEF FilesOwn, ChildWrites
    <3> QED BY <2>1, <3>4, <3>5
  <2>2. CASE LeaveFile(r) \/ Fork(r) \/ CommandEnds(r) \/ ChildEnds(r)
    BY <2>2 DEF FilesOwn, Sound, LeaveFile, Fork, CommandEnds, ChildEnds
  <2> QED BY <1>5, <2>1, <2>2 DEF Workload
<1>6. ASSUME NEW k \in RunNrs, ScriptStep(k) PROVE FilesOwn'
  BY <1>6 DEF FilesOwn, Sound, ScriptStep, Visit, Visited, ClearScratch
<1>7. CASE UNCHANGED vars
  BY <1>7 DEF vars, FilesOwn, Sound
<1> QED BY <1>1, <1>2, <1>3, <1>4, <1>5, <1>6, <1>7 DEF Next

\* A run that ends by itself returns what its wrapper has replayed; nothing
\* changes that later.
LEMMA OutputStep ==
  ASSUME TypeOK, InOrder, Staged, FilesOwn, OutputOwn, [Next]_vars PROVE OutputOwn'
<1> USE DEF runVars, procVars, fileVars, cleanVars
<1>a. /\ n \in Nat /\ \A r \in RunNrs : r \in Nat /\ r >= 1
      /\ res \in [RunNrs -> {"none", "ok", "error"}]
      /\ replay \in [RunNrs -> SUBSET RunNrs]
      /\ \A r \in RunNrs : 1..(r - 1) \subseteq RunNrs
  BY Numbers DEF TypeOK, RunNrs
<1>b. ASSUME NEW r \in RunNrs, res[r] = "ok"
      PROVE  replay'[r] = replay[r] /\ (r \in wrote' => r \in wrote)
  <2>1. wrap[r] = "exited" /\ cmd[r] = "gone"
    BY <1>b DEF Staged
  <2> QED BY <1>a, <2>1 DEF Next, Run, Streamed, Lost, Cleanup, Reaped, TenSeconds,
       WrapperStep, Redirect, Replay, Remove, Workload, CommandWrites, ChildWrites, LeaveFile,
       Fork, CommandEnds, ChildEnds, ScriptStep, Visit, Visited, ClearScratch, vars
<1>c. ASSUME NEW r \in RunNrs, res'[r] # res[r] PROVE r = n /\ (Lost \/ Streamed)
  BY <1>a, <1>c DEF Next, Run, Streamed, Lost, Return, Cleanup, Reaped, TenSeconds,
     WrapperStep, Redirect, Replay, Remove, Workload, CommandWrites, ChildWrites, LeaveFile,
     Fork, CommandEnds, ChildEnds, ScriptStep, Visit, Visited, ClearScratch, vars
<1> SUFFICES ASSUME NEW r \in RunNrs, \A k \in 1..(r - 1) : res'[k] = "ok", res'[r] = "ok"
             PROVE  replay'[r] \subseteq {r} /\ (r \in wrote' => r \in replay'[r])
  BY DEF OutputOwn, OwnOutput
<1>1. \A k \in 1..(r - 1) : k \in RunNrs /\ k # r /\ k < r
  BY <1>a
<1>2. CASE res[r] = "ok"
  <2>1. \A k \in 1..(r - 1) : res[k] = "ok"
    <3> SUFFICES ASSUME NEW k \in 1..(r - 1), res[k] # "ok" PROVE FALSE
      OBVIOUS
    <3>1. k = n /\ k < r /\ r \in Nat
      BY <1>1, <1>a, <1>c
    <3>2. res[r] = "none"
      BY <1>a, <3>1 DEF InOrder
    <3> QED BY <1>2, <3>2
  <2>2. OwnOutput(r)
    BY <2>1 DEF OutputOwn
  <2> QED BY <1>b, <1>2, <2>2 DEF OwnOutput
<1>3. CASE res[r] # "ok"
  <2>1. r = n /\ Streamed
    BY <1>a, <1>c, <1>3 DEF Lost, Return
  <2>2. \A k \in RunNrs : k < n => res[k] = "ok"
    <3> SUFFICES ASSUME NEW k \in RunNrs, k < n PROVE res[k] = "ok"
      OBVIOUS
    <3>1. k \in 1..(r - 1) /\ k # n
      BY <1>a, <2>1
    <3> QED BY <1>1, <1>c, <3>1
  <2>3. wrap[n] = "exited" /\ n # 0 /\ UNCHANGED <<replay, wrote>>
    BY <1>a, <2>1 DEF Streamed
  <2> QED BY <2>1, <2>2, <2>3 DEF FilesOwn, Sound
<1> QED BY <1>2, <1>3

\* The pod starts with no files.
LEMMA FileInit == Init => FileInv
<1> SUFFICES ASSUME Init PROVE FileInv
  OBVIOUS
<1>1. \A r \in RunNrs : r \in Nat /\ r >= 1
  BY DEF RunNrs
<1>2. TypeOK
  BY DEF Init, TypeOK, RunNrs
<1>3. InOrder
  BY <1>1 DEF Init, InOrder
<1> QED BY <1>2, <1>3 DEF Init, FileInv, Staged, FilesOwn, OutputOwn, OwnOutput

\* Every step keeps the invariant.
LEMMA FileStep == FileInv /\ [Next]_vars => FileInv'
BY TypeStep, InOrderStep, StagedStep, FilesOwnStep, OutputStep DEF FileInv

(***************************************************************************)
(* The inductive invariant holds in every reachable state of a pod.        *)
(***************************************************************************)
THEOREM FileInvariant == Spec => []FileInv
BY FileInit, FileStep, PTL DEF Spec

(***************************************************************************)
(* The model's variables keep their types, for any number of runs          *)
(* (poolk8s.go:166-221).                                                   *)
(***************************************************************************)
THEOREM TypeCorrect == Spec => []TypeOK
BY FileInvariant, PTL DEF FileInv

(***************************************************************************)
(* A run gets its own output, whole and unmixed, as long as every run      *)
(* before it ended by itself (poolk8s.go:171-182).                         *)
(***************************************************************************)
THEOREM OutputStaysOwn == Spec => []OutputOwn
BY FileInvariant, PTL DEF FileInv
-----------------------------------------------------------------------------
\* A script at work is that of the run the pool is cleaning up after, or it
\* was cut off; and the pool has gone on from a run that was cut off.
ScriptInv ==
  \A k \in RunNrs :
    /\ k > n => script[k] = "off"
    /\ script[k] # "off" => k \in cut \/ (k = n /\ pc = "reap")
    /\ k \in cut => k <= n /\ (k = n => pc = "idle")

\* Every step keeps it.
LEMMA ScriptStepKeeps ==
  ASSUME TypeOK, InOrder, ScriptInv, [Next]_vars PROVE ScriptInv'
<1> USE DEF ScriptInv, runVars, procVars, fileVars, cleanVars
<1>a. /\ n \in Nat /\ \A k \in RunNrs : k \in Nat
      /\ script \in [RunNrs -> {"off", "kill", "rm"}]
      /\ pc # "idle" => n \in RunNrs
  BY Numbers DEF TypeOK, InOrder
<1>1. CASE Run
  BY <1>a, <1>1 DEF Run
<1>2. CASE Streamed \/ Lost
  BY <1>a, <1>2 DEF Streamed, Lost, Return
<1>3. CASE Cleanup
  BY <1>a, <1>3 DEF Cleanup
<1>4. CASE Reaped
  BY <1>a, <1>4 DEF Reaped, ScriptOver
<1>5. CASE TenSeconds
  BY <1>a, <1>5 DEF TenSeconds
<1>6. ASSUME NEW r \in RunNrs, WrapperStep(r) \/ Workload(r) PROVE ScriptInv'
  BY <1>6 DEF WrapperStep, Redirect, Replay, Remove, Workload, CommandWrites, ChildWrites,
              LeaveFile, Fork, CommandEnds, ChildEnds
<1>7. ASSUME NEW k \in RunNrs, ScriptStep(k) PROVE ScriptInv'
  <2>1. UNCHANGED <<runVars, cut>>
    BY <1>7 DEF ScriptStep, Visit, Visited, ClearScratch
  <2>2. \A j \in RunNrs : script'[j] # "off" => script[j] # "off"
    BY <1>a, <1>7 DEF ScriptStep, Visit, Visited, ClearScratch
  <2> QED BY <2>1, <2>2
<1>8. CASE UNCHANGED vars
  BY <1>8 DEF vars
<1> QED BY <1>1, <1>2, <1>3, <1>4, <1>5, <1>6, <1>7, <1>8 DEF Next

\* Only a script of cleanup removes a file from /work.
LEMMA OnlyScriptsClear ==
  ASSUME TypeOK, [Next]_vars, NEW r \in RunNrs, scratch[r] = "there", scratch'[r] = "lost"
  PROVE  \E k \in RunNrs : script[k] = "rm"
<1> USE DEF runVars, procVars, fileVars, cleanVars
<1>1. ASSUME NEW k \in RunNrs, ScriptStep(k) PROVE script[k] = "rm"
  BY <1>1 DEF ScriptStep, Visit, Visited, ClearScratch
<1>2. ASSUME NEW k \in RunNrs, WrapperStep(k) \/ Workload(k) PROVE FALSE
  <2>1. scratch' = scratch \/ scratch' = [scratch EXCEPT ![k] = "there"]
    BY <1>2 DEF WrapperStep, Redirect, Replay, Remove, Workload, CommandWrites, ChildWrites,
                LeaveFile, Fork, CommandEnds, ChildEnds
  <2> QED BY <2>1 DEF TypeOK
<1>3. CASE Run \/ Streamed \/ Lost \/ Cleanup \/ Reaped \/ TenSeconds \/ UNCHANGED vars
  BY <1>3 DEF Run, Streamed, Lost, Cleanup, Reaped, TenSeconds, vars
<1> QED BY <1>1, <1>2, <1>3 DEF Next

\* A script that is at work during a run is an earlier run's, which was cut off.
LEMMA ScratchStep ==
  ASSUME TypeOK, ScriptInv, [Next]_vars, NEW r \in RunNrs,
         pc = "stream", n = r, scratch[r] = "there", scratch'[r] = "lost"
  PROVE  \E k \in cut : k < r
<1>1. PICK k \in RunNrs : script[k] = "rm"
  BY OnlyScriptsClear
<1>2. k \in cut /\ k <= n /\ k # n
  BY <1>1 DEF ScriptInv
<1>3. k < r
  BY <1>2, Numbers
<1> QED BY <1>2, <1>3

(***************************************************************************)
(* The file a command leaves in /work is there until the command's run is  *)
(* over, unless the cleanup of an earlier run was cut off after its ten    *)
(* seconds (poolk8s.go:199-221).                                           *)
(***************************************************************************)
THEOREM ScratchStaysKept == Spec => ScratchKept
<1>1. Init => ScriptInv
  BY DEF Init, ScriptInv
<1>2. FileInv /\ ScriptInv /\ [Next]_vars => ScriptInv'
  BY ScriptStepKeeps DEF FileInv
<1>3. FileInv /\ ScriptInv /\ [Next]_vars =>
        [\A r \in RunNrs :
           pc = "stream" /\ n = r /\ scratch[r] = "there" /\ scratch'[r] = "lost" =>
             \E k \in cut : k < r]_vars
  BY ScratchStep DEF FileInv
<1> QED BY <1>1, <1>2, <1>3, FileInvariant, PTL DEF Spec, ScratchKept
=============================================================================
