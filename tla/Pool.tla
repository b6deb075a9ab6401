-------------------------------- MODULE Pool --------------------------------
(***************************************************************************)
(* pkg/sandbox/pool.go: the autoscaling pool of warm holders.              *)
(*                                                                         *)
(* Runs are the goroutines inside Pool.Run, one call each at a time; next  *)
(* to them live the constructor NewPool, the idle reaper and Close.  A     *)
(* step is a maximal piece of code between two points where another        *)
(* goroutine can see or change shared state: p.mu sections, channel        *)
(* operations, holder-mutex operations and calls to the backend.           *)
(*                                                                         *)
(* p.idle is a Go channel of capacity cfg.Max: a sender hands its value to *)
(* the receiver that has been parked longest, and buffers only when no     *)
(* receiver is parked.  So the channel is two queues, idle and waitq.      *)
(*                                                                         *)
(* Holder identities are recycled: Fresh(h) says that no goroutine and no  *)
(* collection refers to h any more.                                        *)
(*                                                                         *)
(* An operator marked "mutant" is no part of the model: it is the bug that *)
(* replaces the operator after it when a property is tested.               *)
(***************************************************************************)
EXTENDS Naturals, Sequences, FiniteSets, Functions

Seqs == INSTANCE SequencesExt

CONSTANTS Runs,       \* goroutines that call Pool.Run
          Holders,    \* identities of *holder values
          Min, Max,   \* PoolConfig.Min, PoolConfig.Max after normalize
          IdleTicks,  \* ticks until a holder has expired; 0: IdleTimeout = 0
          Expiring,   \* the runs whose context may end
          Faults,     \* which of "death", "build", "inspect" the backend shows
          NoHolder, NoRun

ASSUME PoolAssumption ==
  /\ Min \in Nat /\ Max \in Nat \ {0} /\ Min <= Max /\ IdleTicks \in Nat
  /\ IsFiniteSet(Holders) /\ NoHolder \notin Holders /\ NoRun \notin Runs
  /\ Expiring \subseteq Runs /\ Faults \subseteq {"death", "build", "inspect"}

VARIABLES
  pc, held,                 \* each run: where it is, the holder it works with
  all, idle, waitq, closed, \* Pool.all, Pool.idle (buffer, receivers), .closed
  impl, dead, mu, age,      \* holder.impl, .dead, .mu, ticks since .lastUsed
  rpc, rheld,               \* the reaper goroutine
  cpc, doomed,              \* Close and its `holders` slice
  npc, nheld, warmed        \* NewPool and its loop counter

runVars    == <<pc, held>>
poolVars   == <<all, idle, waitq, closed>>
holderVars == <<impl, dead, mu, age>>
reaperVars == <<rpc, rheld>>
closeVars  == <<cpc, doomed>>
newVars    == <<npc, nheld, warmed>>
others     == <<reaperVars, closeVars, newVars>>
vars       == <<runVars, poolVars, holderVars, others>>

\* Between these stages a run has the holder to itself; in "unlock" it has
\* already put it back and only the mutex is left to release.
OwnStages == {"build", "unreserve", "lock", "exec", "check", "drop",
              "release", "put", "teardown"}
Stages == OwnStages \cup {"ready", "reserve", "wait", "parked", "unlock"}

TypeOK ==
  /\ pc \in [Runs -> Stages] /\ held \in [Runs -> Holders \cup {NoHolder}]
  /\ all \subseteq Holders /\ idle \in Seq(Holders) /\ waitq \in Seq(Runs)
  /\ closed \in BOOLEAN
  /\ impl \in [Holders -> {"nil", "up", "down", "closed"}]
  /\ dead \subseteq Holders
  /\ mu \in [Holders -> Runs \cup {NoRun}]
  /\ age \in [Holders -> 0..IdleTicks]
  /\ rpc \in {"select", "count", "take", "judge", "teardown", "exited"}
  /\ rheld \in Holders \cup {NoHolder}
  /\ cpc \in {"open", "join", "snapshot", "drain", "teardown", "closed",
              "panicked"}
  /\ doomed \subseteq Holders
  /\ npc \in {"creating", "enqueue", "failed", "returned"}
  /\ nheld \in Holders \cup {NoHolder} /\ warmed \in 0..Min

Live    == Cardinality(all)
HasSlotOffByOne == Live <= Max       \* mutant
HasSlot == Live < Max

\* delete(p.all, h)
UnregisterForgotten(h) == all         \* mutant
Unregistered(h) == all \ {h}

Queued  == Range(idle)

Fresh(h) == h \notin all \cup doomed \cup Queued \cup {rheld, nheld}
                         \cup {held[r] : r \in Runs}

\* The reaper goroutine exists only for a positive IdleTimeout.
Init ==
  /\ pc = [r \in Runs |-> "ready"] /\ held = [r \in Runs |-> NoHolder]
  /\ all = {} /\ idle = <<>> /\ waitq = <<>> /\ closed = FALSE
  /\ impl = [h \in Holders |-> "nil"] /\ dead = {}
  /\ mu = [h \in Holders |-> NoRun] /\ age = [h \in Holders |-> 0]
  /\ rpc = IF IdleTicks = 0 THEN "exited" ELSE "select"
  /\ rheld = NoHolder
  /\ cpc = "open" /\ doomed = {}
  /\ npc = IF Min = 0 THEN "returned" ELSE "creating"
  /\ nheld = NoHolder /\ warmed = 0

\* A panic ends the process: no goroutine is anywhere any more.
Going == cpc # "panicked"
At(r, stage)    == Going /\ pc[r] = stage
ReaperAt(stage) == Going /\ rpc = stage
NewAt(stage)    == Going /\ npc = stage

-----------------------------------------------------------------------------
\* The channel p.idle.

\* p.idle <- h by a goroutine whose own move makes the runs' stages `stages`.
Send(h, stages) ==
  \/ /\ waitq # <<>>
     /\ pc' = [stages EXCEPT ![Head(waitq)] = "lock"]
     /\ held' = [held EXCEPT ![Head(waitq)] = h]
     /\ waitq' = Tail(waitq)
     /\ UNCHANGED idle
  \/ /\ waitq = <<>> /\ Len(idle) < Max
     /\ idle' = Append(idle, h) /\ pc' = stages
     /\ UNCHANGED <<held, waitq>>

\* r takes the head of the buffer and goes on to lock it.
Receive(r) ==
  /\ idle # <<>>
  /\ held' = [held EXCEPT ![r] = Head(idle)] /\ idle' = Tail(idle)
  /\ pc' = [pc EXCEPT ![r] = "lock"]
  /\ UNCHANGED waitq

-----------------------------------------------------------------------------
\* Pool.Run, with acquire, release and drop.

Goto(r, stage) == pc' = [pc EXCEPT ![r] = stage]

Return(r) == Goto(r, "ready") /\ held' = [held EXCEPT ![r] = NoHolder]

UnlockForgotten(h) == mu              \* mutant
Unlocked(h) == [mu EXCEPT ![h] = NoRun]

\* Run is called; acquire's first select finds an idle holder or goes on.
Call(r) ==
  /\ NewAt("returned") /\ At(r, "ready")
  /\ \/ Receive(r)
     \/ idle = <<>> /\ Goto(r, "reserve") /\ UNCHANGED <<held, idle, waitq>>
  /\ UNCHANGED <<all, closed, holderVars, others>>

\* A slot is reserved: a holder without an impl is registered.
ReserveSlot(r, h) ==
  /\ Goto(r, "build") /\ held' = [held EXCEPT ![r] = h]
  /\ all' = all \cup {h}
  /\ impl' = [impl EXCEPT ![h] = "nil"] /\ age' = [age EXCEPT ![h] = 0]
  /\ dead' = dead \ {h}

RefusedForgotten == FALSE             \* mutant
Refused == closed

\* The p.mu section of acquire: refuse, reserve a slot, or go and wait.
Reserve(r) ==
  /\ At(r, "reserve")
  /\ \/ /\ Refused \/ ~HasSlot
        /\ Goto(r, IF Refused THEN "ready" ELSE "wait")
        /\ UNCHANGED <<held, all, impl, dead, age>>
     \/ /\ ~Refused /\ HasSlot
        /\ \E h \in Holders : Fresh(h) /\ ReserveSlot(r, h)
  /\ UNCHANGED <<idle, waitq, closed, mu, others>>

\* newImpl returns, with a holder or with an error.
Build(r) ==
  /\ At(r, "build")
  /\ \/ impl' = [impl EXCEPT ![held[r]] = "up"] /\ Goto(r, "lock")
     \/ /\ "build" \in Faults \/ r \in Expiring
        /\ Goto(r, "unreserve") /\ UNCHANGED impl
  /\ UNCHANGED <<held, poolVars, dead, mu, age, others>>

Unreserve(r) ==
  /\ At(r, "unreserve")
  /\ all' = Unregistered(held[r]) /\ Return(r)
  /\ UNCHANGED <<idle, waitq, closed, holderVars, others>>

\* The ctx.Done() case of acquire's second select.
CtxIgnored(r) == FALSE                \* mutant
CtxDone(r) == r \in Expiring

\* acquire's second select, on arrival: take, give up, or park.
Wait(r) ==
  /\ At(r, "wait")
  /\ \/ Receive(r)
     \/ CtxDone(r) /\ Goto(r, "ready") /\ UNCHANGED <<held, idle, waitq>>
     \/ /\ idle = <<>> /\ Goto(r, "parked") /\ waitq' = Append(waitq, r)
        /\ UNCHANGED <<held, idle>>
  /\ UNCHANGED <<all, closed, holderVars, others>>

\* ctx ends while r is parked: r leaves the channel's receive queue.
GiveUp(r) ==
  /\ At(r, "parked") /\ CtxDone(r)
  /\ \E i \in DOMAIN waitq : waitq[i] = r /\ waitq' = Seqs!RemoveAt(waitq, i)
  /\ Goto(r, "ready")
  /\ UNCHANGED <<held, all, idle, closed, holderVars, others>>

\* h.mu.Lock() and the look at h.dead; then impl.run begins.
Lock(r) ==
  /\ At(r, "lock") /\ mu[held[r]] = NoRun
  /\ mu' = [mu EXCEPT ![held[r]] = r]
  /\ \/ held[r] \in dead /\ Goto(r, "drop")
     \/ held[r] \notin dead /\ Goto(r, "exec")
  /\ UNCHANGED <<held, poolVars, impl, dead, age, others>>

\* impl.run returns, whatever its result, and impl.cleanup follows, which
\* returns nothing: it is best effort, and what it leaves is modelled by Holder
\* and Capture.
Exec(r) ==
  /\ At(r, "exec") /\ Goto(r, "check")
  /\ UNCHANGED <<held, poolVars, holderVars, others>>

VerdictsNotRunning(h) ==              \* mutant
  {TRUE} \cup {FALSE : f \in Faults \cap {"inspect"}}
\* impl.checkHolder may say so: a holder that is gone is not alive, one that
\* cannot be inspected counts as gone.
Verdicts(h) == IF impl[h] # "up" THEN {FALSE}
               ELSE {TRUE} \cup {FALSE : f \in Faults \cap {"inspect"}}

AfterCheckNoReturn(alive) == "release" \* mutant
AfterCheck(alive) == IF alive THEN "release" ELSE "drop"

Check(r) ==
  /\ At(r, "check")
  /\ \E alive \in Verdicts(held[r]) :
       /\ Goto(r, AfterCheck(alive))
       /\ dead' = IF alive THEN dead ELSE dead \cup {held[r]}
  /\ UNCHANGED <<held, poolVars, impl, mu, age, others>>

\* drop closes what it removed itself, not what Close has taken already.
PresentInverted(h) == h \notin all    \* mutant
Present(h) == h \in all

\* The p.mu section of drop, called from Run.
Drop(r) ==
  /\ At(r, "drop")
  /\ all' = Unregistered(held[r])
  /\ \/ Present(held[r]) /\ Goto(r, "teardown") /\ UNCHANGED <<held, mu>>
     \/ ~Present(held[r]) /\ Return(r) /\ mu' = Unlocked(held[r])
  /\ UNCHANGED <<idle, waitq, closed, impl, dead, age, others>>

\* lastUsed and the p.mu section of release.
Release(r) ==
  /\ At(r, "release")
  /\ age' = [age EXCEPT ![held[r]] = 0]
  /\ \/ closed /\ Goto(r, "teardown") /\ all' = Unregistered(held[r])
     \/ ~closed /\ Goto(r, "put") /\ UNCHANGED all
  /\ UNCHANGED <<held, idle, waitq, closed, impl, dead, mu, others>>

\* release's p.idle <- h; the holder's mutex is still locked.
Put(r) ==
  /\ At(r, "put")
  /\ Send(held[r], [pc EXCEPT ![r] = "unlock"])
  /\ UNCHANGED <<all, closed, holderVars, others>>

\* impl.close in drop or release, then the deferred h.mu.Unlock().  Here and
\* below "closed" says that close was called: nobody looks at its error.
TearDown(r) ==
  /\ At(r, "teardown")
  /\ impl' = [impl EXCEPT ![held[r]] = "closed"]
  /\ mu' = Unlocked(held[r]) /\ Return(r)
  /\ UNCHANGED <<poolVars, dead, age, others>>

\* The deferred h.mu.Unlock() after release put the holder back.
Unlock(r) ==
  /\ At(r, "unlock")
  /\ mu' = Unlocked(held[r]) /\ Return(r)
  /\ UNCHANGED <<poolVars, impl, dead, age, others>>

RunStep(r) ==
  \/ Reserve(r) \/ Build(r) \/ Unreserve(r) \/ Wait(r) \/ Lock(r) \/ Exec(r)
  \/ Check(r) \/ Drop(r) \/ Release(r) \/ Put(r) \/ TearDown(r) \/ Unlock(r)

-----------------------------------------------------------------------------
\* The reaper goroutine.

\* <-t.C, and reapIdle reads the clock: every holder is one tick older.
Tick ==
  /\ ReaperAt("select") /\ rpc' = "count"
  /\ age' = [h \in Holders |-> IF h \in all /\ age[h] < IdleTicks
                               THEN age[h] + 1 ELSE age[h]]
  /\ UNCHANGED <<runVars, poolVars, impl, dead, mu, rheld, closeVars,
                 newVars>>

\* Close closes p.reaperStop right after it has set p.closed.
StopForgotten == FALSE                \* mutant
StopSignalled == closed

StopReaper ==
  /\ ReaperAt("select") /\ StopSignalled /\ rpc' = "exited"
  /\ UNCHANGED <<runVars, poolVars, holderVars, rheld, closeVars, newVars>>

AtMinimumOffByOne == Live <= Min + 1  \* mutant
AtMinimum == Live <= Min

\* The p.mu section of reapIdle: are there more holders than the minimum?
Count ==
  /\ ReaperAt("count") /\ rpc' = IF AtMinimum THEN "select" ELSE "take"
  /\ UNCHANGED <<runVars, poolVars, holderVars, rheld, closeVars, newVars>>

\* The non-blocking receive of reapIdle.
TakeIdle ==
  /\ ReaperAt("take")
  /\ \/ idle = <<>> /\ rpc' = "select" /\ UNCHANGED <<idle, rheld>>
     \/ /\ idle # <<>> /\ rpc' = "judge"
        /\ rheld' = Head(idle) /\ idle' = Tail(idle)
  /\ UNCHANGED <<runVars, all, waitq, closed, holderVars, closeVars, newVars>>

Expired(h) == age[h] >= IdleTicks

\* The pass ends once a holder has been put back.
PassGoesOn == rpc' = "teardown" /\ UNCHANGED rheld \* mutant: no return
PassEnds == rpc' = "select" /\ rheld' = NoHolder

\* A holder that has not expired goes back, behind the others.
PutBack ==
  /\ ReaperAt("judge") /\ ~Expired(rheld)
  /\ Send(rheld, pc) /\ PassEnds
  /\ UNCHANGED <<all, closed, holderVars, closeVars, newVars>>

\* The p.mu section of drop, called for an expired holder.
Reap ==
  /\ ReaperAt("judge") /\ Expired(rheld)
  /\ all' = Unregistered(rheld)
  /\ \/ Present(rheld) /\ rpc' = "teardown" /\ UNCHANGED rheld
     \/ ~Present(rheld) /\ rpc' = "count" /\ rheld' = NoHolder
  /\ UNCHANGED <<runVars, idle, waitq, closed, holderVars, closeVars, newVars>>

ReapTearDown ==
  /\ ReaperAt("teardown") /\ rpc' = "count" /\ rheld' = NoHolder
  /\ impl' = [impl EXCEPT ![rheld] = "closed"]
  /\ UNCHANGED <<runVars, poolVars, dead, mu, age, closeVars, newVars>>

ReapStep == Count \/ TakeIdle \/ PutBack \/ Reap \/ ReapTearDown

-----------------------------------------------------------------------------
\* Close.  A second call changes nothing.

\* p.closed is set and the reaper is told to stop.  NewPool calls Close
\* itself when a minimum holder cannot be created.
CloseBegin ==
  /\ npc \in {"returned", "failed"} /\ cpc = "open"
  /\ closed' = TRUE /\ cpc' = "join"
  /\ UNCHANGED <<runVars, all, idle, waitq, holderVars, reaperVars, doomed,
                 newVars>>

\* <-p.reaperDone
JoinReaper ==
  /\ cpc = "join" /\ rpc = "exited" /\ cpc' = "snapshot"
  /\ UNCHANGED <<runVars, poolVars, holderVars, reaperVars, doomed, newVars>>

\* The definitive holder set is taken and cleared under p.mu.
Snapshot ==
  /\ cpc = "snapshot" /\ cpc' = "drain"
  /\ doomed' = all /\ all' = {}
  /\ UNCHANGED <<runVars, idle, waitq, closed, holderVars, reaperVars, newVars>>

\* The idle channel is emptied.
Drain ==
  /\ cpc = "drain" /\ cpc' = "teardown" /\ idle' = <<>>
  /\ UNCHANGED <<runVars, all, waitq, closed, holderVars, reaperVars, doomed,
                 newVars>>

\* h.impl.close for one holder of the snapshot.  A slot that is reserved but
\* not built yet has a nil impl: the call panics and the process is gone.
CloseOne ==
  /\ cpc = "teardown"
  /\ \E h \in doomed :
       \/ /\ impl[h] # "nil" /\ impl' = [impl EXCEPT ![h] = "closed"]
          /\ doomed' = doomed \ {h} /\ UNCHANGED cpc
       \/ impl[h] = "nil" /\ cpc' = "panicked" /\ UNCHANGED <<impl, doomed>>
  /\ UNCHANGED <<runVars, poolVars, dead, mu, age, reaperVars, newVars>>

CloseReturn ==
  /\ cpc = "teardown" /\ doomed = {} /\ cpc' = "closed"
  /\ UNCHANGED <<runVars, poolVars, holderVars, reaperVars, doomed, newVars>>

CloseStep == JoinReaper \/ Snapshot \/ Drain \/ CloseOne \/ CloseReturn

-----------------------------------------------------------------------------
\* NewPool's loop over the minimum holders.

\* createHolder: build a holder and register it, or fail.
CreateHolder ==
  /\ NewAt("creating")
  /\ \/ \E h \in Holders :
          /\ Fresh(h) /\ nheld' = h /\ npc' = "enqueue" /\ all' = all \cup {h}
          /\ impl' = [impl EXCEPT ![h] = "up"] /\ age' = [age EXCEPT ![h] = 0]
     \/ /\ "build" \in Faults /\ npc' = "failed"
        /\ UNCHANGED <<impl, age, all, nheld>>
  /\ UNCHANGED <<runVars, idle, waitq, closed, dead, mu, reaperVars,
                 closeVars, warmed>>

WarmedUpLate == warmed = Min          \* mutant
WarmedUp == warmed + 1 = Min

\* p.idle <- h, and the loop's next iteration or NewPool's return.
Enqueue ==
  /\ NewAt("enqueue")
  /\ Send(nheld, pc) /\ nheld' = NoHolder /\ warmed' = warmed + 1
  /\ npc' = IF WarmedUp THEN "returned" ELSE "creating"
  /\ UNCHANGED <<all, closed, holderVars, reaperVars, closeVars>>

NewStep == CreateHolder \/ Enqueue

-----------------------------------------------------------------------------
\* A holder's container or pod goes away on its own.
HolderDies(h) ==
  /\ Going /\ "death" \in Faults /\ impl[h] = "up"
  /\ impl' = [impl EXCEPT ![h] = "down"]
  /\ UNCHANGED <<runVars, poolVars, dead, mu, age, others>>

Next ==
  \/ \E r \in Runs : Call(r) \/ RunStep(r) \/ GiveUp(r)
  \/ Tick \/ StopReaper \/ ReapStep
  \/ CloseBegin \/ CloseStep \/ NewStep
  \/ \E h \in Holders : HolderDies(h)

Spec == Init /\ [][Next]_vars

(***************************************************************************)
(* Goroutines that can run do run, the backend's calls return, the ticker  *)
(* fires, and a context that may end ends.  Callers need not call, Close   *)
(* need not be called, holders need not die.  select picks at random among *)
(* ready cases, so a reaper that keeps seeing reaperStop takes it: strong  *)
(* fairness.                                                               *)
(***************************************************************************)
Fairness ==
  /\ \A r \in Runs : WF_vars(RunStep(r))
  /\ \A r \in Expiring : WF_vars(GiveUp(r))
  /\ WF_vars(Tick) /\ SF_vars(StopReaper)
  /\ WF_vars(ReapStep) /\ WF_vars(CloseStep)
  /\ WF_vars(NewStep)
  /\ WF_vars(npc = "failed" /\ CloseBegin)

FairSpec == Spec /\ Fairness
=============================================================================
