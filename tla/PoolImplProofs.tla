--------------------------- MODULE PoolImplProofs ----------------------------
(***************************************************************************)
(* Proof that the pool keeps to the protocol of its holders' interface,    *)
(* PoolImpl, for any number of runs and holders, any Min, Max and faults.  *)
(*                                                                         *)
(* HygieneInv is not enough: ProtocolInv adds that only the run that       *)
(* builds a holder knows it before it is built, and that Close knows every *)
(* holder that is in use when it empties the channel.                      *)
(*                                                                         *)
(* First the holders' mutexes, under which the interface says its methods  *)
(* are called: MutexOK says which stages of which run have one.            *)
(***************************************************************************)
EXTENDS PoolHygieneProofs

-----------------------------------------------------------------------------
\* The stages between h.mu.Lock and h.mu.Unlock.
Locked == {"exec", "check", "drop", "release", "put", "teardown", "unlock"}

\* The holder's mutex is with the run that works with the holder or has just
\* put it back, and with nobody else.
MutexOK ==
  \A r \in Runs, h \in Holders : mu[h] = r <=> pc[r] \in Locked /\ held[r] = h

\* The inductive invariant for the mutexes.
LockInv == SafeInv /\ MutexOK

\* A step that moves nobody across Lock or Unlock.
LEMMA MutexKept ==
  ASSUME MutexOK, mu' = mu,
         \A q \in Runs : /\ pc'[q] \in Locked <=> pc[q] \in Locked
                         /\ pc[q] \in Locked => held'[q] = held[q]
  PROVE  MutexOK'
BY DEF MutexOK

\* A send hands the holder to a run that has no mutex yet.
LEMMA MutexSend ==
  ASSUME SafeInv, MutexOK, mu' = mu, NEW h \in Holders, h \notin Queued,
         NEW stages \in [Runs -> Stages], Send(h, stages),
         \A q \in Runs : stages[q] \in Locked <=> pc[q] \in Locked
  PROVE  MutexOK'
<1>a. RunsTyped
  BY LeaseFacts
<1>1. ASSUME NEW w \in Runs, pc[w] = "parked", pc' = [stages EXCEPT ![w] = "lock"],
             held' = [held EXCEPT ![w] = h]
      PROVE  MutexOK'
  <2>1. ASSUME NEW q \in Runs
        PROVE  /\ pc'[q] \in Locked <=> pc[q] \in Locked
               /\ pc[q] \in Locked => held'[q] = held[q]
    BY <1>a, <1>1 DEF RunsTyped, Locked
  <2> QED BY <2>1, MutexKept
<1>2. CASE pc' = stages /\ held' = held
  BY <1>2, MutexKept
<1> QED BY <1>1, <1>2, SendMoves

\* h.mu.Lock and h.mu.Unlock in Pool.Run (pool.go:232-253) are the only steps
\* that change a mutex.
LEMMA MutexRun ==
  ASSUME LockInv, NEW r \in Runs, Call(r) \/ RunStep(r) \/ GiveUp(r)
  PROVE  MutexOK'
<1> USE DEF At, poolVars, holderVars, others
<1>a. /\ SafeInv /\ RunsTyped /\ MutexOK /\ mu \in [Holders -> Runs \cup {NoRun}]
      /\ \A q \in Runs : Owns(q) => held[q] \in Holders /\ held[q] \notin Avail
      /\ \A q \in Runs : pc[q] \in Holding => held[q] \in Holders
  BY LeaseFacts, HeldInHolders DEF LockInv, SafeInv, TypeOK
<1>b. ASSUME NEW s, pc' = [pc EXCEPT ![r] = s], mu' = mu,
             \/ pc[r] \in Locked /\ s \in Locked /\ held' = held
             \/ /\ pc[r] \notin Locked /\ s \notin Locked
                /\ held' = held \/ \E k : held' = [held EXCEPT ![r] = k]
      PROVE  MutexOK'
  BY <1>a, <1>b, MutexKept DEF RunsTyped
<1>1. CASE Call(r) \/ Reserve(r) \/ Build(r) \/ Unreserve(r) \/ Wait(r) \/ GiveUp(r)
  <2>1. pc[r] \notin Locked /\ mu' = mu
    BY <1>1 DEF Call, Reserve, Build, Unreserve, Wait, GiveUp, Locked
  <2>2. PICK s \in {"ready", "reserve", "build", "unreserve", "wait", "parked", "lock"} :
           pc' = [pc EXCEPT ![r] = s]
    BY <1>1 DEF Call, Reserve, ReserveSlot, Build, Unreserve, Wait, GiveUp, Receive, Return, Goto
  <2>3. held' = held \/ \E k : held' = [held EXCEPT ![r] = k]
    BY <1>1 DEF Call, Reserve, ReserveSlot, Build, Unreserve, Wait, GiveUp, Receive, Return
  <2>4. s \notin Locked
    BY DEF Locked
  <2> QED BY <1>b, <2>1, <2>2, <2>3, <2>4
<1>2. CASE \/ Exec(r) \/ Check(r) \/ Release(r) \/ (Drop(r) /\ Goto(r, "teardown"))
  <2>1. /\ pc[r] \in Locked /\ UNCHANGED <<mu, held>>
        /\ \E s \in {"check", "release", "drop", "put", "teardown"} : Goto(r, s)
    <3>1. ASSUME Drop(r), Goto(r, "teardown") PROVE UNCHANGED <<mu, held>>
      BY <1>a, <3>1 DEF Drop, Goto, Return, RunsTyped
    <3> QED BY <1>2, <3>1 DEF Exec, Check, AfterCheck, Release, Drop, Locked
  <2>2. \A s \in {"check", "release", "drop", "put", "teardown"} : s \in Locked
    BY DEF Locked
  <2> QED BY <1>b, <2>1, <2>2 DEF Goto
<1>3. CASE Lock(r)
  <2>1. PICK h \in Holders : h = held[r] /\ mu[h] = NoRun /\ mu' = [mu EXCEPT ![h] = r]
    BY <1>3, <1>a, StageNames DEF Lock, Holding
  <2>2. PICK s \in Locked : pc' = [pc EXCEPT ![r] = s] /\ held' = held /\ pc[r] \notin Locked
    BY <1>3 DEF Lock, Goto, Locked
  <2>3. \A q \in Runs : ~(pc[q] \in Locked /\ held[q] = h)
    BY <1>a, <2>1, PoolAssumption DEF MutexOK
  <2> QED BY <1>a, <2>1, <2>2, <2>3 DEF MutexOK, RunsTyped
<1>4. CASE TearDown(r) \/ Unlock(r) \/ (Drop(r) /\ Return(r) /\ mu' = Unlocked(held[r]))
  <2>1. PICK h \in Holders : h = held[r] /\ mu' = [mu EXCEPT ![h] = NoRun] /\ pc[r] \in Locked
    BY <1>4, <1>a, StageNames DEF TearDown, Unlock, Drop, Unlocked, Holding, Locked
  <2>2. pc' = [pc EXCEPT ![r] = "ready"] /\ held' = [held EXCEPT ![r] = NoHolder]
    BY <1>4 DEF TearDown, Unlock, Return, Goto
  <2>3. mu[h] = r /\ \A q \in Runs \ {r} : ~(pc[q] \in Locked /\ held[q] = h)
    BY <1>a, <2>1 DEF MutexOK
  <2>4. \A q \in Runs, g \in Holders \ {h} :
          (pc'[q] \in Locked /\ held'[q] = g) <=> (pc[q] \in Locked /\ held[q] = g)
    BY <1>a, <2>1, <2>2, PoolAssumption DEF RunsTyped
  <2>5. \A q \in Runs : ~(pc'[q] \in Locked /\ held'[q] = h)
    BY <1>a, <2>2, <2>3, PoolAssumption DEF RunsTyped
  <2> QED BY <1>a, <2>1, <2>4, <2>5, PoolAssumption DEF MutexOK
<1>5. CASE Put(r)
  <2>1. /\ pc[r] = "put" /\ Owns(r) /\ mu' = mu /\ Send(held[r], [pc EXCEPT ![r] = "unlock"])
    BY <1>5, StageNames DEF Put, Owns
  <2>2. PICK h \in Holders : h = held[r] /\ h \notin Queued
    BY <1>a, <2>1 DEF Avail
  <2>3. PICK stages \in [Runs -> Stages] : stages = [pc EXCEPT ![r] = "unlock"]
    BY <1>a, StageNames DEF RunsTyped
  <2>4. \A q \in Runs : stages[q] \in Locked <=> pc[q] \in Locked
    BY <1>a, <2>1, <2>3 DEF RunsTyped, Locked
  <2> QED BY <1>a, <2>1, <2>2, <2>3, <2>4, MutexSend
<1>6. Drop(r) => Goto(r, "teardown") \/ (Return(r) /\ mu' = Unlocked(held[r]))
  BY DEF Drop
<1> QED BY <1>1, <1>2, <1>3, <1>4, <1>5, <1>6 DEF RunStep

\* The mutexes' invariant is inductive.
LEMMA LockStep == LockInv /\ [Next]_vars => LockInv'
<1> SUFFICES ASSUME LockInv, [Next]_vars PROVE MutexOK'
  BY SafeStep DEF LockInv
<1>a. SafeInv /\ MutexOK /\ RunsTyped /\ Custody
  BY LeaseFacts DEF LockInv
<1>b. ASSUME UNCHANGED <<pc, held, mu>> PROVE MutexOK'
  BY <1>a, <1>b DEF MutexOK
<1>1. CASE PutBack \/ Enqueue
  <2>1. PICK h \in Holders : h \notin Queued /\ Send(h, pc) /\ mu' = mu
    BY <1>1, <1>a, HeldInHolders DEF PutBack, Enqueue, ReaperAt, NewAt, Custody, holderVars
  <2> QED BY <1>a, <2>1, MutexSend DEF RunsTyped
<1>2. CASE \/ Tick \/ StopReaper \/ (ReapStep /\ ~PutBack) \/ CloseBegin \/ CloseStep
           \/ CreateHolder \/ (\E h \in Holders : HolderDies(h)) \/ UNCHANGED vars
  <2>1. UNCHANGED <<pc, held, mu>>
    BY <1>2 DEF Tick, StopReaper, ReapStep, Count, TakeIdle, Reap, ReapTearDown, CloseBegin,
              CloseStep, JoinReaper, Snapshot, Drain, CloseOne, CloseReturn, CreateHolder,
              HolderDies, vars, runVars, holderVars, others
  <2> QED BY <1>b, <2>1
<1> QED BY <1>1, <1>2, MutexRun DEF Next, ReapStep, NewStep

\* No mutex is locked at first.
LEMMA LockInit == Init => LockInv
BY InitSafe, PoolAssumption DEF Init, LockInv, MutexOK, Locked

(***************************************************************************)
(* Pool.Run's calls of run, cleanup and checkHolder are made with the      *)
(* holder's mutex held (pool.go:21-22, 232-252).                           *)
(***************************************************************************)
THEOREM MutexesHeld == Spec => []MutexOK
BY LockInit, LockStep, PTL DEF Spec, LockInv

(***************************************************************************)
(* Whoever waits for a holder's mutex waits for its release only           *)
(* (pool.go:208, 233): nobody who works with a holder, and nobody who      *)
(* waits himself, has it.                                                  *)
(***************************************************************************)
THEOREM LockersAlwaysProceed == Spec => []LockersProceed
<1>1. LockInv => LockersProceed
  <2> SUFFICES ASSUME LockInv, NEW r \in Runs, pc[r] = "lock", mu[held[r]] # NoRun
               PROVE  \E q \in Runs : mu[held[r]] = q /\ pc[q] = "unlock" /\ held[q] = held[r]
    BY DEF LockersProceed
  <2>1. /\ held[r] \in Holders /\ Owns(r)
        /\ \A p, q \in Runs : Owns(p) /\ Owns(q) /\ held[p] = held[q] => p = q
    BY LeaseFacts, StageNames DEF LockInv, Owns
  <2>2. PICK q \in Runs : mu[held[r]] = q
    BY <2>1 DEF LockInv, SafeInv, TypeOK
  <2>3. pc[q] \in Locked /\ held[q] = held[r]
    BY <2>1, <2>2 DEF LockInv, MutexOK
  <2>4. q # r
    BY <2>3 DEF Locked
  <2>5. ~Owns(q)
    BY <2>1, <2>3, <2>4
  <2>6. pc[q] = "unlock"
    BY <2>3, <2>5, StageNames DEF Locked, Owns
  <2> QED BY <2>2, <2>3, <2>6
<1> QED BY <1>1, LockInit, LockStep, PTL DEF Spec

(***************************************************************************)
(* Nobody waits in vain, for a mutex or for a holder (pool.go:188, 208,    *)
(* 232): a parked call has somebody who will wake it, or a slot is free.   *)
(***************************************************************************)
THEOREM NobodyEverWaitsInVain == Spec => []NobodyWaitsInVain
BY LockersAlwaysProceed, WaitersAlwaysHaveSource, PTL DEF NobodyWaitsInVain

-----------------------------------------------------------------------------

\* Nobody but the run that builds a holder has it before its impl is set.
NilOK ==
  \A h \in Holders : impl[h] = "nil" =>
    /\ h \notin Avail /\ h # rheld
    /\ \A r \in Runs : Owns(r) /\ held[r] = h => pc[r] \in {"build", "unreserve"}

\* No holder is forgotten by emptying the channel.
DrainOK == cpc = "drain" => InUse \subseteq doomed

\* The inductive invariant of this module.
ProtocolInv == HygieneInv /\ NilOK /\ DrainOK

\* Who may send a holder or is at work with it had it before, or it was free.
LEMMA OwnersStep ==
  ASSUME SafeInv, Next, NEW r \in Runs, Owns(r)'
  PROVE  \/ Owns(r) /\ held'[r] = held[r] /\ (pc[r] \in {"build", "unreserve"} =>
              pc'[r] \in {"build", "unreserve"} \/ impl'[held[r]] = "up")
         \/ pc'[r] = "build"
         \/ held'[r] \in Avail
         \/ \E q \in Runs : pc[q] = "put" /\ held'[r] = held[q]
<1> USE DEF At, ReaperAt, NewAt, runVars, poolVars, holderVars, reaperVars, closeVars,
            newVars, others
<1>a. /\ RunsTyped /\ ChannelTyped /\ impl \in [Holders -> {"nil", "up", "down", "closed"}]
      /\ \A q \in Runs : Owns(q) => held[q] \in Holders
  BY LeaseFacts DEF SafeInv, TypeOK
<1>b. ASSUME NEW h, NEW stages \in [Runs -> Stages], Send(h, stages)
      PROVE  \/ pc'[r] = stages[r] /\ held'[r] = held[r]
             \/ held'[r] = h
  <2>1. waitq # <<>> => Head(waitq) \in Runs
    BY <1>a, HeadTail DEF ChannelTyped
  <2> QED BY <1>a, <1>b, <2>1 DEF Send, RunsTyped
<1>1. ASSUME NEW q \in Runs, Put(q)
      PROVE  (Owns(r) /\ held'[r] = held[r] /\ pc'[r] = pc[r]) \/ held'[r] = held[q]
  <2>1. [pc EXCEPT ![q] = "unlock"] \in [Runs -> Stages]
    BY <1>a, StageNames DEF RunsTyped
  <2>2. \/ pc'[r] = [pc EXCEPT ![q] = "unlock"][r] /\ held'[r] = held[r]
        \/ held'[r] = held[q]
    BY <1>1, <1>b, <2>1 DEF Put
  <2>3. [pc EXCEPT ![q] = "unlock"][r] = IF r = q THEN "unlock" ELSE pc[r]
    BY <1>a DEF RunsTyped
  <2> QED BY <2>2, <2>3, StageNames DEF Owns
<1>2. ASSUME NEW h, Send(h, pc)
      PROVE  (Owns(r) /\ held'[r] = held[r] /\ pc'[r] = pc[r]) \/ held'[r] = h
  <2>1. pc \in [Runs -> Stages]
    BY <1>a DEF RunsTyped
  <2>2. (pc'[r] = pc[r] /\ held'[r] = held[r]) \/ held'[r] = h
    BY <1>2, <1>b, <2>1
  <2> QED BY <2>2 DEF Owns
<1>3. ASSUME NEW q \in Runs, Call(q) \/ Wait(q) \/ GiveUp(q)
      PROVE  (Owns(r) /\ held'[r] = held[r] /\ pc'[r] = pc[r]) \/ held'[r] \in Avail
  <2>1. CASE Receive(q)
    <3>1. PICK h \in Holders : /\ h \in Queued /\ held' = [held EXCEPT ![q] = h]
                               /\ pc' = [pc EXCEPT ![q] = "lock"]
      BY <2>1, ReceiveMoves
    <3> QED BY <1>a, <3>1 DEF RunsTyped, Owns, Avail
  <2>2. CASE ~Receive(q)
    <3>1. held' = held /\ \E s \in {"ready", "reserve", "parked"} : pc' = [pc EXCEPT ![q] = s]
      BY <1>3, <2>2 DEF Call, Wait, GiveUp, Goto
    <3> QED BY <1>a, <3>1, StageNames DEF RunsTyped, Owns
  <2> QED BY <2>1, <2>2
<1>4. ASSUME NEW q \in Runs, Reserve(q)
      PROVE  (Owns(r) /\ held'[r] = held[r] /\ pc'[r] = pc[r]) \/ pc'[r] = "build"
  BY <1>a, <1>4, StageNames DEF Reserve, ReserveSlot, Goto, RunsTyped, Owns
<1>5. ASSUME NEW q \in Runs, \/ Build(q) \/ Unreserve(q) \/ Lock(q) \/ Exec(q) \/ Check(q)
                             \/ Drop(q) \/ Release(q) \/ TearDown(q) \/ Unlock(q)
      PROVE  Owns(r) /\ held'[r] = held[r] /\ (pc[r] \in {"build", "unreserve"} =>
               pc'[r] \in {"build", "unreserve"} \/ impl'[held[r]] = "up")
  <2>1. CASE q # r
    <3>1. pc'[r] = pc[r] /\ held'[r] = held[r]
      BY <1>a, <1>5, <2>1 DEF RunsTyped, Build, Unreserve, Lock, Exec, Check, Drop, Release,
         TearDown, Unlock, Goto, Return
    <3> QED BY <3>1 DEF Owns
  <2>2. CASE q = r
    <3>1. Owns(r)
      <4>1. pc[r] # "unlock" => pc[r] \in OwnStages
        BY <1>5, <2>2, StageNames DEF Build, Unreserve, Lock, Exec, Check, Drop, Release,
           TearDown, Unlock
      <4>2. ~Unlock(r)
        BY <1>a, StageNames DEF Unlock, Return, Goto, RunsTyped, Owns
      <4> QED BY <1>5, <2>2, <4>1, <4>2 DEF Build, Unreserve, Lock, Exec, Check, Drop, Release,
             TearDown, Owns
    <3>2. ~Return(r)
      BY <1>a, StageNames DEF Return, Goto, RunsTyped, Owns
    <3>3. held' = held
      BY <1>5, <2>2, <3>2 DEF Build, Unreserve, Lock, Exec, Check, Drop, Release, TearDown, Unlock
    <3>4. CASE Build(r)
      <4>1. \/ impl' = [impl EXCEPT ![held[r]] = "up"]
            \/ pc' = [pc EXCEPT ![r] = "unreserve"]
        BY <3>4 DEF Build, Goto
      <4>2. held[r] \in Holders
        BY <1>a, <3>1
      <4>3. impl'[held[r]] = "up" \/ pc'[r] = "unreserve"
        BY <1>a, <4>1, <4>2 DEF RunsTyped
      <4> QED BY <3>1, <3>3, <4>3
    <3>5. CASE ~Build(r)
      BY <1>5, <2>2, <3>1, <3>2, <3>3, <3>5 DEF Unreserve, Lock, Exec, Check, Drop, Release,
         TearDown, Unlock
    <3> QED BY <3>4, <3>5
  <2> QED BY <2>1, <2>2
<1>6. CASE PutBack \/ Enqueue
  <2>1. ASSUME PutBack PROVE rheld \in Avail
    BY <2>1 DEF PutBack, Avail
  <2>2. ASSUME Enqueue PROVE nheld \in Avail
    BY <2>2 DEF Enqueue, Avail
  <2>3. impl' = impl
    BY <1>6 DEF PutBack, Enqueue
  <2> QED BY <1>2, <1>6, <2>1, <2>2 DEF PutBack, Enqueue
<1>7. CASE \/ Tick \/ StopReaper \/ (ReapStep /\ ~PutBack) \/ CloseBegin \/ CloseStep
           \/ CreateHolder \/ \E h \in Holders : HolderDies(h)
  <2>1. UNCHANGED <<pc, held>>
    BY <1>7 DEF Tick, StopReaper, ReapStep, Count, TakeIdle, Reap, ReapTearDown, CloseBegin,
              CloseStep, JoinReaper, Snapshot, Drain, CloseOne, CloseReturn, CreateHolder,
              HolderDies
  <2> QED BY <2>1 DEF Owns
<1>8. ASSUME NEW q \in Runs, Put(q) PROVE pc[q] = "put"
  BY <1>8 DEF Put
<1> QED BY <1>1, <1>3, <1>4, <1>5, <1>6, <1>7, <1>8 DEF Next, RunStep, ReapStep, NewStep
\* A holder becomes available when its run puts it, or when NewPool has made it.
LEMMA AvailStep ==
  ASSUME SafeInv, Next, NEW h \in Holders, h \in Avail'
  PROVE  h \in Avail \/ impl'[h] = "up" \/ \E q \in Runs : pc[q] = "put" /\ held[q] = h
<1> USE DEF At, ReaperAt, NewAt, runVars, poolVars, holderVars, reaperVars, closeVars,
            newVars, others
<1>a. /\ RunsTyped /\ ChannelTyped /\ Custody /\ Distinct
      /\ impl \in [Holders -> {"nil", "up", "down", "closed"}]
      /\ \A q \in Runs : Owns(q) => held[q] \in Holders /\ held[q] \notin Queued
  BY LeaseFacts DEF SafeInv, TypeOK, Custody
<1>b. ASSUME NEW g \in Holders, NEW stages \in [Runs -> Stages], Send(g, stages), g \notin Queued
      PROVE  Queued' \subseteq Queued \cup {g}
  <2>1. idle' = idle \/ Queued' = Queued \cup {g}
    BY <1>b, SendMoves
  <2> QED BY <2>1 DEF Queued
<1>1. ASSUME NEW q \in Runs, Put(q) PROVE h \in Avail \/ h = held[q]
  <2>1. /\ Owns(q) /\ [pc EXCEPT ![q] = "unlock"] \in [Runs -> Stages]
        /\ Send(held[q], [pc EXCEPT ![q] = "unlock"]) /\ UNCHANGED <<rpc, rheld, npc, nheld>>
    BY <1>a, <1>1, StageNames DEF Put, Owns, RunsTyped
  <2> QED BY <1>a, <1>b, <2>1 DEF Avail
<1>2. ASSUME NEW q \in Runs, Call(q) \/ Wait(q) PROVE h \in Avail
  <2>1. UNCHANGED <<rpc, rheld, npc, nheld>>
    BY <1>2 DEF Call, Wait
  <2>2. Queued' \subseteq Queued
    <3>1. ASSUME Receive(q) PROVE Queued' \subseteq Queued
      BY <3>1, ReceiveMoves
    <3>2. ASSUME idle' = idle PROVE Queued' \subseteq Queued
      BY <3>2 DEF Queued
    <3> QED BY <1>2, <3>1, <3>2 DEF Call, Wait
  <2> QED BY <2>1, <2>2 DEF Avail
<1>3. ASSUME NEW q \in Runs, GiveUp(q) \/ (RunStep(q) /\ ~Put(q) /\ ~Wait(q)) PROVE h \in Avail
  <2>1. UNCHANGED <<idle, rpc, rheld, npc, nheld>>
    BY <1>3 DEF GiveUp, RunStep, Reserve, Build, Unreserve, Lock, Exec, Check, Drop, Release,
              TearDown, Unlock
  <2> QED BY <2>1 DEF Avail, Queued
<1>4. CASE PutBack \/ Enqueue
  <2>1. PICK g \in Holders : /\ g \in Avail /\ g \notin Queued /\ Send(g, pc)
                             /\ \/ g = rheld /\ rpc' # "judge" /\ UNCHANGED <<npc, nheld>>
                                \/ g = nheld /\ npc' # "enqueue" /\ UNCHANGED <<rpc, rheld>>
    <3>1. ASSUME PutBack PROVE /\ rheld \in Holders /\ rheld \in Avail /\ rheld \notin Queued
                               /\ Send(rheld, pc) /\ rpc' # "judge" /\ UNCHANGED <<npc, nheld>>
      BY <1>a, <3>1, HeldInHolders DEF PutBack, PassEnds, Avail, Custody, SafeInv
    <3>2. ASSUME Enqueue PROVE /\ nheld \in Holders /\ nheld \in Avail /\ nheld \notin Queued
                               /\ Send(nheld, pc) /\ npc' # "enqueue" /\ UNCHANGED <<rpc, rheld>>
      BY <1>a, <3>2, HeldInHolders DEF Enqueue, Avail, Custody, SafeInv
    <3> QED BY <1>4, <3>1, <3>2
  <2>2. Queued' \subseteq Queued \cup {g}
    BY <1>a, <1>b, <2>1 DEF RunsTyped
  <2> QED BY <2>1, <2>2 DEF Avail
<1>5. CASE TakeIdle
  <2>1. ASSUME idle # <<>>, idle' = Tail(idle)
        PROVE  Head(idle) \in Queued /\ Queued' = Queued \ {Head(idle)}
    BY <1>a, <2>1, QueuedTail DEF ChannelTyped
  <2> QED BY <1>5, <2>1 DEF TakeIdle, Avail, Queued
<1>6. CASE CreateHolder
  <2>1. UNCHANGED <<idle, rpc, rheld>> /\ npc = "creating"
    BY <1>6 DEF CreateHolder
  <2>2. h \in Avail \/ (npc' = "enqueue" /\ h = nheld')
    BY <2>1 DEF Avail, Queued
  <2> QED BY <1>a, <1>6, <2>2 DEF CreateHolder
<1>7. CASE \/ Tick \/ StopReaper \/ Count \/ Reap \/ ReapTearDown \/ CloseBegin \/ CloseStep
           \/ \E g \in Holders : HolderDies(g)
  <2>1. /\ UNCHANGED <<npc, nheld>>
        /\ rpc' = "judge" => rpc = "judge" /\ rheld' = rheld
        /\ idle' = idle \/ idle' = <<>>
    BY <1>7 DEF Tick, StopReaper, Count, Reap, ReapTearDown, CloseBegin, CloseStep, JoinReaper,
              Snapshot, Drain, CloseOne, CloseReturn, HolderDies
  <2>2. Queued' \subseteq Queued
    BY <2>1 DEF Queued, Range
  <2> QED BY <2>1, <2>2 DEF Avail
<1>8. ASSUME NEW q \in Runs, Put(q) PROVE pc[q] = "put"
  BY <1>8 DEF Put
<1> QED BY <1>1, <1>2, <1>3, <1>4, <1>5, <1>6, <1>7, <1>8 DEF Next, RunStep, ReapStep, NewStep

\* Only the reservation of a slot leaves a holder without an impl.
LEMMA NilBefore ==
  ASSUME SafeInv, Next, NEW h \in Holders, impl'[h] = "nil"
  PROVE  \/ impl[h] = "nil" \/ \E r \in Runs : Reserve(r) /\ Fresh(h) /\ ReserveSlot(r, h)
<1> USE DEF holderVars, others
<1>a. impl \in [Holders -> {"nil", "up", "down", "closed"}]
  BY DEF SafeInv, TypeOK
<1>1. ASSUME NEW r \in Runs, Reserve(r)
      PROVE  impl[h] = "nil" \/ (Fresh(h) /\ ReserveSlot(r, h))
  BY <1>a, <1>1 DEF Reserve, ReserveSlot
<1>2. ASSUME NEW r \in Runs, Call(r) \/ (RunStep(r) /\ ~Reserve(r)) \/ GiveUp(r)
      PROVE  impl[h] = "nil"
  BY <1>a, <1>2 DEF Call, RunStep, GiveUp, Build, Unreserve, Wait, Lock, Exec, Check, Drop,
                    Release, Put, TearDown, Unlock
<1>3. CASE \/ Tick \/ StopReaper \/ ReapStep \/ CloseBegin \/ CloseStep \/ NewStep
           \/ \E g \in Holders : HolderDies(g)
  BY <1>a, <1>3 DEF Tick, StopReaper, ReapStep, Count, TakeIdle, PutBack, Reap, ReapTearDown,
              CloseBegin, CloseStep, JoinReaper, Snapshot, Drain, CloseOne, CloseReturn,
              NewStep, CreateHolder, Enqueue, HolderDies
<1> QED BY <1>1, <1>2, <1>3 DEF Next

\* A holder whose impl is not set yet stays with the run that builds it.
LEMMA NilStep == ASSUME SafeInv, NilOK, Next PROVE NilOK'
<1> SUFFICES ASSUME NEW h \in Holders, impl'[h] = "nil"
             PROVE  /\ h \notin Avail' /\ h # rheld'
                    /\ \A r \in Runs : (Owns(r) /\ held[r] = h)' => pc'[r] \in {"build", "unreserve"}
  BY DEF NilOK
<1>a. RunsTyped
  BY LeaseFacts
<1>1. ASSUME NEW q \in Runs, Reserve(q), Fresh(h), ReserveSlot(q, h)
      PROVE  /\ h \notin Avail' /\ h # rheld'
             /\ \A r \in Runs : held'[r] = h => pc'[r] = "build"
  <2>1. h \notin Avail /\ h # rheld /\ \A r \in Runs : held[r] # h
    BY <1>1, FreshUnused DEF Fresh
  <2>2. Avail' = Avail /\ rheld' = rheld
    BY <1>1 DEF Reserve, Avail, Queued, others, reaperVars, newVars
  <2> QED BY <1>a, <1>1, <2>1, <2>2 DEF ReserveSlot, Goto, RunsTyped
<1>2. ASSUME impl[h] = "nil"
      PROVE  /\ h \notin Avail' /\ h # rheld'
             /\ \A r \in Runs : (Owns(r) /\ held[r] = h)' => pc'[r] \in {"build", "unreserve"}
  <2>1. /\ h \notin Avail /\ h # rheld
        /\ \A r \in Runs : Owns(r) /\ held[r] = h => pc[r] \in {"build", "unreserve"}
    BY <1>2 DEF NilOK
  <2>2. \A q \in Runs : pc[q] = "put" => held[q] # h
    BY <2>1, StageNames DEF Owns
  <2>3. h \notin Avail'
    BY <2>1, <2>2, AvailStep
  <2>4. h # rheld'
    BY <2>1, ReaperTakes, PoolAssumption
  <2>5. ASSUME NEW r \in Runs, Owns(r)', held'[r] = h PROVE pc'[r] \in {"build", "unreserve"}
    BY <2>1, <2>2, <2>5, OwnersStep
  <2> QED BY <2>3, <2>4, <2>5
<1> QED BY <1>1, <1>2, NilBefore

\* Close's snapshot has all holders in use, and after it none is made.
LEMMA DrainStep == ASSUME SlotInv, SlotInv', DrainOK, Next PROVE DrainOK'
<1> USE DEF poolVars, others, closeVars
<1> SUFFICES ASSUME cpc' = "drain" PROVE InUse' \subseteq doomed'
  BY DEF DrainOK
<1>1. \/ Snapshot
      \/ cpc = "drain" /\ doomed' = doomed
  BY DEF Next, Call, RunStep, GiveUp, Reserve, Build, Unreserve, Wait, Lock, Exec, Check, Drop,
     Release, Put, TearDown, Unlock, Tick, StopReaper, ReapStep, Count, TakeIdle, PutBack, Reap,
     ReapTearDown, CloseBegin, CloseStep, JoinReaper, Drain, CloseOne, CloseReturn,
     NewStep, CreateHolder, Enqueue, HolderDies
<1>2. CASE Snapshot
  <2>1. doomed' = InUse /\ InUse' = InUse
    BY <1>2 DEF Snapshot, SlotInv, SlotsAccounted, BeforeSnapshot, InUse, Queued, Owns, runVars,
                reaperVars, newVars
  <2> QED BY <2>1
<1>3. CASE cpc = "drain" /\ doomed' = doomed
  <2>1. closed /\ InUse \subseteq doomed
    BY <1>3 DEF SlotInv, CloseOK, DrainOK
  <2>2. InUse' \subseteq InUse
    BY <2>1, FlowStep, InUseStep DEF SlotInv
  <2> QED BY <1>3, <2>1, <2>2
<1> QED BY <1>1, <1>2, <1>3

\* The invariant is inductive.
LEMMA ProtocolStep == ProtocolInv /\ [Next]_vars => ProtocolInv'
<1>1. ASSUME ProtocolInv, Next PROVE ProtocolInv'
  BY <1>1, HygieneStep, NilStep, DrainStep DEF ProtocolInv, HygieneInv, SlotInv
<1>2. ASSUME ProtocolInv, UNCHANGED vars PROVE ProtocolInv'
  <2>1. HygieneInv'
    BY <1>2, HygieneStep DEF ProtocolInv
  <2>2. NilOK' /\ DrainOK'
    BY <1>2 DEF ProtocolInv, NilOK, DrainOK, vars, runVars, poolVars, holderVars, others,
       reaperVars, closeVars, newVars, Avail, Queued, Owns, InUse
  <2> QED BY <2>1, <2>2 DEF ProtocolInv
<1> QED BY <1>1, <1>2

\* The pool starts within it.
LEMMA ProtocolInit == Init => ProtocolInv
<1> SUFFICES ASSUME Init PROVE ProtocolInv
  OBVIOUS
<1>1. \A h \in Holders : h \notin Avail /\ h # rheld
  BY PoolAssumption DEF Init, Avail, Queued, Range
<1>2. NilOK /\ DrainOK
  BY <1>1, StageNames DEF Init, NilOK, DrainOK, Owns
<1> QED BY <1>2, HygieneInit DEF ProtocolInv
(***************************************************************************)
(* The pool keeps ProtocolInv, which the refinement below rests on.        *)
(***************************************************************************)
THEOREM ProtocolInvariant == Spec => []ProtocolInv
BY ProtocolInit, ProtocolStep, PTL DEF Spec

-----------------------------------------------------------------------------
\* The variables of PoolImpl, and which changes of one holder's values are
\* steps of it.
CallFunction == [h \in Holders |-> CallOf(h)]
ObjFunction  == [h \in Holders |-> ObjOf(h)]

Same(h) == CallOf(h)' = CallOf(h) /\ ObjOf(h)' = ObjOf(h)

Moved(h) ==
  \/ Same(h)
  \/ CallOf(h) = "none" /\ ObjOf(h) = "absent" /\ CallOf(h)' = "idle" /\ ObjOf(h)' = "up"
  \/ CallOf(h) = "idle" /\ CallOf(h)' = "run" /\ ObjOf(h)' = ObjOf(h)
  \/ CallOf(h) = "run" /\ CallOf(h)' = "check" /\ ObjOf(h)' = ObjOf(h)
  \/ CallOf(h) = "check" /\ CallOf(h)' = "idle" /\ ObjOf(h) = "up" /\ ObjOf(h)' = "up"
  \/ CallOf(h) = "check" /\ CallOf(h)' = "dead" /\ ObjOf(h)' = ObjOf(h)
  \/ CallOf(h)' = CallOf(h) /\ ObjOf(h) = "up" /\ ObjOf(h)' = "down"
  \/ CallOf(h) # "none" /\ CallOf(h)' = CallOf(h) /\ ObjOf(h)' = "absent"
  \/ CallOf(h) \in {"idle", "dead"} /\ CallOf(h)' = "none" /\ ObjOf(h)' = "absent"

LEMMA CallMoves ==
  ASSUME NEW h \in Holders, \A g \in Holders \ {h} : Same(g), Moved(h)
  PROVE  Calls!Next \/ UNCHANGED Calls!vars
<1> DEFINE C == CallFunction
           O == ObjFunction
<1>1. /\ C[h] = CallOf(h) /\ O[h] = ObjOf(h)
      /\ C' = [C EXCEPT ![h] = CallOf(h)'] /\ O' = [O EXCEPT ![h] = ObjOf(h)']
      /\ CallOf(h)' = CallOf(h) => C' = C
      /\ ObjOf(h)' = ObjOf(h) => O' = O
  BY DEF CallFunction, ObjFunction, Same
<1> HIDE DEF C, O
<1> DEFINE c == CallOf(h)
           o == ObjOf(h)
<1>2. c = CallOf(h) /\ o = ObjOf(h) /\ c' = CallOf(h)' /\ o' = ObjOf(h)'
  OBVIOUS
<1> HIDE DEF c, o
<1> USE DEF C, O, CallFunction, ObjFunction, Calls!Next, Calls!Calls
<1>3. CASE Same(h)
  BY <1>1, <1>3 DEF Same, Calls!vars
<1>4. CASE c = "none" /\ o = "absent" /\ c' = "idle" /\ o' = "up"
  BY <1>1, <1>2, <1>4 DEF Calls!Provide
<1>5. CASE c = "idle" /\ c' = "run" /\ o' = o
  BY <1>1, <1>2, <1>5 DEF Calls!Run
<1>6. CASE c = "run" /\ c' = "check" /\ o' = o
  BY <1>1, <1>2, <1>6 DEF Calls!Finish
<1>7. CASE c = "check" /\ ((c' = "idle" /\ o = "up") \/ c' = "dead") /\ o' = o
  BY <1>1, <1>2, <1>7 DEF Calls!Judge
<1>8. CASE c' = c /\ o = "up" /\ o' = "down"
  BY <1>1, <1>2, <1>8 DEF Calls!Die
<1>9. CASE c # "none" /\ c' = c /\ o' = "absent"
  BY <1>1, <1>2, <1>9 DEF Calls!Close
<1>10. CASE c \in {"idle", "dead"} /\ c' = "none" /\ o' = "absent"
  BY <1>1, <1>2, <1>10 DEF Calls!Discard
<1> QED BY <1>2, <1>3, <1>4, <1>5, <1>6, <1>7, <1>8, <1>9, <1>10 DEF Moved

\* Nothing changes for any holder.
LEMMA NoneMoves ==
  ASSUME \A g \in Holders : Same(g) PROVE UNCHANGED Calls!vars
BY DEF Same, Calls!vars

-----------------------------------------------------------------------------
\* What the mapping says of a state.
Views ==
  \A h \in Holders :
    /\ Fresh(h) \/ impl[h] = "nil" => CallOf(h) = "none" /\ ObjOf(h) = "absent"
    /\ InStage("exec", h) => CallOf(h) = "run"
    /\ InStage("check", h) => CallOf(h) = "check"
    /\ ~InStage("exec", h) /\ ~InStage("check", h) /\ ~Fresh(h) /\ impl[h] # "nil" =>
         CallOf(h) = IF h \in dead THEN "dead" ELSE "idle"
    /\ InStage("exec", h) \/ InStage("check", h) =>
         ~Fresh(h) /\ impl[h] # "nil" /\ h \notin dead

LEMMA ViewsNow == ProtocolInv => Views
<1> SUFFICES ASSUME ProtocolInv, NEW h \in Holders
             PROVE  /\ Fresh(h) \/ impl[h] = "nil" => CallOf(h) = "none" /\ ObjOf(h) = "absent"
                    /\ InStage("exec", h) => CallOf(h) = "run"
                    /\ InStage("check", h) => CallOf(h) = "check"
                    /\ ~InStage("exec", h) /\ ~InStage("check", h) /\ ~Fresh(h)
                         /\ impl[h] # "nil" => CallOf(h) = IF h \in dead THEN "dead" ELSE "idle"
                    /\ InStage("exec", h) \/ InStage("check", h) =>
                         ~Fresh(h) /\ impl[h] # "nil" /\ h \notin dead
  BY DEF Views
<1>a. SafeInv /\ NoLeak /\ NilOK /\ DeadOK
      /\ impl \in [Holders -> {"nil", "up", "down", "closed"}]
      /\ \A q, r \in Runs : Owns(q) /\ Owns(r) /\ held[q] = held[r] => q = r
  BY LeaseFacts DEF ProtocolInv, HygieneInv, SlotInv, SafeInv, TypeOK
<1>1. ASSUME Fresh(h) PROVE impl[h] \in {"nil", "closed"} /\ \A r \in Runs : held[r] # h
  BY <1>a, <1>1 DEF Fresh, NoLeak
<1>2. ASSUME NEW r \in Runs, pc[r] \in {"exec", "check"}, held[r] = h
      PROVE  ~Fresh(h) /\ impl[h] # "nil" /\ h \notin dead
  <2>1. Owns(r) /\ Leases(r, h)
    BY <1>2, StageNames DEF Owns, Leases
  <2> QED BY <1>a, <1>2, <2>1 DEF NilOK, DeadOK, Fresh
<1>3. InStage("exec", h) \/ InStage("check", h) => ~Fresh(h) /\ impl[h] # "nil" /\ h \notin dead
  BY <1>2 DEF InStage
<1>4. ~(InStage("exec", h) /\ InStage("check", h))
  BY <1>a, StageNames DEF InStage, Owns
<1> QED BY <1>1, <1>3, <1>4 DEF CallOf, ObjOf

\* The same of the state after a step.
LEMMA ViewsNext == ProtocolInv' => Views'
BY ViewsNow, PTL

\* What a holder's view depends on.
SameStages(g) == /\ InStage("exec", g)' <=> InStage("exec", g)
                 /\ InStage("check", g)' <=> InStage("check", g)

Untouched(g) ==
  /\ SameStages(g) /\ impl'[g] = impl[g] /\ (g \in dead' <=> g \in dead)
  /\ Fresh(g)' <=> Fresh(g)

LEMMA UntouchedSame ==
  ASSUME NEW g \in Holders, Untouched(g) PROVE Same(g)
BY DEF Untouched, SameStages, Same, CallOf, ObjOf

\* A holder that somebody stops to refer to, or closes and stops to refer to,
\* is closed for PoolImpl, discarded, or as before.
LEMMA LeftBehind ==
  ASSUME ProtocolInv, ProtocolInv', NEW h \in Holders, ~Fresh(h), SameStages(h), dead' = dead,
         impl'[h] = impl[h] \/ (impl[h] # "nil" /\ impl'[h] = "closed")
  PROVE  Moved(h)
<1>a. Views /\ Views'
  BY ViewsNow, ViewsNext
<1>1. CASE impl[h] = "nil"
  BY <1>1, <1>a DEF Views, Moved, Same
<1>2. CASE impl[h] # "nil" /\ Fresh(h)'
  <2>1. CallOf(h)' = "none" /\ ObjOf(h)' = "absent"
    BY <1>2, <1>a DEF Views
  <2>2. CallOf(h) \in {"idle", "dead"}
    BY <1>2, <1>a DEF Views, SameStages
  <2> QED BY <2>1, <2>2 DEF Moved
<1>3. CASE impl[h] # "nil" /\ ~Fresh(h)'
  <2>1. CallOf(h)' = CallOf(h) /\ CallOf(h) # "none"
    BY <1>3, <1>a DEF Views, SameStages
  <2>2. ObjOf(h)' = ObjOf(h) \/ ObjOf(h)' = "absent"
    BY DEF ObjOf
  <2> QED BY <2>1, <2>2 DEF Moved, Same
<1> QED BY <1>1, <1>2, <1>3
-----------------------------------------------------------------------------
\* What the steps of one run change.
MovesRun(r, s) ==
  /\ pc' = [pc EXCEPT ![r] = s]
  /\ held' = held \/ \E k : held' = [held EXCEPT ![r] = k]

\* Whose stage does not concern a holder.
LEMMA StagesKept ==
  ASSUME RunsTyped, NEW r \in Runs, NEW s, MovesRun(r, s), NEW g,
         held[r] # g \/ pc[r] \notin {"exec", "check"},
         held'[r] # g \/ s \notin {"exec", "check"}
  PROVE  SameStages(g)
<1>1. \A q \in Runs \ {r} : pc'[q] = pc[q] /\ held'[q] = held[q]
  BY DEF MovesRun, RunsTyped
<1>2. pc'[r] = s
  BY DEF MovesRun, RunsTyped
<1> QED BY <1>1, <1>2 DEF SameStages, InStage

\* A step of a run leaves the holders alone that it has nothing to do with.
LEMMA RunLeaves ==
  ASSUME RunsTyped, NEW r \in Runs, NEW s, MovesRun(r, s),
         UNCHANGED <<doomed, rheld, nheld>>,
         NEW g \in Holders, held[r] # g, held'[r] # g,
         impl'[g] = impl[g], g \in dead' <=> g \in dead, g \in all' <=> g \in all,
         g \in Queued' <=> g \in Queued
  PROVE  Same(g)
<1>1. SameStages(g)
  BY StagesKept
<1>2. \A q \in Runs : held'[q] = g <=> held[q] = g
  BY DEF MovesRun, RunsTyped
<1>3. Fresh(g)' <=> Fresh(g)
  BY <1>2 DEF Fresh
<1> QED BY <1>1, <1>3, UntouchedSame DEF Untouched

\* The sender's own move is between stages of no concern to any holder.
NoCalls(stages) ==
  \A q \in Runs : \/ stages[q] = pc[q]
                  \/ stages[q] \notin {"exec", "check"} /\ pc[q] \notin {"exec", "check"}

\* So does a send for every holder: the one that is sent is known before and
\* after.
LEMMA SendLeaves ==
  ASSUME SafeInv, NEW h \in Holders, h \notin Queued, ~Fresh(h),
         NEW stages \in [Runs -> Stages], Send(h, stages),
         UNCHANGED <<all, doomed, impl, dead>>,
         rheld' = rheld \/ (rheld = h /\ rheld' = NoHolder),
         nheld' = nheld \/ (nheld = h /\ nheld' = NoHolder),
         NoCalls(stages)
  PROVE  \A g \in Holders : Same(g)
<1>a. RunsTyped /\ HeldOK
  BY LeaseFacts
<1>b. NoHolder \notin Holders
  BY PoolAssumption
<1>1. \A q \in Runs : /\ stages[q] = "exec" <=> pc[q] = "exec"
                      /\ stages[q] = "check" <=> pc[q] = "check"
  BY DEF NoCalls
<1>2. CASE Queued' = Queued \cup {h} /\ pc' = stages /\ held' = held
  <2> SUFFICES ASSUME NEW g \in Holders PROVE Untouched(g)
    BY UntouchedSame
  <2>1. SameStages(g)
    BY <1>1, <1>2 DEF SameStages, InStage
  <2>2. Fresh(g)' <=> Fresh(g)
    <3>1. CASE g = h
      BY <1>2, <3>1 DEF Fresh
    <3>2. CASE g # h
      BY <1>b, <1>2, <3>2 DEF Fresh
    <3> QED BY <3>1, <3>2
  <2> QED BY <2>1, <2>2 DEF Untouched
<1>3. ASSUME NEW w \in Runs, pc[w] = "parked", idle' = idle,
             pc' = [stages EXCEPT ![w] = "lock"], held' = [held EXCEPT ![w] = h]
      PROVE  \A g \in Holders : Same(g)
  <2> SUFFICES ASSUME NEW g \in Holders PROVE Untouched(g)
    BY UntouchedSame
  <2>a. held[w] = NoHolder /\ Queued' = Queued /\ held'[w] = h
    BY <1>a, <1>3, StageNames DEF HeldOK, Holding, Queued, RunsTyped
  <2>b. \A q \in Runs \ {w} : pc'[q] = stages[q] /\ held'[q] = held[q]
    BY <1>a, <1>3 DEF RunsTyped
  <2>c. pc'[w] = "lock"
    BY <1>3
  <2>1. SameStages(g)
    BY <1>1, <1>3, <2>b, <2>c DEF SameStages, InStage
  <2>2. Fresh(g)' <=> Fresh(g)
    <3>1. CASE g = h
      BY <2>a, <3>1 DEF Fresh
    <3>2. CASE g # h
      <4>1. \A q \in Runs : held'[q] = g <=> held[q] = g
        BY <1>b, <2>a, <2>b, <3>2
      <4> QED BY <1>b, <2>a, <3>2, <4>1 DEF Fresh
    <3> QED BY <3>1, <3>2
  <2> QED BY <1>3, <2>1, <2>2 DEF Untouched
<1> QED BY <1>2, <1>3, SendMoves

\* A receive makes a queued holder the receiver's.
LEMMA ReceiveLeaves ==
  ASSUME SafeInv, NEW r \in Runs, pc[r] \in {"ready", "wait"}, Receive(r),
         UNCHANGED <<all, doomed, impl, dead, rheld, nheld>>
  PROVE  \A g \in Holders : Same(g)
<1>a. RunsTyped /\ HeldOK
  BY LeaseFacts
<1>1. PICK h \in Holders : /\ h \in Queued /\ Queued' = Queued \ {h}
                           /\ held' = [held EXCEPT ![r] = h]
                           /\ pc' = [pc EXCEPT ![r] = "lock"]
  BY ReceiveMoves
<1>2. held[r] = NoHolder /\ held'[r] = h /\ MovesRun(r, "lock")
  BY <1>a, <1>1, StageNames DEF HeldOK, Holding, RunsTyped, MovesRun
<1>3. \A g \in Holders \ {h} : Same(g)
  BY <1>a, <1>1, <1>2, RunLeaves, PoolAssumption
<1>4. SameStages(h)
  BY <1>a, <1>2, StagesKept
<1>5. ~Fresh(h) /\ ~Fresh(h)'
  BY <1>1, <1>2 DEF Fresh
<1>6. Same(h)
  BY <1>4, <1>5, UntouchedSame DEF Untouched
<1> QED BY <1>3, <1>6

-----------------------------------------------------------------------------
\* The pool's step is a step of PoolImpl, or none of it.
Follows == Calls!Next \/ UNCHANGED Calls!vars

\* A run's move between stages of no concern to its holder.
LEMMA StageFollows ==
  ASSUME RunsTyped, NEW r \in Runs, NEW s, Goto(r, s), s \notin {"exec", "check"},
         pc[r] \notin {"exec", "check"},
         UNCHANGED <<held, all, idle, doomed, impl, dead, rheld, nheld>>
  PROVE  Follows
<1> SUFFICES ASSUME NEW g \in Holders PROVE Untouched(g)
  BY UntouchedSame, NoneMoves DEF Follows
<1>1. MovesRun(r, s)
  BY DEF MovesRun, Goto
<1>2. SameStages(g)
  BY <1>1, StagesKept
<1>3. Fresh(g)' <=> Fresh(g)
  BY DEF Fresh, Queued
<1> QED BY <1>2, <1>3 DEF Untouched

\* A run's step with its holder h leaves all others alone.
LEMMA RunFollows ==
  ASSUME RunsTyped, NEW r \in Runs, NEW s, MovesRun(r, s),
         NEW h \in Holders, held[r] \in {h, NoHolder}, held'[r] \in {h, NoHolder},
         UNCHANGED <<doomed, idle, rheld, nheld>>,
         all' \in {all, all \cup {h}, all \ {h}}, dead' \in {dead, dead \cup {h}, dead \ {h}},
         \A g \in Holders \ {h} : impl'[g] = impl[g],
         Moved(h)
  PROVE  Follows
<1>1. ASSUME NEW g \in Holders \ {h} PROVE Same(g)
  <2>1. held[r] # g /\ held'[r] # g
    BY PoolAssumption
  <2>2. g \in all' <=> g \in all
    OBVIOUS
  <2>3. g \in dead' <=> g \in dead
    OBVIOUS
  <2>4. g \in Queued' <=> g \in Queued
    BY DEF Queued
  <2> QED BY <2>1, <2>2, <2>3, <2>4, RunLeaves
<1> QED BY <1>1, CallMoves DEF Follows

\* What is known of a run and its holder before its step.
LEMMA RunFacts ==
  ASSUME ProtocolInv
  PROVE  /\ SafeInv /\ RunsTyped /\ HeldOK /\ DeadOK /\ NilOK /\ SlotsEmpty
         /\ impl \in [Holders -> {"nil", "up", "down", "closed"}] /\ NoHolder \notin Holders
         /\ \A q \in Runs : Owns(q) => held[q] \in Holders /\ held[q] \notin Avail
         /\ \A q \in Runs : pc[q] \in Holding => held[q] \in Holders
         /\ \A q \in Runs : pc[q] \in Holding => ~Fresh(held[q])
         /\ \A q \in Runs : pc[q] \notin Holding => held[q] = NoHolder
BY LeaseFacts, HeldInHolders, PoolAssumption
   DEF ProtocolInv, HygieneInv, SlotInv, SafeInv, TypeOK, HeldOK, Fresh

\* acquire (pool.go:153-200): a slot is reserved, and filled when newImpl
\* returns.
LEMMA AcquireFollows ==
  ASSUME ProtocolInv, ProtocolInv', NEW r \in Runs,
         Call(r) \/ Reserve(r) \/ Build(r) \/ Unreserve(r) \/ Wait(r) \/ GiveUp(r)
  PROVE  Follows
<1> USE DEF At, NewAt, poolVars, holderVars, reaperVars, closeVars, newVars, others
<1>a. /\ SafeInv /\ RunsTyped /\ HeldOK /\ DeadOK /\ SlotsEmpty
      /\ impl \in [Holders -> {"nil", "up", "down", "closed"}]
      /\ \A q \in Runs : Owns(q) => held[q] \in Holders
      /\ \A q \in Runs : pc[q] \notin Holding => held[q] = NoHolder
  BY RunFacts
<1>b. Views /\ Views'
  BY ViewsNow, ViewsNext
<1>1. CASE Call(r) \/ Wait(r) \/ GiveUp(r)
  <2>1. CASE Receive(r) /\ ~GiveUp(r)
    <3>1. /\ pc[r] \in {"ready", "wait"}
          /\ UNCHANGED <<all, doomed, impl, dead, rheld, nheld>>
      BY <1>1, <2>1 DEF Call, Wait
    <3>2. \A g \in Holders : Same(g)
      BY <1>a, <2>1, <3>1, ReceiveLeaves
    <3> QED BY <3>2, NoneMoves DEF Follows
  <2>2. CASE ~Receive(r) \/ GiveUp(r)
    <3>1. PICK s \in {"ready", "reserve", "parked"} : Goto(r, s)
      BY <1>1, <2>2 DEF Call, Wait, GiveUp
    <3>2. UNCHANGED <<held, all, idle, doomed, impl, dead, rheld, nheld>>
      BY <1>1, <2>2 DEF Call, Wait, GiveUp
    <3>3. pc[r] \in {"ready", "wait", "parked"}
      BY <1>1 DEF Call, Wait, GiveUp
    <3> QED BY <1>a, <3>1, <3>2, <3>3, StageFollows
  <2> QED BY <2>1, <2>2
<1>2. ASSUME Reserve(r), NEW h \in Holders, Fresh(h), ReserveSlot(r, h) PROVE Follows
  <2>1. held[r] = NoHolder
    BY <1>a, <1>2, StageNames DEF Reserve, Holding
  <2>2. MovesRun(r, "build") /\ held'[r] = h
    BY <1>a, <1>2 DEF ReserveSlot, MovesRun, Goto, RunsTyped
  <2>3. impl'[h] = "nil" /\ \A g \in Holders \ {h} : impl'[g] = impl[g]
    BY <1>a, <1>2 DEF ReserveSlot
  <2>4. Moved(h)
    BY <1>b, <1>2, <2>3 DEF Views, Moved, Same
  <2>5. /\ UNCHANGED <<doomed, idle, rheld, nheld>>
        /\ all' = all \cup {h} /\ dead' = dead \ {h}
    BY <1>2 DEF Reserve, ReserveSlot
  <2> QED BY <1>a, <2>1, <2>2, <2>3, <2>4, <2>5, RunFollows
<1>3. CASE Reserve(r) /\ ~\E h \in Holders : Fresh(h) /\ ReserveSlot(r, h)
  <2>1. PICK s \in {"ready", "wait"} : Goto(r, s)
    BY <1>3 DEF Reserve
  <2>2. /\ UNCHANGED <<held, all, idle, doomed, impl, dead, rheld, nheld>>
        /\ pc[r] = "reserve"
    BY <1>3 DEF Reserve
  <2> QED BY <1>a, <2>1, <2>2, StageFollows
<1>4. CASE Build(r) /\ Goto(r, "unreserve") /\ UNCHANGED impl
  <2>1. /\ UNCHANGED <<held, all, idle, doomed, impl, dead, rheld, nheld>>
        /\ pc[r] = "build"
    BY <1>4 DEF Build
  <2> QED BY <1>4, <1>a, <2>1, StageFollows
<1>5. CASE Build(r) /\ Goto(r, "lock") /\ impl' = [impl EXCEPT ![held[r]] = "up"]
  <2>1. /\ UNCHANGED <<held, all, idle, doomed, dead, rheld, nheld>>
        /\ pc[r] = "build" /\ Owns(r)
    BY <1>5, StageNames DEF Build, Owns
  <2>2. PICK h \in Holders : h = held[r]
    BY <1>a, <2>1
  <2>3. impl[h] = "nil" /\ impl'[h] = "up" /\ \A g \in Holders \ {h} : impl'[g] = impl[g]
    BY <1>5, <1>a, <2>1, <2>2 DEF SlotsEmpty
  <2>4. MovesRun(r, "lock") /\ held'[r] = h
    BY <1>5, <2>1, <2>2 DEF MovesRun, Goto
  <2>5. ~Fresh(h)'
    BY <2>4 DEF Fresh
  <2>6. h \notin dead'
    BY <1>a, <2>1, <2>2 DEF DeadOK, Leases
  <2>7. ~InStage("exec", h)' /\ ~InStage("check", h)'
    <3>1. SameStages(h)
      BY <1>a, <2>1, <2>4, StagesKept
    <3> QED BY <1>b, <2>3, <3>1 DEF Views, SameStages
  <2>8. CallOf(h) = "none" /\ ObjOf(h) = "absent"
    BY <1>b, <2>3 DEF Views
  <2>9. CallOf(h)' = "idle"
    BY <1>b, <2>3, <2>5, <2>6, <2>7 DEF Views
  <2>10. ObjOf(h)' = "up"
    BY <2>3 DEF ObjOf
  <2>11. Moved(h)
    BY <2>8, <2>9, <2>10 DEF Moved
  <2> QED BY <1>a, <2>1, <2>2, <2>3, <2>4, <2>11, RunFollows
<1>6. CASE Unreserve(r)
  <2>1. /\ UNCHANGED <<idle, doomed, impl, dead, rheld, nheld>>
        /\ pc[r] = "unreserve" /\ Owns(r) /\ Return(r) /\ all' = all \ {held[r]}
    BY <1>6, StageNames DEF Unreserve, Unregistered, Owns
  <2>2. PICK h \in Holders : h = held[r]
    BY <1>a, <2>1
  <2>3. impl[h] = "nil" /\ impl'[h] = "nil"
    BY <1>a, <2>1, <2>2 DEF SlotsEmpty
  <2>4. MovesRun(r, "ready") /\ held'[r] = NoHolder
    BY <1>a, <2>1 DEF MovesRun, Return, Goto, RunsTyped
  <2>5. Moved(h)
    BY <1>b, <2>3 DEF Views, Moved, Same
  <2> QED BY <1>a, <2>1, <2>2, <2>4, <2>5, RunFollows
<1> QED BY <1>1, <1>2, <1>3, <1>4, <1>5, <1>6 DEF Build

\* Pool.Run's calls of the holder's methods (pool.go:241-252).
LEMMA MethodsFollow ==
  ASSUME ProtocolInv, ProtocolInv', NEW r \in Runs, Lock(r) \/ Exec(r) \/ Check(r)
  PROVE  Follows
<1> USE DEF At, poolVars, holderVars, reaperVars, closeVars, newVars, others
<1>a. /\ SafeInv /\ RunsTyped /\ DeadOK /\ NilOK
      /\ impl \in [Holders -> {"nil", "up", "down", "closed"}]
      /\ \A q \in Runs : Owns(q) => held[q] \in Holders
      /\ \A q \in Runs : pc[q] \in Holding => ~Fresh(held[q])
      /\ \A p, q \in Runs : Owns(p) /\ Owns(q) /\ held[p] = held[q] => p = q
  BY RunFacts, LeaseFacts
<1>b. Views /\ Views'
  BY ViewsNow, ViewsNext
<1>c. PICK s \in {"drop", "exec", "check", "release"} : Goto(r, s)
  BY DEF Lock, Exec, Check, AfterCheck
<1>d. /\ pc[r] \in {"lock", "exec", "check"} /\ Owns(r) /\ pc[r] \in Holding
      /\ UNCHANGED <<held, all, idle, doomed, rheld, nheld, impl>>
  BY StageNames DEF Lock, Exec, Check, Owns, Holding
<1>e. PICK h \in Holders : h = held[r]
  BY <1>a, <1>d
<1>f. /\ MovesRun(r, s) /\ held'[r] = h /\ pc'[r] = s
      /\ dead' \in {dead, dead \cup {h}}
  BY <1>a, <1>c, <1>d, <1>e DEF MovesRun, Goto, RunsTyped, Lock, Exec, Check
<1>g. ~Fresh(h) /\ ~Fresh(h)' /\ impl[h] # "nil" /\ impl'[h] = impl[h] /\ ObjOf(h)' = ObjOf(h)
  BY <1>a, <1>d, <1>e, <1>f DEF NilOK, ObjOf, Fresh
<1>h. \A t \in {"exec", "check"} : (InStage(t, h) <=> pc[r] = t) /\ (InStage(t, h)' <=> s = t)
  <2>1. \A q \in Runs \ {r} : pc'[q] = pc[q] /\ held'[q] = held[q]
    BY <1>a, <1>f DEF MovesRun, RunsTyped
  <2>2. \A q \in Runs \ {r} : held[q] = h => pc[q] \notin {"exec", "check"}
    BY <1>a, <1>d, <1>e, StageNames DEF Owns
  <2> QED BY <1>e, <1>f, <2>1, <2>2 DEF InStage
<1>1. Moved(h)
  <2>1. CASE Lock(r) /\ s = "drop"
    <3>1. h \in dead /\ dead' = dead /\ pc[r] = "lock"
      BY <1>a, <1>c, <1>e, <1>f, <2>1 DEF Lock, Goto, RunsTyped
    <3>2. CallOf(h) = "dead" /\ CallOf(h)' = "dead"
      BY <1>b, <1>g, <1>h, <2>1, <3>1 DEF Views
    <3> QED BY <1>g, <3>2 DEF Moved, Same
  <2>2. CASE Lock(r) /\ s = "exec"
    <3>1. h \notin dead /\ pc[r] = "lock"
      BY <1>a, <1>c, <1>e, <1>f, <2>2 DEF Lock, Goto, RunsTyped
    <3>2. CallOf(h) = "idle" /\ CallOf(h)' = "run"
      BY <1>b, <1>g, <1>h, <2>2, <3>1 DEF Views
    <3> QED BY <1>g, <3>2 DEF Moved
  <2>3. CASE Exec(r)
    <3>1. pc[r] = "exec" /\ s = "check"
      BY <1>a, <1>f, <2>3 DEF Exec, Goto, RunsTyped
    <3>2. CallOf(h) = "run" /\ CallOf(h)' = "check"
      BY <1>b, <1>h, <3>1 DEF Views
    <3> QED BY <1>g, <3>2 DEF Moved
  <2>4. CASE Check(r)
    <3>1. PICK alive \in Verdicts(h) : /\ pc[r] = "check" /\ s = AfterCheck(alive)
                                       /\ dead' = IF alive THEN dead ELSE dead \cup {h}
      BY <1>a, <1>e, <1>f, <2>4 DEF Check, Goto, RunsTyped
    <3>2. CallOf(h) = "check" /\ h \notin dead
      BY <1>b, <1>h, <3>1 DEF Views
    <3>3. CASE alive
      <4>1. impl[h] = "up" /\ CallOf(h)' = "idle"
        BY <1>b, <1>g, <1>h, <3>1, <3>2, <3>3 DEF Views, Verdicts, AfterCheck
      <4>2. ObjOf(h) = "up"
        BY <4>1 DEF ObjOf
      <4> QED BY <1>g, <3>2, <4>1, <4>2 DEF Moved
    <3>4. CASE ~alive
      <4>1. CallOf(h)' = "dead"
        BY <1>b, <1>g, <1>h, <3>1, <3>4 DEF Views, AfterCheck
      <4> QED BY <1>g, <3>2, <4>1 DEF Moved
    <3> QED BY <3>3, <3>4
  <2>5. Lock(r) => s \in {"drop", "exec"}
    BY <1>a, <1>f DEF Lock, Goto, RunsTyped
  <2> QED BY <2>1, <2>2, <2>3, <2>4, <2>5
<1> QED BY <1>a, <1>d, <1>e, <1>f, <1>1, RunFollows

\* release and drop (pool.go:203-232), and the end of Pool.Run.
LEMMA ReturnFollows ==
  ASSUME ProtocolInv, ProtocolInv', NEW r \in Runs,
         Drop(r) \/ Release(r) \/ Put(r) \/ TearDown(r) \/ Unlock(r)
  PROVE  Follows
<1> USE DEF At, poolVars, holderVars, reaperVars, closeVars, newVars, others
<1>a. /\ SafeInv /\ RunsTyped /\ NilOK
      /\ impl \in [Holders -> {"nil", "up", "down", "closed"}] /\ NoHolder \notin Holders
      /\ \A q \in Runs : Owns(q) => held[q] \notin Avail
      /\ \A q \in Runs : pc[q] \in Holding => held[q] \in Holders
      /\ \A q \in Runs : pc[q] \in Holding => ~Fresh(held[q])
  BY RunFacts
<1>b. /\ pc[r] \in {"drop", "release", "put", "teardown", "unlock"} /\ pc[r] \in Holding
      /\ dead' = dead /\ UNCHANGED <<doomed, rheld, nheld>>
  BY StageNames DEF Drop, Release, Put, TearDown, Unlock, Holding
<1>c. PICK h \in Holders : h = held[r]
  BY <1>a, <1>b
<1>1. CASE Put(r)
  <2>1. /\ [pc EXCEPT ![r] = "unlock"] \in [Runs -> Stages]
        /\ \A q \in Runs : \/ [pc EXCEPT ![r] = "unlock"][q] = pc[q]
                           \/ /\ [pc EXCEPT ![r] = "unlock"][q] \notin {"exec", "check"}
                              /\ pc[q] \notin {"exec", "check"}
    BY <1>a, <1>b, StageNames DEF RunsTyped
  <2>2. /\ Send(h, [pc EXCEPT ![r] = "unlock"]) /\ h \notin Queued /\ ~Fresh(h)
        /\ UNCHANGED <<all, doomed, impl, dead, rheld, nheld>>
    <3>1. Owns(r)
      BY <1>1, StageNames DEF Put, Owns
    <3> QED BY <1>a, <1>b, <1>c, <1>1, <3>1 DEF Put, Avail
  <2>3. PICK stages \in [Runs -> Stages] : stages = [pc EXCEPT ![r] = "unlock"]
    BY <2>1
  <2>4. \A g \in Holders : Same(g)
    <3>1. Send(h, stages) /\ NoCalls(stages)
      BY <2>1, <2>2, <2>3 DEF NoCalls
    <3> QED BY <1>a, <2>2, <3>1, SendLeaves
  <2> QED BY <2>4, NoneMoves DEF Follows
<1>2. CASE ~Put(r)
  <2>1. PICK s \in {"teardown", "ready", "put"} : /\ MovesRun(r, s)
                                                  /\ held'[r] \in {h, NoHolder}
    <3>1. ASSUME Return(r) PROVE MovesRun(r, "ready") /\ held'[r] = NoHolder
      BY <1>a, <3>1 DEF Return, Goto, MovesRun, RunsTyped
    <3>2. ASSUME NEW s, Goto(r, s), held' = held PROVE MovesRun(r, s) /\ held'[r] = h
      BY <1>c, <3>2 DEF Goto, MovesRun
    <3>3. \/ Return(r)
          \/ held' = held /\ (Goto(r, "teardown") \/ Goto(r, "put"))
      BY <1>2 DEF Drop, Release, TearDown, Unlock
    <3> QED BY <3>1, <3>2, <3>3
  <2>2. /\ idle' = idle /\ all' \in {all, all \ {h}}
        /\ impl' = impl \/ (pc[r] = "teardown" /\ impl' = [impl EXCEPT ![h] = "closed"])
    BY <1>c, <1>2 DEF Drop, Release, TearDown, Unlock, Unregistered
  <2>3. \/ impl'[h] = impl[h]
        \/ impl[h] # "nil" /\ impl'[h] = "closed"
    <3>1. pc[r] = "teardown" => impl[h] # "nil"
      BY <1>a, <1>c, StageNames DEF NilOK, Owns
    <3> QED BY <1>a, <2>2, <3>1
  <2>4. SameStages(h)
    BY <1>a, <1>b, <2>1, StagesKept
  <2>5. Moved(h)
    BY <1>a, <1>b, <1>c, <2>3, <2>4, LeftBehind
  <2>6. \A g \in Holders \ {h} : impl'[g] = impl[g]
    BY <1>a, <2>2
  <2> QED BY <1>a, <1>b, <1>c, <2>1, <2>2, <2>5, <2>6, RunFollows
<1> QED BY <1>1, <1>2

\* The reaper (pool.go:256-305): only what it closes or forgets moves.
LEMMA ReaperFollows ==
  ASSUME ProtocolInv, ProtocolInv', Tick \/ StopReaper \/ ReapStep
  PROVE  Follows
<1> USE DEF ReaperAt, runVars, poolVars, holderVars, closeVars, newVars
<1>a. /\ SafeInv /\ RunsTyped /\ ChannelTyped /\ Custody /\ Distinct /\ HeldOK /\ NilOK
      /\ impl \in [Holders -> {"nil", "up", "down", "closed"}] /\ NoHolder \notin Holders
  BY RunFacts, LeaseFacts
<1>b. ~PutBack => \A g \in Holders : SameStages(g)
  BY DEF Tick, StopReaper, ReapStep, Count, TakeIdle, Reap, ReapTearDown, SameStages,
         InStage
<1>c. rpc \in {"judge", "teardown"} => rheld \in Holders /\ ~Fresh(rheld)
  BY <1>a, HeldInHolders DEF Fresh
<1>1. CASE Tick \/ StopReaper \/ Count
  <2>1. UNCHANGED <<runVars, all, doomed, idle, rheld, nheld, impl, dead>>
    BY <1>1 DEF Tick, StopReaper, Count
  <2> QED BY <2>1, NoneMoves DEF Follows, Same, CallOf, ObjOf, InStage, Fresh, Queued
<1>2. CASE TakeIdle
  <2> ~PutBack
    BY <1>2 DEF TakeIdle, PutBack
  <2>1. CASE idle = <<>>
    <3>1. UNCHANGED <<runVars, all, doomed, idle, rheld, nheld, impl, dead>>
      BY <1>2, <2>1 DEF TakeIdle
    <3> QED BY <3>1, NoneMoves DEF Follows, Same, CallOf, ObjOf, InStage, Fresh, Queued
  <2>2. CASE idle # <<>>
    <3>1. /\ Head(idle) \in Queued /\ Queued' = Queued \ {Head(idle)} /\ rheld' = Head(idle)
          /\ rheld = NoHolder /\ UNCHANGED <<runVars, all, doomed, nheld, impl, dead>>
      BY <1>2, <1>a, <2>2, QueuedTail DEF TakeIdle, ChannelTyped, HeldOK
    <3>2. \A g \in Holders : Fresh(g)' <=> Fresh(g)
      BY <1>a, <3>1 DEF Fresh
    <3>3. \A g \in Holders : Untouched(g)
      BY <1>b, <3>1, <3>2 DEF Untouched
    <3> QED BY <3>3, UntouchedSame, NoneMoves DEF Follows
  <2> QED BY <2>1, <2>2
<1>3. CASE PutBack
  <2>1. /\ rheld \in Holders /\ rheld \notin Queued /\ ~Fresh(rheld) /\ Send(rheld, pc)
        /\ rheld' = NoHolder /\ UNCHANGED <<all, doomed, nheld, impl, dead>>
    BY <1>3, <1>a, <1>c DEF PutBack, PassEnds, Custody
  <2>2. PICK h \in Holders : h = rheld
    BY <2>1
  <2>3. /\ pc \in [Runs -> Stages] /\ Send(h, pc) /\ h \notin Queued /\ ~Fresh(h)
        /\ NoCalls(pc)
    BY <1>a, <2>1, <2>2 DEF RunsTyped, NoCalls
  <2>4. \A g \in Holders : Same(g)
    BY <1>a, <2>1, <2>2, <2>3, SendLeaves
  <2> QED BY <2>4, NoneMoves DEF Follows
<1>4. CASE Reap \/ ReapTearDown
  <2> ~PutBack
    BY <1>4 DEF Reap, ReapTearDown, PutBack
  <2>1. PICK h \in Holders : h = rheld
    BY <1>4, <1>c DEF Reap, ReapTearDown
  <2>2. /\ ~Fresh(h) /\ impl[h] # "nil" /\ dead' = dead
        /\ rheld' \in {h, NoHolder} /\ UNCHANGED <<runVars, doomed, idle, nheld>>
        /\ all' \in {all, all \ {h}}
        /\ impl' = impl \/ impl' = [impl EXCEPT ![h] = "closed"]
    BY <1>4, <1>a, <1>c, <2>1 DEF Reap, ReapTearDown, Unregistered, NilOK
  <2>3. Moved(h)
    <3>1. impl'[h] = impl[h] \/ impl'[h] = "closed"
      BY <1>a, <2>2
    <3> QED BY <1>b, <2>2, <3>1, LeftBehind
  <2>4. ASSUME NEW g \in Holders \ {h} PROVE Same(g)
    <3>1. Fresh(g)' <=> Fresh(g)
      <4>1. (g \in all' <=> g \in all) /\ g # rheld /\ g # rheld' /\ Queued' = Queued
        BY <1>a, <2>1, <2>2 DEF Queued
      <4> QED BY <2>2, <4>1 DEF Fresh
    <3>2. impl'[g] = impl[g]
      BY <1>a, <2>2
    <3> QED BY <1>b, <2>2, <3>1, <3>2, UntouchedSame DEF Untouched
  <2> QED BY <2>3, <2>4, CallMoves DEF Follows
<1> QED BY <1>1, <1>2, <1>3, <1>4 DEF ReapStep

\* Close (pool.go:310-352): its snapshot refers to all that the pool did, and
\* what it closes it forgets.
LEMMA CloseFollows ==
  ASSUME ProtocolInv, ProtocolInv', CloseBegin \/ CloseStep
  PROVE  Follows
<1> USE DEF runVars, poolVars, holderVars, reaperVars, newVars
<1>a. /\ SafeInv /\ RunsTyped /\ CloseOK /\ DrainOK
      /\ impl \in [Holders -> {"nil", "up", "down", "closed"}]
      /\ doomed \subseteq Holders
  BY RunFacts DEF ProtocolInv, HygieneInv, SlotInv, SafeInv, TypeOK
<1>b. \A g \in Holders : SameStages(g)
  BY DEF CloseBegin, CloseStep, JoinReaper, Snapshot, Drain, CloseOne, CloseReturn, SameStages,
         InStage
<1>c. dead' = dead /\ UNCHANGED <<pc, held, rheld, nheld>>
  BY DEF CloseBegin, CloseStep, JoinReaper, Snapshot, Drain, CloseOne, CloseReturn
<1>d. ASSUME impl' = impl, \A g \in Holders : Fresh(g)' <=> Fresh(g) PROVE Follows
  BY <1>b, <1>c, <1>d, UntouchedSame, NoneMoves DEF Untouched, Follows
<1>1. CASE CloseBegin \/ JoinReaper \/ CloseReturn
  <2>1. UNCHANGED <<all, idle, doomed, impl>>
    BY <1>1 DEF CloseBegin, JoinReaper, CloseReturn
  <2> QED BY <1>c, <1>d, <2>1 DEF Fresh, Queued
<1>2. CASE Snapshot
  <2>1. doomed = {} /\ doomed' = all /\ all' = {} /\ UNCHANGED <<idle, impl>>
    BY <1>2, <1>a DEF Snapshot, CloseOK, BeforeSnapshot
  <2> QED BY <1>c, <1>d, <2>1 DEF Fresh, Queued
<1>3. CASE Drain
  <2>1. Queued \subseteq doomed /\ Queued' = {} /\ UNCHANGED <<all, doomed, impl>>
    BY <1>3, <1>a DEF Drain, DrainOK, InUse, Queued, Range
  <2> QED BY <1>c, <1>d, <2>1 DEF Fresh
<1>4. CASE CloseOne
  <2>1. CASE impl' = impl /\ doomed' = doomed
    BY <1>4, <1>c, <1>d, <2>1 DEF CloseOne, Fresh, Queued
  <2>2. CASE ~(impl' = impl /\ doomed' = doomed)
    <3>1. PICK h \in doomed : /\ impl[h] # "nil" /\ impl' = [impl EXCEPT ![h] = "closed"]
                              /\ doomed' = doomed \ {h}
      BY <1>4, <2>2 DEF CloseOne
    <3>2. h \in Holders /\ ~Fresh(h) /\ impl'[h] = "closed" /\ UNCHANGED <<all, idle>>
      BY <1>4, <1>a, <3>1 DEF CloseOne, Fresh
    <3>3. Moved(h)
      BY <1>b, <1>c, <3>1, <3>2, LeftBehind
    <3>4. ASSUME NEW g \in Holders \ {h} PROVE Same(g)
      <4>1. Fresh(g)' <=> Fresh(g)
        BY <1>c, <3>1, <3>2 DEF Fresh, Queued
      <4>2. impl'[g] = impl[g]
        BY <1>a, <3>1
      <4> QED BY <1>b, <1>c, <4>1, <4>2, UntouchedSame DEF Untouched
    <3> QED BY <3>2, <3>3, <3>4, CallMoves DEF Follows
  <2> QED BY <2>1, <2>2
<1> QED BY <1>1, <1>2, <1>3, <1>4 DEF CloseStep

\* NewPool's holders (pool.go:130-137) are provided when newImpl has made them.
LEMMA NewFollows ==
  ASSUME ProtocolInv, ProtocolInv', NewStep
  PROVE  Follows
<1> USE DEF NewAt, runVars, poolVars, holderVars, reaperVars, closeVars
<1>a. /\ SafeInv /\ RunsTyped /\ ChannelTyped /\ Custody /\ HeldOK /\ Pristine
      /\ impl \in [Holders -> {"nil", "up", "down", "closed"}] /\ NoHolder \notin Holders
  BY RunFacts, LeaseFacts DEF ProtocolInv, HygieneInv
<1>b. Views /\ Views'
  BY ViewsNow, ViewsNext
<1>1. CASE Enqueue
  <2>1. /\ nheld \in Holders /\ nheld \notin Queued /\ ~Fresh(nheld) /\ Send(nheld, pc)
        /\ nheld' = NoHolder /\ UNCHANGED <<all, doomed, rheld, impl, dead>>
    BY <1>1, <1>a, HeldInHolders DEF Enqueue, Custody, Fresh
  <2>2. PICK h \in Holders : h = nheld
    BY <2>1
  <2>3. /\ pc \in [Runs -> Stages] /\ Send(h, pc) /\ h \notin Queued /\ ~Fresh(h)
        /\ NoCalls(pc)
    BY <1>a, <2>1, <2>2 DEF RunsTyped, NoCalls
  <2>4. \A g \in Holders : Same(g)
    BY <1>a, <2>1, <2>2, <2>3, SendLeaves
  <2> QED BY <2>4, NoneMoves DEF Follows
<1>2. CASE CreateHolder
  <2>a. /\ UNCHANGED <<pc, held, doomed, idle, rheld, dead>> /\ nheld = NoHolder /\ dead = {}
        /\ \A g \in Holders : SameStages(g)
    BY <1>2, <1>a DEF CreateHolder, HeldOK, Pristine, SameStages, InStage
  <2>1. CASE UNCHANGED <<impl, all, nheld>>
    BY <2>a, <2>1, NoneMoves DEF Follows, Same, CallOf, ObjOf, InStage, Fresh, Queued
  <2>2. CASE ~UNCHANGED <<impl, all, nheld>>
    <3>1. PICK h \in Holders : /\ Fresh(h) /\ nheld' = h /\ all' = all \cup {h}
                               /\ impl' = [impl EXCEPT ![h] = "up"]
      BY <1>2, <2>2 DEF CreateHolder
    <3>2. Moved(h)
      <4>1. CallOf(h) = "none" /\ ObjOf(h) = "absent" /\ ~InStage("exec", h)
              /\ ~InStage("check", h)
        BY <1>b, <3>1 DEF Views
      <4>2. impl'[h] = "up" /\ ~Fresh(h)'
        BY <1>a, <3>1 DEF Fresh
      <4>3. CallOf(h)' = "idle"
        BY <1>b, <2>a, <4>1, <4>2 DEF Views, SameStages
      <4>4. ObjOf(h)' = "up"
        BY <4>2 DEF ObjOf
      <4> QED BY <4>1, <4>3, <4>4 DEF Moved
    <3>3. ASSUME NEW g \in Holders \ {h} PROVE Same(g)
      <4>1. Fresh(g)' <=> Fresh(g)
        BY <1>a, <2>a, <3>1 DEF Fresh, Queued
      <4>2. impl'[g] = impl[g]
        BY <1>a, <3>1
      <4> QED BY <2>a, <4>1, <4>2, UntouchedSame DEF Untouched
    <3> QED BY <3>2, <3>3, CallMoves DEF Follows
  <2> QED BY <2>1, <2>2
<1> QED BY <1>1, <1>2 DEF NewStep

\* A holder's container or pod ends: nobody's call is affected.
LEMMA DeathFollows ==
  ASSUME ProtocolInv, NEW h \in Holders, HolderDies(h)
  PROVE  Follows
<1>1. /\ impl \in [Holders -> {"nil", "up", "down", "closed"}] /\ impl[h] = "up"
      /\ impl' = [impl EXCEPT ![h] = "down"]
      /\ UNCHANGED <<pc, held, all, doomed, idle, rheld, nheld, dead>>
  BY RunFacts DEF HolderDies, runVars, poolVars, others, reaperVars, closeVars, newVars
<1>2. \A g \in Holders : SameStages(g) /\ (Fresh(g)' <=> Fresh(g))
  BY <1>1 DEF SameStages, InStage, Fresh, Queued
<1>3. Moved(h)
  <2>1. CallOf(h)' = CallOf(h)
    BY <1>1, <1>2 DEF CallOf, SameStages
  <2>2. ObjOf(h) = "up" /\ ObjOf(h)' = "down"
    BY <1>1 DEF ObjOf
  <2> QED BY <2>1, <2>2 DEF Moved
<1>4. \A g \in Holders \ {h} : Same(g)
  BY <1>1, <1>2, UntouchedSame DEF Untouched
<1> QED BY <1>3, <1>4, CallMoves DEF Follows

\* Every step of the pool.
LEMMA PoolFollows ==
  ASSUME ProtocolInv, ProtocolInv', [Next]_vars
  PROVE  Follows
<1>1. CASE Next
  BY <1>1, AcquireFollows, MethodsFollow, ReturnFollows, ReaperFollows, CloseFollows, NewFollows,
     DeathFollows DEF Next, RunStep
<1>2. CASE UNCHANGED vars
  BY <1>2, NoneMoves DEF Follows, Same, CallOf, ObjOf, InStage, Fresh, Queued, vars, runVars,
     poolVars, holderVars, others, reaperVars, closeVars, newVars
<1> QED BY <1>1, <1>2

(***************************************************************************)
(* The pool uses its holders as poolImpl asks (pool.go:23-33): one run in  *)
(* a holder at a time, checkHolder after each, no run in a holder that     *)
(* failed it or that is not built yet, and nobody forgets a holder without *)
(* having closed it.                                                       *)
(***************************************************************************)
THEOREM PoolImplementsPoolImpl == Spec => ImplementsPoolImpl
<1>1. Init => Calls!Init
  BY DEF Init, Calls!Init, CallOf, ObjOf, InStage
<1>2. ProtocolInv /\ ProtocolInv' /\ [Next]_vars => [Calls!Next]_(Calls!vars)
  BY PoolFollows DEF Follows
<1> QED BY <1>1, <1>2, ProtocolInvariant, PTL DEF Spec, ImplementsPoolImpl, Calls!Spec
=============================================================================
