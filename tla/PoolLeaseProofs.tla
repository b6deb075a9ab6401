--------------------------- MODULE PoolLeaseProofs ----------------------------
(***************************************************************************)
(* Proofs that the pool keeps its books and implements HolderLease, for    *)
(* any number of runs and holders and any Min, Max and faults.             *)
(*                                                                         *)
(* The argument has two parts.  FlowStep says what any step does to the    *)
(* holders in use: it leaves them as they are, grants or passes on one,    *)
(* makes one, lets one go, or empties the channel.  From that alone follow *)
(* SlotsAccounted, SendNeverBlocks and the refinement.                     *)
(***************************************************************************)
EXTENDS PoolProofs

\* Run r works with holder h and has not removed it from the pool.
Leases(r, h) == Owns(r) /\ pc[r] # "teardown" /\ held[r] = h
Leasing(r)   == Owns(r) /\ pc[r] # "teardown"

\* The holders nobody leases: queued, with the reaper that judges them, or
\* with NewPool.
Avail ==
  Queued \cup {h \in {rheld} : rpc = "judge"} \cup {h \in {nheld} : npc = "enqueue"}

\* How far Close is and what that means for the others: it begins after NewPool,
\* and has nothing in hand before it has taken the registry.
CloseOK ==
  /\ closed <=> cpc # "open"
  /\ closed => npc \in {"returned", "failed"}
  /\ BeforeSnapshot => doomed = {}

\* The inductive invariant of this module: p.all counts what is in use until
\* Close takes it, and never more than Max holders are in use.
SlotInv ==
  SafeInv /\ CloseOK /\ SlotsAccounted /\ Cardinality(InUse) <= Max

-----------------------------------------------------------------------------
\* What a step may do to the holders in use.

\* Nothing changes for holders other than h.
OthersKept(h) ==
  \A g \in Holders \ {h} : /\ \A r \in Runs : Leases(r, g)' <=> Leases(r, g)
                           /\ g \in Avail' <=> g \in Avail

AllKept ==
  \A g \in Holders : /\ \A r \in Runs : Leases(r, g)' <=> Leases(r, g)
                     /\ g \in Avail' <=> g \in Avail

\* h is now with somebody who had nothing, or free.
Arrives(h) ==
  h \in Avail' \/ \E r \in Runs : ~Leasing(r) /\ Leases(r, h)'

\* A free holder is received by a run, or put (back) into the channel.
Granted(h) == OthersKept(h) /\ h \in Avail /\ Arrives(h) /\ all' = all

\* A run's holder goes to the channel or to a parked run.
Passed(h) ==
  /\ OthersKept(h) /\ Arrives(h) /\ all' = all
  /\ \E r \in Runs : Leases(r, h) /\ pc[r] = "put"

\* acquire or NewPool registers a holder.
Made(h) ==
  /\ OthersKept(h) /\ h \notin InUse /\ Arrives(h)
  /\ ~closed /\ Live < Max /\ all' = all \cup {h}
  /\ h \notin dead' \/ npc = "creating"

\* A run or the reaper removes a holder.
LetGo(h) ==
  /\ OthersKept(h) /\ h \in InUse
  /\ h \notin Avail' /\ \A r \in Runs : ~Leases(r, h)'
  /\ all' = all \ {h}

\* Close takes the registry, or empties the channel.
Taken == cpc = "snapshot" /\ cpc' = "drain" /\ AllKept
Emptied ==
  /\ cpc = "drain" /\ cpc' = "teardown" /\ all' = all
  /\ \A g \in Holders :
       /\ \A r \in Runs : Leases(r, g)' <=> Leases(r, g)
       /\ g \in Avail' <=> g \in Avail /\ g \notin Queued

Flow ==
  \/ AllKept /\ all' = all
  \/ \E h \in Holders : (Granted(h) \/ Passed(h) \/ Made(h) \/ LetGo(h)) /\ closed' = closed
  \/ (Taken \/ Emptied) /\ closed' = closed

-----------------------------------------------------------------------------
\* The facts of SafeInv that the arguments below use.
LEMMA LeaseFacts ==
  ASSUME SafeInv
  PROVE  /\ RunsTyped /\ ChannelTyped /\ Custody /\ Distinct /\ HeldOK
         /\ WaitersOK /\ LiveOK /\ WarmingOK
         /\ Avail \subseteq Holders /\ all \subseteq Holders
         /\ \A r \in Runs : Owns(r) => held[r] \in Holders
         /\ \A r \in Runs : Owns(r) => held[r] \notin Avail
         /\ \A q, r \in Runs : Owns(q) /\ Owns(r) /\ held[q] = held[r] => q = r
<1>1. /\ RunsTyped /\ ChannelTyped /\ Custody /\ Distinct /\ HeldOK
      /\ WaitersOK /\ LiveOK /\ WarmingOK /\ all \subseteq Holders
  BY CustodyFacts DEF SafeInv, TypeOK
<1>2. \A r \in Runs : Owns(r) => held[r] \in Holders
  BY HeldInHolders DEF Owns, Holding
<1>3. Queued \subseteq Holders
  <2>1. \A i \in DOMAIN idle : idle[i] \in Holders
    BY <1>1 DEF ChannelTyped
  <2> QED BY <2>1 DEF Queued, Range
<1>4. Avail \subseteq Holders
  BY <1>3, HeldInHolders DEF Avail
<1>5. \A r \in Runs : Owns(r) => held[r] \notin Avail
  BY <1>1 DEF Custody, Avail
<1>6. \A q, r \in Runs : Owns(q) /\ Owns(r) /\ held[q] = held[r] => q = r
  BY <1>1 DEF Custody
<1> QED BY <1>1, <1>2, <1>4, <1>5, <1>6

\* Who is in use: leased or available.
LEMMA InUseMembers ==
  \A h : h \in InUse <=> h \in Avail \/ \E r \in Runs : Leases(r, h)
BY DEF InUse, Avail, Leases

\* A send on p.idle (pool.go:136, 208, 301): a parked run has the holder next,
\* or the buffer.
LEMMA SendMoves ==
  ASSUME SafeInv, NEW h \in Holders, h \notin Queued,
         NEW stages \in [Runs -> Stages], Send(h, stages)
  PROVE  \/ \E w \in Runs : /\ pc[w] = "parked" /\ idle' = idle
                            /\ pc' = [stages EXCEPT ![w] = "lock"]
                            /\ held' = [held EXCEPT ![w] = h]
         \/ Queued' = Queued \cup {h} /\ pc' = stages /\ held' = held
<1>a. ChannelTyped /\ Distinct /\ WaitersOK
  BY LeaseFacts
<1>1. CASE waitq # <<>>
  <2>1. Head(waitq) \in Runs /\ 1 \in DOMAIN waitq /\ Head(waitq) = waitq[1]
    BY <1>a, <1>1, HeadTail DEF ChannelTyped
  <2>2. pc[Head(waitq)] = "parked"
    BY <1>a, <2>1 DEF WaitersOK
  <2> QED BY <1>1, <2>1, <2>2 DEF Send
<1>2. CASE waitq = <<>>
  BY <1>a, <1>2, QueuedAppend DEF Send, ChannelTyped
<1> QED BY <1>1, <1>2

\* A receive from p.idle (pool.go:160, 189): the head of the buffer.
LEMMA ReceiveMoves ==
  ASSUME SafeInv, NEW r \in Runs, Receive(r)
  PROVE  \E h \in Holders : /\ h \in Queued /\ Queued' = Queued \ {h}
                            /\ held' = [held EXCEPT ![r] = h]
                            /\ pc' = [pc EXCEPT ![r] = "lock"]
<1>a. ChannelTyped /\ Distinct
  BY LeaseFacts
<1>1. idle # <<>> /\ idle' = Tail(idle)
  BY DEF Receive
<1>2. Head(idle) \in Holders /\ Head(idle) \in Queued /\ Queued' = Queued \ {Head(idle)}
  BY <1>a, <1>1, HeadTail, QueuedTail DEF ChannelTyped
<1> QED BY <1>2 DEF Receive

\* A step of one run that only moves it between stages of the same kind, or
\* ends what was over already, changes nothing.
LEMMA KeptByRun ==
  ASSUME SafeInv, NEW r \in Runs, NEW s, Goto(r, s),
         UNCHANGED <<idle, rpc, rheld, npc, nheld>>,
         \/ /\ s \in OwnStages \ {"teardown"} /\ Leasing(r) /\ held' = held
         \/ /\ s \notin OwnStages \ {"teardown"} /\ ~Leasing(r)
            /\ held' \in {held, [held EXCEPT ![r] = NoHolder]}
  PROVE  AllKept
<1>a. RunsTyped
  BY LeaseFacts
<1>1. Queued' = Queued
  BY DEF Queued
<1>2. Avail' = Avail
  BY <1>1 DEF Avail
<1>3. ASSUME NEW g \in Holders, NEW q \in Runs PROVE Leases(q, g)' <=> Leases(q, g)
  BY <1>a DEF Goto, RunsTyped, Leases, Leasing, Owns
<1> QED BY <1>2, <1>3 DEF AllKept

\* A step of a run that gives up its holder for good changes nothing for the
\* others, and nobody has this one any more.
LEMMA LetGoByRun ==
  ASSUME SafeInv, NEW r \in Runs, Leasing(r), UNCHANGED <<idle, rpc, rheld, npc, nheld>>,
         all' = all \ {held[r]},
         Return(r) \/ (Goto(r, "teardown") /\ held' = held)
  PROVE  \E h \in Holders : LetGo(h)
<1>b. PICK h \in Holders : h = held[r]
  BY LeaseFacts DEF Leasing
<1>a. RunsTyped /\ h \in Holders /\ h \notin Avail
      /\ \A q \in Runs : Owns(q) /\ held[q] = h => q = r
  BY <1>b, LeaseFacts DEF Leasing
<1>1. Avail' = Avail
  BY DEF Avail, Queued
<1>2. ~Leases(r, h)' /\ \A g : ~Leases(r, g)'
  BY <1>a, StageNames DEF Return, Goto, RunsTyped, Leases, Owns
<1>3. \A q \in Runs \ {r}, g \in Holders : Leases(q, g)' <=> Leases(q, g)
  BY <1>a DEF Return, Goto, RunsTyped, Leases, Owns
<1>4. \A g \in Holders \ {h} : ~Leases(r, g)
  BY <1>b DEF Leases
<1>5. OthersKept(h)
  BY <1>1, <1>2, <1>3, <1>4 DEF OthersKept
<1>6. \A q \in Runs : ~Leases(q, h)'
  <2>1. \A q \in Runs \ {r} : ~Leases(q, h)
    BY <1>a DEF Leases
  <2> QED BY <1>a, <1>2, <1>3, <2>1
<1>7. h \in InUse
  BY <1>b DEF InUse, Leasing
<1> QED BY <1>a, <1>b, <1>1, <1>5, <1>6, <1>7 DEF LetGo

\* A receive grants a free holder.
LEMMA GrantedByReceive ==
  ASSUME SafeInv, NEW r \in Runs, ~Owns(r), Receive(r),
         UNCHANGED <<all, rpc, rheld, npc, nheld>>
  PROVE  \E h \in Holders : Granted(h)
<1>a. RunsTyped /\ Custody
  BY LeaseFacts
<1>1. PICK h \in Holders : /\ h \in Queued /\ Queued' = Queued \ {h}
                          /\ held' = [held EXCEPT ![r] = h]
                          /\ pc' = [pc EXCEPT ![r] = "lock"]
  BY ReceiveMoves
<1>2. h \in Avail /\ \A g \in Holders \ {h} : g \in Avail' <=> g \in Avail
  BY <1>1 DEF Avail
<1>3. \A q \in Runs, g \in Holders \ {h} : Leases(q, g)' <=> Leases(q, g)
  BY <1>a, <1>1 DEF Leases, Owns, RunsTyped
<1>4. ~Leasing(r) /\ Leases(r, h)'
  BY <1>a, <1>1, StageNames DEF Leasing, Leases, Owns, RunsTyped
<1> QED BY <1>2, <1>3, <1>4 DEF Granted, OthersKept, Arrives

\* A send by a goroutine that has nothing else: to a parked run, who leases h
\* next, or to the buffer, where it is free.
LEMMA SendArrives ==
  ASSUME SafeInv, NEW h \in Holders, h \notin Queued,
         NEW stages \in [Runs -> Stages], Send(h, stages),
         \A q \in Runs : pc[q] = "parked" => stages[q] = "parked",
         \A g \in Holders \ {h} :
           /\ rheld = g /\ rpc = "judge" <=> rheld' = g /\ rpc' = "judge"
           /\ nheld = g /\ npc = "enqueue" <=> nheld' = g /\ npc' = "enqueue",
         \A q \in Runs, g \in Holders \ {h} :
           stages[q] \in OwnStages \ {"teardown"} /\ held[q] = g <=> Leases(q, g)
  PROVE  OthersKept(h) /\ Arrives(h)
<1>a. RunsTyped
  BY LeaseFacts
<1>1. CASE Queued' = Queued \cup {h} /\ pc' = stages /\ held' = held
  <2>1. h \in Avail' /\ \A g \in Holders \ {h} : g \in Avail' <=> g \in Avail
    BY <1>1 DEF Avail
  <2>2. \A q \in Runs, g \in Holders \ {h} : Leases(q, g)' <=> Leases(q, g)
    BY <1>1 DEF Leases, Owns
  <2> QED BY <2>1, <2>2 DEF OthersKept, Arrives
<1>2. ASSUME NEW w \in Runs, pc[w] = "parked", idle' = idle,
             pc' = [stages EXCEPT ![w] = "lock"], held' = [held EXCEPT ![w] = h]
      PROVE  OthersKept(h) /\ Arrives(h)
  <2>1. \A g \in Holders \ {h} : g \in Avail' <=> g \in Avail
    BY <1>2 DEF Avail, Queued
  <2>2. ~Leasing(w) /\ ~Owns(w) /\ Leases(w, h)'
    BY <1>a, <1>2, StageNames DEF Leasing, Leases, Owns, RunsTyped
  <2>3. \A g \in Holders \ {h} : ~Leases(w, g)' /\ ~Leases(w, g)
    BY <1>a, <1>2, <2>2 DEF Leases, RunsTyped
  <2>4. \A q \in Runs \ {w}, g \in Holders \ {h} : Leases(q, g)' <=> Leases(q, g)
    <3>1. \A q \in Runs \ {w} : pc'[q] = stages[q] /\ held'[q] = held[q]
      BY <1>a, <1>2 DEF RunsTyped
    <3>2. \A q \in Runs \ {w}, g \in Holders :
            Leases(q, g)' <=> stages[q] \in OwnStages \ {"teardown"} /\ held[q] = g
      BY <3>1 DEF Leases, Owns
    <3> QED BY <3>2
  <2>5. OthersKept(h)
    BY <2>1, <2>3, <2>4 DEF OthersKept
  <2> QED BY <2>2, <2>5 DEF Arrives
<1> QED BY <1>1, <1>2, SendMoves

\* Reserve and CreateHolder register an identity nobody refers to.
LEMMA FreshUnused ==
  ASSUME SafeInv, NEW h \in Holders, Fresh(h)
  PROVE  h \notin InUse /\ h \notin Avail /\ h \notin all /\ \A r \in Runs : held[r] # h
BY DEF Fresh, InUse, Avail

\* What a step of Pool.Run does to the holders in use.
LEMMA FlowRun ==
  ASSUME SlotInv, NEW r \in Runs, Call(r) \/ RunStep(r) \/ GiveUp(r)
  PROVE  Flow
<1> USE DEF At, ReaperAt, NewAt, poolVars, holderVars, reaperVars, closeVars,
            newVars, others
<1>a. /\ SafeInv /\ RunsTyped /\ ChannelTyped /\ Custody
      /\ \A q \in Runs : Owns(q) => held[q] \in Holders /\ held[q] \notin Avail
      /\ \A q, p \in Runs : Owns(q) /\ Owns(p) /\ held[q] = held[p] => q = p
  BY LeaseFacts DEF SlotInv
<1>1. ASSUME Call(r) \/ Wait(r) \/ GiveUp(r) PROVE Flow
  <2>1. ~Owns(r) /\ ~Leasing(r) /\ UNCHANGED <<all, closed, rpc, rheld, npc, nheld>>
    BY <1>1, StageNames DEF Call, Wait, GiveUp, Owns, Leasing
  <2>2. CASE Receive(r)
    BY <1>a, <2>1, <2>2, GrantedByReceive DEF Flow
  <2>3. CASE ~Receive(r)
    <3>1. UNCHANGED <<held, idle>> /\ \E s \in {"ready", "reserve", "parked"} : Goto(r, s)
      BY <1>1, <2>3 DEF Call, Wait, GiveUp
    <3> QED BY <1>a, <2>1, <3>1, KeptByRun, StageNames DEF Flow
  <2> QED BY <2>2, <2>3
<1>2. ASSUME Reserve(r) PROVE Flow
  <2>1. /\ ~Owns(r) /\ ~Leasing(r)
        /\ UNCHANGED <<idle, closed, rpc, rheld, npc, nheld>>
    BY <1>2, StageNames DEF Reserve, Owns, Leasing
  <2>2. CASE \E h \in Holders : Fresh(h) /\ ReserveSlot(r, h) /\ ~closed /\ HasSlot
    <3>1. PICK h \in Holders : Fresh(h) /\ ReserveSlot(r, h) /\ ~closed /\ HasSlot
      BY <2>2
    <3>2. /\ Goto(r, "build") /\ held' = [held EXCEPT ![r] = h] /\ all' = all \cup {h}
          /\ h \notin dead'
      BY <3>1 DEF ReserveSlot
    <3>3. h \notin InUse
      BY <1>a, <3>1, FreshUnused
    <3>4. Avail' = Avail
      BY <2>1 DEF Avail, Queued
    <3>5. \A q \in Runs, g \in Holders \ {h} : Leases(q, g)' <=> Leases(q, g)
      BY <1>a, <2>1, <3>2 DEF Goto, Leases, Owns, RunsTyped
    <3>6. Leases(r, h)'
      BY <1>a, <3>2, StageNames DEF Goto, Leases, Owns, RunsTyped
    <3>7. Made(h)
      BY <2>1, <3>1, <3>2, <3>3, <3>4, <3>5, <3>6 DEF Made, OthersKept, Arrives, HasSlot
    <3> QED BY <2>1, <3>7 DEF Flow
  <2>3. CASE UNCHANGED <<held, all>> /\ \E s \in {"ready", "wait"} : Goto(r, s)
    BY <1>a, <2>1, <2>3, KeptByRun, StageNames DEF Flow
  <2> QED BY <1>2, <2>2, <2>3 DEF Reserve, Refused
<1>3. ASSUME Build(r) \/ Lock(r) \/ Exec(r) \/ Check(r) \/ (Release(r) /\ ~closed)
      PROVE  Flow
  <2>1. /\ Leasing(r) /\ UNCHANGED <<held, all, idle, closed, rpc, rheld, npc, nheld>>
        /\ \E s \in OwnStages \ {"teardown"} : Goto(r, s)
    BY <1>3, StageNames DEF Build, Lock, Exec, Check, AfterCheck, Release, Leasing, Owns
  <2> QED BY <1>a, <2>1, KeptByRun DEF Flow
<1>4. ASSUME Unreserve(r) \/ Drop(r) \/ (Release(r) /\ closed) PROVE Flow
  <2>1. /\ Leasing(r) /\ UNCHANGED <<idle, closed, rpc, rheld, npc, nheld>>
        /\ all' = all \ {held[r]}
        /\ Return(r) \/ (Goto(r, "teardown") /\ held' = held)
    BY <1>4, StageNames DEF Unreserve, Drop, Release, Unregistered, Leasing, Owns
  <2> QED BY <1>a, <2>1, LetGoByRun DEF Flow
<1>5. ASSUME TearDown(r) \/ Unlock(r) PROVE Flow
  <2>1. /\ ~Leasing(r) /\ UNCHANGED <<all, idle, closed, rpc, rheld, npc, nheld>>
        /\ Goto(r, "ready") /\ held' = [held EXCEPT ![r] = NoHolder]
    BY <1>5, StageNames DEF TearDown, Unlock, Return, Leasing, Owns
  <2> QED BY <1>a, <2>1, KeptByRun, StageNames DEF Flow
<1>6. ASSUME Put(r) PROVE Flow
  <2>0. PICK h \in Holders : h = held[r]
    BY <1>a, <1>6, StageNames DEF Put, Owns
  <2> DEFINE stages == [pc EXCEPT ![r] = "unlock"]
  <2>1. /\ Send(h, stages) /\ UNCHANGED <<all, closed, rpc, rheld, npc, nheld>>
        /\ pc[r] = "put"
    BY <1>6, <2>0 DEF Put
  <2>2. Owns(r) /\ Leases(r, h) /\ h \in Holders /\ h \notin Queued
    BY <1>a, <2>0, <2>1, StageNames DEF Owns, Leases, Avail
  <2>3. stages \in [Runs -> Stages]
    BY <1>a, StageNames DEF RunsTyped
  <2>4. \A q \in Runs : pc[q] = "parked" => stages[q] = "parked"
    BY <1>a, <2>1 DEF RunsTyped
  <2>5. \A q \in Runs, g \in Holders \ {h} :
          stages[q] \in OwnStages \ {"teardown"} /\ held[q] = g <=> Leases(q, g)
    BY <1>a, <2>0, <2>1, StageNames DEF RunsTyped, Leases, Owns
  <2> HIDE DEF stages
  <2>6. OthersKept(h) /\ Arrives(h)
    BY <1>a, <2>1, <2>2, <2>3, <2>4, <2>5, SendArrives
  <2> QED BY <2>1, <2>2, <2>6 DEF Flow, Passed
<1> QED BY <1>1, <1>2, <1>3, <1>4, <1>5, <1>6 DEF RunStep

\* What a step of the reaper, of Close, of NewPool or of the backend does to
\* the holders in use.
LEMMA FlowOthers ==
  ASSUME SlotInv,
         \/ Tick \/ StopReaper \/ ReapStep \/ CloseBegin \/ CloseStep \/ NewStep
         \/ \E h \in Holders : HolderDies(h)
  PROVE  Flow
<1> USE DEF ReaperAt, NewAt, runVars, poolVars, holderVars, reaperVars,
            closeVars, newVars, others
<1>a. /\ SafeInv /\ RunsTyped /\ ChannelTyped /\ Custody /\ HeldOK /\ LiveOK
      /\ WarmingOK /\ CloseOK /\ Distinct
      /\ \A q \in Runs : Owns(q) => held[q] \notin Avail
  BY LeaseFacts DEF SlotInv
<1>b. ASSUME UNCHANGED runVars, \A g \in Holders : g \in Avail' <=> g \in Avail
      PROVE  AllKept
  BY <1>b DEF AllKept, Leases, Owns
<1>1. CASE Tick \/ StopReaper \/ Count \/ ReapTearDown
  <2>1. UNCHANGED <<runVars, all, idle, closed, newVars>> /\ rpc # "judge" /\ rpc' # "judge"
    BY <1>1 DEF Tick, StopReaper, Count, ReapTearDown
  <2>2. AllKept
    BY <1>b, <2>1 DEF Avail, Queued
  <2> QED BY <2>1, <2>2 DEF Flow
<1>2. CASE TakeIdle
  <2>1. UNCHANGED <<runVars, all, closed, newVars>> /\ rpc = "take"
    BY <1>2 DEF TakeIdle
  <2>2. CASE idle # <<>> /\ rpc' = "judge" /\ rheld' = Head(idle) /\ idle' = Tail(idle)
    <3>1. Head(idle) \in Queued /\ Queued' = Queued \ {Head(idle)}
      BY <1>a, <2>2, QueuedTail DEF ChannelTyped
    <3>2. AllKept
      BY <1>b, <2>1, <2>2, <3>1 DEF Avail
    <3> QED BY <2>1, <3>2 DEF Flow
  <2>3. CASE rpc' = "select" /\ idle' = idle
    <3>1. AllKept
      BY <1>b, <2>1, <2>3 DEF Avail, Queued
    <3> QED BY <2>1, <3>1 DEF Flow
  <2> QED BY <1>2, <2>2, <2>3 DEF TakeIdle
<1>3. ASSUME NEW h \in Holders, h \in Avail, h \notin Queued, Send(h, pc),
             \/ rheld = h /\ rpc' = "select" /\ UNCHANGED newVars
             \/ nheld = h /\ npc' \in {"creating", "returned"} /\ UNCHANGED reaperVars,
             UNCHANGED <<all, closed>>
      PROVE  Flow
  <2>1. \A g \in Holders \ {h} :
           /\ rheld = g /\ rpc = "judge" <=> rheld' = g /\ rpc' = "judge"
           /\ nheld = g /\ npc = "enqueue" <=> nheld' = g /\ npc' = "enqueue"
    BY <1>3
  <2>2. \A q \in Runs, g \in Holders \ {h} :
          pc[q] \in OwnStages \ {"teardown"} /\ held[q] = g <=> Leases(q, g)
    BY DEF Leases, Owns
  <2>3. OthersKept(h) /\ Arrives(h)
    BY <1>3, <1>a, <2>1, <2>2, SendArrives DEF RunsTyped
  <2> QED BY <1>3, <2>3 DEF Flow, Granted
<1>4. CASE PutBack
  <2>1. PICK h \in Holders : h = rheld
    BY <1>a, <1>4, HeldInHolders DEF PutBack
  <2>2. h \in Avail /\ h \notin Queued
    BY <1>a, <1>4, <2>1 DEF PutBack, Avail, Custody
  <2> QED BY <1>3, <1>4, <2>1, <2>2 DEF PutBack, PassEnds
<1>5. CASE Enqueue
  <2>1. PICK h \in Holders : h = nheld
    BY <1>a, <1>5, HeldInHolders DEF Enqueue
  <2>2. h \in Avail /\ h \notin Queued
    BY <1>a, <1>5, <2>1 DEF Enqueue, Avail, Custody
  <2> QED BY <1>3, <1>5, <2>1, <2>2 DEF Enqueue
<1>6. CASE Reap
  <2>1. PICK h \in Holders : h = rheld
    BY <1>a, <1>6, HeldInHolders DEF Reap
  <2>2. /\ UNCHANGED <<pc, held, idle, closed, nheld, npc>> /\ rpc = "judge"
        /\ rpc' # "judge" /\ all' = all \ {h}
    BY <1>6, <2>1 DEF Reap, Unregistered
  <2>3. h \in Avail /\ h \notin Queued /\ (npc = "enqueue" => h # nheld)
    BY <1>a, <2>1, <2>2, PoolAssumption DEF Avail, Custody
  <2>4. h \notin Avail' /\ \A g \in Holders \ {h} : g \in Avail' <=> g \in Avail
    BY <2>1, <2>2, <2>3 DEF Avail, Queued
  <2>5. \A q \in Runs, g \in Holders : Leases(q, g)' <=> Leases(q, g)
    BY <2>2 DEF Leases, Owns
  <2>6. \A q \in Runs : ~Leases(q, h)
    BY <1>a, <2>3 DEF Leases
  <2>7. h \in InUse
    BY <2>3, InUseMembers
  <2>8. LetGo(h)
    BY <2>2, <2>4, <2>5, <2>6, <2>7 DEF LetGo, OthersKept
  <2> QED BY <2>2, <2>8 DEF Flow
<1>7. CASE CloseBegin \/ JoinReaper \/ Snapshot \/ CloseOne \/ CloseReturn
  <2>1. UNCHANGED <<runVars, idle, reaperVars, newVars>>
    BY <1>7 DEF CloseBegin, JoinReaper, Snapshot, CloseOne, CloseReturn
  <2>2. AllKept
    BY <1>b, <2>1 DEF Avail, Queued
  <2> QED
    BY <1>7, <2>2 DEF Flow, Taken, CloseBegin, JoinReaper, Snapshot, CloseOne, CloseReturn
<1>8. CASE Drain
  <2>1. /\ UNCHANGED <<runVars, all, closed, reaperVars, newVars>> /\ idle' = <<>>
        /\ cpc = "drain" /\ cpc' = "teardown"
    BY <1>8 DEF Drain
  <2>2. Queued' = {}
    BY <2>1 DEF Queued, Range
  <2>3. \A g \in Holders : g \in Avail' <=> g \in Avail /\ g \notin Queued
    BY <1>a, <2>1, <2>2 DEF Avail, Custody
  <2>4. \A q \in Runs, g \in Holders : Leases(q, g)' <=> Leases(q, g)
    BY <2>1 DEF Leases, Owns
  <2> QED BY <2>1, <2>3, <2>4 DEF Flow, Emptied
<1>9. CASE CreateHolder
  <2>1. /\ UNCHANGED <<runVars, idle, closed, reaperVars, warmed>> /\ npc = "creating"
        /\ ~closed
    BY <1>a, <1>9 DEF CreateHolder, CloseOK
  <2>2. CASE npc' = "failed" /\ UNCHANGED <<all, nheld>>
    <3>1. AllKept
      BY <1>b, <2>1, <2>2 DEF Avail, Queued
    <3> QED BY <2>1, <2>2, <3>1 DEF Flow
  <2>3. ASSUME NEW h \in Holders, Fresh(h), nheld' = h, npc' = "enqueue",
               all' = all \cup {h}
        PROVE  Flow
    <3>1. h \notin InUse /\ h \notin Avail
      BY <1>a, <2>3, FreshUnused
    <3>2. h \in Avail' /\ \A g \in Holders \ {h} : g \in Avail' <=> g \in Avail
      BY <2>1, <2>3 DEF Avail, Queued
    <3>3. \A q \in Runs, g \in Holders : Leases(q, g)' <=> Leases(q, g)
      BY <2>1 DEF Leases, Owns
    <3>4. Live \in Nat /\ warmed \in Nat
      BY <1>a, FS_Subset, FS_CardinalityType, PoolAssumption DEF Live, SafeInv, TypeOK
    <3>5. Live < Max
      BY <1>a, <2>1, <3>4, PoolAssumption DEF LiveOK, WarmingOK
    <3>6. Made(h)
      BY <2>1, <2>3, <3>1, <3>2, <3>3, <3>5 DEF Made, OthersKept, Arrives
    <3> QED BY <2>1, <3>6 DEF Flow
  <2> QED BY <1>9, <2>2, <2>3 DEF CreateHolder
<1>10. CASE \E h \in Holders : HolderDies(h)
  <2>1. UNCHANGED <<runVars, all, idle, closed, reaperVars, newVars>>
    BY <1>10 DEF HolderDies
  <2>2. AllKept
    BY <1>b, <2>1 DEF Avail, Queued
  <2> QED BY <2>1, <2>2 DEF Flow
<1> QED
  BY <1>1, <1>2, <1>4, <1>5, <1>6, <1>7, <1>8, <1>9, <1>10
     DEF ReapStep, CloseStep, NewStep

\* Every step of the pool does one of these things to the holders in use.
LEMMA FlowStep ==
  ASSUME SlotInv, Next PROVE Flow
BY FlowRun, FlowOthers DEF Next

-----------------------------------------------------------------------------
\* What the mapping to HolderLease says of a state: a leased holder belongs to
\* its run, an available one is free, any other is gone.
LeaseSound ==
  /\ InUse \subseteq Holders /\ Avail \subseteq InUse
  /\ \A h \in Holders, r \in Runs :
       Leases(r, h) => LeaseOf(h) = r /\ h \in InUse /\ h \notin Avail
  /\ \A h \in Avail : LeaseOf(h) = Free
  /\ \A h \in Holders : h \notin InUse => LeaseOf(h) = Gone
  /\ \A h \in InUse : h \in Avail \/ \E r \in Runs : Leases(r, h)
  /\ \A r \in Runs : Leasing(r) => held[r] \in Holders

LEMMA LeaseSoundNow == SafeInv => LeaseSound
<1> SUFFICES ASSUME SafeInv PROVE LeaseSound
  OBVIOUS
<1>a. /\ Avail \subseteq Holders
      /\ \A r \in Runs : Owns(r) => held[r] \in Holders
      /\ \A r \in Runs : Owns(r) => held[r] \notin Avail
      /\ \A q, r \in Runs : Owns(q) /\ Owns(r) /\ held[q] = held[r] => q = r
  BY LeaseFacts
<1>1. InUse \subseteq Holders /\ Avail \subseteq InUse
  BY <1>a DEF InUse, Avail
<1>2. ASSUME NEW h \in Holders, NEW r \in Runs, Leases(r, h)
      PROVE  LeaseOf(h) = r /\ h \in InUse /\ h \notin Avail
  <2>1. \A q \in Runs : Owns(q) /\ pc[q] # "teardown" /\ held[q] = h <=> q = r
    BY <1>a, <1>2 DEF Leases
  <2>2. LeaseOf(h) = CHOOSE q \in Runs : Owns(q) /\ pc[q] # "teardown" /\ held[q] = h
    BY <2>1 DEF LeaseOf
  <2>3. LeaseOf(h) = r
    BY <2>1, <2>2
  <2>4. h \in InUse /\ h \notin Avail
    BY <1>a, <1>2, InUseMembers DEF Leases
  <2> QED BY <2>3, <2>4
<1>3. ASSUME NEW h \in Holders, \A r \in Runs : ~Leases(r, h)
      PROVE  LeaseOf(h) = IF h \in InUse THEN Free ELSE Gone
  BY <1>3 DEF LeaseOf, Leases
<1>4. \A h \in Avail : LeaseOf(h) = Free
  <2> SUFFICES ASSUME NEW h \in Avail PROVE LeaseOf(h) = Free
    OBVIOUS
  <2>1. h \in Holders /\ h \in InUse /\ \A r \in Runs : ~Leases(r, h)
    BY <1>a, <1>1 DEF Leases
  <2> QED BY <1>3, <2>1
<1>5. \A h \in Holders : h \notin InUse => LeaseOf(h) = Gone
  BY <1>3, InUseMembers
<1>6. \A h \in InUse : h \in Avail \/ \E r \in Runs : Leases(r, h)
  BY InUseMembers
<1>7. \A r \in Runs : Leasing(r) => held[r] \in Holders
  BY <1>a DEF Leasing
<1> QED BY <1>1, <1>2, <1>4, <1>5, <1>6, <1>7 DEF LeaseSound

\* The same of the state after a step.
LEMMA LeaseSoundNext == SafeInv' => LeaseSound'
BY LeaseSoundNow, PTL

\* Sets of holders are finite.
LEMMA CountedInUse ==
  ASSUME SafeInv
  PROVE  IsFiniteSet(InUse) /\ IsFiniteSet(all) /\ Cardinality(InUse) \in Nat
<1>1. InUse \subseteq Holders /\ all \subseteq Holders
  BY LeaseSoundNow DEF LeaseSound, SafeInv, TypeOK
<1> QED BY <1>1, PoolAssumption, FS_Subset, FS_CardinalityType

\* What each kind of step does to the set of holders in use.
LEMMA InUseStep ==
  ASSUME SafeInv, SafeInv', Flow
  PROVE  \/ InUse' = InUse /\ (all' = all \/ Taken)
         \/ \E h \in Holders : InUse' = InUse \cup {h} /\ all' = all \cup {h} /\ ~closed
         \/ \E h \in Holders : InUse' = InUse \ {h} /\ all' = all \ {h}
         \/ InUse' \subseteq InUse /\ cpc = "drain" /\ cpc' = "teardown"
<1>a. LeaseSound /\ LeaseSound'
  BY LeaseSoundNow, LeaseSoundNext
<1>b. /\ \A h : h \in InUse <=> h \in Avail \/ \E r \in Runs : Leases(r, h)
      /\ \A h : h \in InUse' <=> h \in Avail' \/ \E r \in Runs : Leases(r, h)'
  BY DEF InUse, Avail, Leases
<1>c. InUse \subseteq Holders /\ InUse' \subseteq Holders
  BY <1>a DEF LeaseSound
<1>1. ASSUME AllKept PROVE InUse' = InUse
  BY <1>1, <1>b, <1>c DEF AllKept
<1>2. ASSUME NEW h \in Holders, OthersKept(h)
      PROVE  \A g \in Holders \ {h} : g \in InUse' <=> g \in InUse
  BY <1>2, <1>b DEF OthersKept
<1>3. ASSUME NEW h \in Holders, Arrives(h) PROVE h \in InUse'
  BY <1>3, <1>b DEF Arrives
<1>4. ASSUME NEW h \in Holders, Granted(h) \/ Passed(h) PROVE InUse' = InUse /\ all' = all
  BY <1>2, <1>3, <1>4, <1>b, <1>c DEF Granted, Passed
<1>5. ASSUME NEW h \in Holders, Made(h)
      PROVE  InUse' = InUse \cup {h} /\ all' = all \cup {h} /\ ~closed
  BY <1>2, <1>3, <1>5, <1>c DEF Made
<1>6. ASSUME NEW h \in Holders, LetGo(h) PROVE InUse' = InUse \ {h} /\ all' = all \ {h}
  BY <1>2, <1>6, <1>b, <1>c DEF LetGo
<1>7. CASE Emptied
  BY <1>7, <1>b, <1>c DEF Emptied
<1> QED BY <1>1, <1>4, <1>5, <1>6, <1>7 DEF Flow, Taken

\* Close begins after NewPool and goes through its stages in order.
LEMMA CloseOKStep ==
  ASSUME SafeInv, CloseOK, Next PROVE CloseOK'
<1> USE DEF CloseOK, BeforeSnapshot, poolVars, holderVars, reaperVars, closeVars,
            newVars, others
<1>1. ASSUME NEW r \in Runs, Call(r) \/ RunStep(r) \/ GiveUp(r) PROVE CloseOK'
  BY <1>1 DEF Call, RunStep, GiveUp, Reserve, Build, Unreserve, Wait, Lock, Exec, Check,
              Drop, Release, Put, TearDown, Unlock
<1>2. CASE Tick \/ StopReaper \/ ReapStep
  BY <1>2 DEF Tick, StopReaper, ReapStep, Count, TakeIdle, PutBack, Reap, ReapTearDown
<1>3. CASE CloseBegin \/ CloseStep
  BY <1>3 DEF CloseBegin, CloseStep, JoinReaper, Snapshot, Drain, CloseOne, CloseReturn
<1>4. CASE NewStep
  BY <1>4 DEF NewStep, CreateHolder, Enqueue, NewAt
<1>5. CASE \E h \in Holders : HolderDies(h)
  BY <1>5 DEF HolderDies
<1> QED BY <1>1, <1>2, <1>3, <1>4, <1>5 DEF Next

\* The invariant is inductive.
LEMMA SlotStep == SlotInv /\ [Next]_vars => SlotInv'
<1>1. ASSUME SlotInv, Next PROVE SlotInv'
  <2>1. SafeInv /\ SafeInv' /\ Flow /\ CloseOK /\ CloseOK'
    BY <1>1, SafeStep, FlowStep, CloseOKStep DEF SlotInv
  <2>2. /\ InUse \subseteq Holders /\ IsFiniteSet(InUse) /\ Cardinality(InUse) \in Nat
        /\ Cardinality(InUse) <= Max /\ Max \in Nat
    BY <1>1, <2>1, LeaseSoundNow, CountedInUse, PoolAssumption DEF SlotInv, LeaseSound
  <2>3. BeforeSnapshot' => BeforeSnapshot
    BY <1>1 DEF BeforeSnapshot, Next, Call, RunStep, GiveUp, Reserve, Build, Unreserve, Wait,
       Lock, Exec, Check, Drop, Release, Put, TearDown, Unlock, Tick, StopReaper, ReapStep,
       Count, TakeIdle, PutBack, Reap, ReapTearDown, CloseBegin, CloseStep, JoinReaper,
       Snapshot, Drain, CloseOne, CloseReturn, NewStep, CreateHolder, Enqueue, HolderDies,
       others, closeVars
  <2>4. SlotsAccounted'
    <3> SUFFICES ASSUME BeforeSnapshot' PROVE all' = InUse'
      BY DEF SlotsAccounted
    <3>1. all = InUse /\ cpc' \notin {"drain", "teardown"}
      BY <1>1, <2>3 DEF SlotInv, SlotsAccounted, BeforeSnapshot
    <3> QED BY <2>1, <3>1, InUseStep DEF Taken
  <2>5. Cardinality(InUse') <= Max
    <3>1. CASE InUse' \subseteq InUse
      <4>1. Cardinality(InUse') <= Cardinality(InUse) /\ Cardinality(InUse') \in Nat
        BY <2>2, <3>1, FS_Subset, FS_CardinalityType
      <4> QED BY <2>2, <4>1
    <3>2. CASE ~closed
      <4>1. cpc = "open" /\ cpc' \in {"open", "join"}
        BY <1>1, <2>1, <3>2 DEF CloseOK, Next, Call, RunStep, GiveUp, Reserve, Build, Unreserve,
           Wait, Lock, Exec, Check, Drop, Release, Put, TearDown, Unlock, Tick, StopReaper,
           ReapStep, Count, TakeIdle, PutBack, Reap, ReapTearDown, CloseBegin, CloseStep,
           JoinReaper, Snapshot, Drain, CloseOne, CloseReturn, NewStep, CreateHolder, Enqueue,
           HolderDies, others, closeVars
      <4>2. all' = InUse'
        BY <2>4, <4>1 DEF SlotsAccounted, BeforeSnapshot
      <4>3. Cardinality(all') <= Max
        BY <2>1 DEF SafeInv, LiveOK, LiveWithinMax, Live
      <4> QED BY <4>2, <4>3
    <3> QED BY <2>1, <3>1, <3>2, InUseStep
  <2> QED BY <2>1, <2>4, <2>5 DEF SlotInv
<1>2. ASSUME SlotInv, UNCHANGED vars PROVE SlotInv'
  <2>1. SafeInv'
    BY <1>2, SafeStep DEF SlotInv
  <2> QED BY <1>2, <2>1 DEF vars, runVars, poolVars, others, reaperVars, closeVars, newVars,
          SlotInv, CloseOK, SlotsAccounted, BeforeSnapshot, InUse, Queued, Owns
<1> QED BY <1>1, <1>2

\* The pool starts within it.
LEMMA SlotInit == Init => SlotInv
<1> SUFFICES ASSUME Init PROVE SlotInv
  OBVIOUS
<1>1. SafeInv
  BY InitSafe
<1>2. CloseOK
  BY DEF Init, CloseOK
<1>3. InUse = {}
  BY StageNames DEF Init, InUse, Owns, Queued, Range
<1>4. SlotsAccounted /\ Cardinality(InUse) <= Max
  BY <1>3, FS_EmptySet, PoolAssumption DEF Init, SlotsAccounted
<1> QED BY <1>1, <1>2, <1>4 DEF SlotInv

(***************************************************************************)
(* The inductive invariant holds in every reachable state of the pool.     *)
(***************************************************************************)
THEOREM SlotInvariant == Spec => []SlotInv
BY SlotInit, SlotStep, PTL DEF Spec

(***************************************************************************)
(* p.all counts exactly the holders in circulation until Close takes it    *)
(* (acquire, drop, release, reapIdle; pool.go:171, 179, 202, 215).         *)
(***************************************************************************)
THEOREM SlotsStayAccounted == Spec => []SlotsAccounted
BY SlotInvariant, PTL DEF SlotInv

\* The buffer of p.idle holds as many holders as it is long.
LEMMA QueuedCount ==
  ASSUME idle \in Seq(Holders), Distinct
  PROVE  Cardinality(Queued) = Len(idle) /\ IsFiniteSet(Queued) /\ Len(idle) \in Nat
<1>1. /\ Len(idle) \in Nat /\ DOMAIN idle = 1..Len(idle)
      /\ idle \in [1..Len(idle) -> Holders]
  OBVIOUS
<1>2. Queued = {idle[i] : i \in 1..Len(idle)}
  BY <1>1 DEF Queued, Range
<1>3. idle \in [1..Len(idle) -> Queued]
  BY <1>1, <1>2
<1>4. idle \in Bijection(1..Len(idle), Queued)
  <2>1. idle \in Injection(1..Len(idle), Queued)
    BY <1>1, <1>3 DEF Injection, IsInjective, Distinct
  <2>2. idle \in Surjection(1..Len(idle), Queued)
    BY <1>2, <1>3 DEF Surjection
  <2> QED BY <2>1, <2>2 DEF Bijection
<1>5. ExistsBijection(1..Len(idle), Queued)
  BY <1>4 DEF ExistsBijection
<1>6. Cardinality(Queued) = Len(idle)
  BY <1>1, <1>5, FS_CountingElements
<1>7. Queued \subseteq Holders
  BY <1>1, <1>2
<1> QED BY <1>1, <1>6, <1>7, PoolAssumption, FS_Subset

\* Whoever is about to send has a holder that is in use and not queued, so that
\* the buffer is not full.
LEMMA SendersFit == SlotInv => SendNeverBlocks
<1> SUFFICES ASSUME SlotInv,
                    (\E r \in Runs : pc[r] = "put") \/ rpc = "judge" \/ npc = "enqueue"
             PROVE  Len(idle) < Max
  BY DEF SendNeverBlocks
<1>a. /\ SafeInv /\ Custody /\ ChannelTyped /\ Distinct /\ HeldOK
      /\ Cardinality(InUse) <= Max
  BY LeaseFacts DEF SlotInv
<1>1. PICK h : h \in InUse /\ h \notin Queued
  <2>1. ASSUME NEW r \in Runs, pc[r] = "put" PROVE held[r] \in InUse \ Queued
    BY <1>a, <2>1, StageNames DEF Custody, Owns, InUse
  <2>2. CASE rpc = "judge"
    BY <1>a, <2>2 DEF Custody, InUse
  <2>3. CASE npc = "enqueue"
    BY <1>a, <2>3 DEF Custody, InUse
  <2> QED BY <2>1, <2>2, <2>3
<1>2. IsFiniteSet(InUse) /\ Cardinality(InUse) \in Nat
  BY <1>a, CountedInUse
<1>3. Cardinality(Queued) = Len(idle) /\ IsFiniteSet(Queued) /\ Len(idle) \in Nat
  BY <1>a, QueuedCount DEF ChannelTyped
<1>4. Cardinality(Queued \cup {h}) = Cardinality(Queued) + 1
  BY <1>1, <1>3, FS_AddElement
<1>5. Queued \cup {h} \subseteq InUse
  BY <1>1 DEF InUse
<1>6. Cardinality(Queued \cup {h}) <= Cardinality(InUse)
  BY <1>2, <1>5, FS_Subset
<1> QED BY <1>a, <1>2, <1>3, <1>4, <1>6, PoolAssumption

(***************************************************************************)
(* "cap Max, live <= Max, never blocks" (pool.go:208): release, reapIdle   *)
(* and NewPool always find room in p.idle or a run parked on it, also      *)
(* while and after Close, which clears p.all under runs that still work.   *)
(***************************************************************************)
THEOREM SendsNeverBlock == Spec => []SendNeverBlocks
BY SlotInvariant, SendersFit, PTL

-----------------------------------------------------------------------------
\* The channel never has values and receivers at once: no wake-up is lost.
NoIdleWaiters == waitq # <<>> => idle = <<>>

\* Every step keeps it: who sends looks for a receiver first, and who receives
\* parks only when nothing is buffered.
LEMMA ChannelStep ==
  ASSUME SafeInv, NoIdleWaiters, [Next]_vars PROVE NoIdleWaiters'
<1> USE DEF NoIdleWaiters, poolVars, others
<1>a. idle = <<>> => Len(idle) = 0
  OBVIOUS
<1>1. ASSUME NEW h, NEW stages, Send(h, stages) PROVE NoIdleWaiters'
  BY <1>1 DEF Send
<1>2. ASSUME NEW r \in Runs, Call(r) \/ RunStep(r) PROVE NoIdleWaiters'
  <2>1. CASE Call(r) \/ Wait(r)
    BY <2>1 DEF Call, Wait, Receive
  <2>2. CASE Put(r)
    BY <1>1, <2>2 DEF Put
  <2> QED BY <1>2, <2>1, <2>2 DEF RunStep, Reserve, Build, Unreserve, Lock, Exec, Check, Drop,
             Release, TearDown, Unlock
<1>3. ASSUME NEW r \in Runs, GiveUp(r) PROVE NoIdleWaiters'
  <2>1. waitq # <<>> /\ idle' = idle
    BY <1>3 DEF GiveUp
  <2> QED BY <2>1
<1>4. CASE PutBack \/ Enqueue
  BY <1>1, <1>4 DEF PutBack, Enqueue
<1>5. CASE TakeIdle \/ Drain
  BY <1>5 DEF TakeIdle, Drain
<1>6. CASE \/ Tick \/ StopReaper \/ Count \/ Reap \/ ReapTearDown \/ CloseBegin
           \/ JoinReaper \/ Snapshot \/ CloseOne \/ CloseReturn \/ CreateHolder
           \/ (\E h \in Holders : HolderDies(h)) \/ UNCHANGED vars
  BY <1>6 DEF Tick, StopReaper, Count, Reap, ReapTearDown, CloseBegin, JoinReaper, Snapshot,
              CloseOne, CloseReturn, CreateHolder, HolderDies, vars
<1> QED BY <1>2, <1>3, <1>4, <1>5, <1>6 DEF Next, ReapStep, CloseStep, NewStep

\* Then the holders of a full pool are all in somebody's hands.
LEMMA SourceFound == SlotInv /\ NoIdleWaiters => WaitersHaveSource
<1> SUFFICES ASSUME SlotInv, waitq # <<>>, idle = <<>>, BeforeSnapshot, ~HasSlot
             PROVE  rpc = "judge" \/ \E r \in Runs : Owns(r) /\ pc[r] # "teardown"
  BY DEF WaitersHaveSource, NoIdleWaiters
<1>a. SafeInv /\ ChannelTyped /\ WaitersOK /\ LiveOK /\ all = InUse
  BY LeaseFacts DEF SlotInv, SlotsAccounted
<1>1. all # {}
  <2>1. Live # 0
    BY PoolAssumption DEF HasSlot
  <2> QED BY <2>1, FS_EmptySet DEF Live
<1>2. PICK h : h \in InUse
  BY <1>a, <1>1
<1>3. Queued = {}
  BY DEF Queued, Range
<1>4. npc = "returned"
  <2>1. 1 \in DOMAIN waitq /\ waitq[1] \in Runs
    BY <1>a, HeadTail DEF ChannelTyped
  <2> QED BY <1>a, <2>1 DEF WaitersOK, LiveOK
<1> QED BY <1>2, <1>3, <1>4 DEF InUse

(***************************************************************************)
(* A run is never parked next to an idle holder, and at a full pool it     *)
(* waits for somebody at work (acquire, release, reapIdle; pool.go:185-194,*)
(* 208, 301): what of "Runs beyond Max block until a holder frees"         *)
(* (pool.go:41) holds with all faults, without fairness.                   *)
(***************************************************************************)
THEOREM WaitersAlwaysHaveSource == Spec => []WaitersHaveSource
<1>1. Init => NoIdleWaiters
  BY DEF Init, NoIdleWaiters
<1>2. SlotInv /\ NoIdleWaiters /\ [Next]_vars => NoIdleWaiters'
  BY ChannelStep DEF SlotInv
<1> QED BY <1>1, <1>2, SlotInvariant, SourceFound, PTL DEF Spec

-----------------------------------------------------------------------------
\* The variable `lease` of HolderLease.
LeaseFunction == [h \in Holders |-> LeaseOf(h)]

\* HolderLease counts as the pool does.
LEMMA SameCardinality == \A S : Lease!Cardinality(S) = Cardinality(S)
BY DEF Cardinality, Lease!Cardinality

\* HolderLease's sets in the pool's terms.
LEMMA LeaseSets ==
  ASSUME SafeInv
  PROVE  /\ Lease!Existing = InUse
         /\ \A r \in Runs : r \in Lease!Leasing => Leasing(r)
         /\ Free \notin Lease!Leasing /\ Gone \notin Lease!Leasing
<1>a. LeaseSound
  BY LeaseSoundNow
<1>b. \A h \in Holders : LeaseOf(h) # Gone <=> h \in InUse
  BY <1>a, LeaseAssumption DEF LeaseSound
<1>1. Lease!Existing = InUse
  BY <1>a, <1>b DEF Lease!Existing, LeaseSound
<1>2. ASSUME NEW h \in InUse, NEW r \in Runs, LeaseOf(h) = r PROVE Leasing(r)
  <2>1. h \in Holders /\ (h \in Avail => LeaseOf(h) = Free)
        /\ \A q \in Runs : Leases(q, h) => LeaseOf(h) = q
    BY <1>a DEF LeaseSound
  <2>2. Leases(r, h)
    BY <1>a, <1>2, <2>1, LeaseAssumption DEF LeaseSound
  <2> QED BY <2>2 DEF Leases, Leasing
<1>3. Lease!Leasing = {LeaseOf(h) : h \in InUse} \ {Free}
  BY <1>1, <1>a DEF Lease!Leasing, LeaseSound
<1> QED BY <1>a, <1>b, <1>1, <1>2, <1>3 DEF LeaseSound

\* Holders about which nothing changes have the same lease.
LEMMA SameLease ==
  ASSUME SafeInv, SafeInv', NEW g \in Holders,
         \A r \in Runs : Leases(r, g)' <=> Leases(r, g), g \in Avail' <=> g \in Avail
  PROVE  LeaseOf(g)' = LeaseOf(g)
<1>a. LeaseSound /\ LeaseSound'
  BY LeaseSoundNow, LeaseSoundNext
<1>1. CASE \E r \in Runs : Leases(r, g)
  BY <1>1, <1>a DEF LeaseSound
<1>2. CASE g \in Avail
  BY <1>2, <1>a DEF LeaseSound
<1>3. CASE g \notin Avail /\ \A r \in Runs : ~Leases(r, g)
  <2>1. g \notin InUse /\ g \notin InUse'
    BY <1>3, <1>a DEF LeaseSound
  <2> QED BY <2>1, <1>a DEF LeaseSound
<1> QED BY <1>1, <1>2, <1>3

\* Every step of the pool is a step of HolderLease or leaves leases alone.
LEMMA LeaseStep ==
  ASSUME SlotInv, SlotInv', Next
  PROVE  Lease!Next \/ UNCHANGED Lease!vars
<1> DEFINE L == LeaseFunction
<1>a. SafeInv /\ SafeInv' /\ CloseOK /\ SlotsAccounted /\ Flow
  BY FlowStep DEF SlotInv
<1>b. /\ LeaseSound /\ LeaseSound'
      /\ Lease!Existing = InUse /\ \A r \in Runs : r \in Lease!Leasing => Leasing(r)
      /\ Free \notin Lease!Leasing /\ Gone \notin Lease!Leasing
  BY <1>a, LeaseSoundNow, LeaseSoundNext, LeaseSets
<1>c. \A g \in Holders : L[g] = LeaseOf(g) /\ L'[g] = LeaseOf(g)'
  BY DEF LeaseFunction
<1>d. DOMAIN L = Holders /\ DOMAIN L' = Holders /\ L = [g \in Holders |-> L[g]]
      /\ L' = [g \in Holders |-> L'[g]]
  BY DEF LeaseFunction
<1>e. closed' = closed \/ closed' = TRUE
  BY DEF Next, Call, RunStep, GiveUp, Reserve, Build, Unreserve, Wait, Lock, Exec, Check,
     Drop, Release, Put, TearDown, Unlock, Tick, StopReaper, ReapStep, Count, TakeIdle,
     PutBack, Reap, ReapTearDown, CloseBegin, CloseStep, JoinReaper, Snapshot, Drain,
     CloseOne, CloseReturn, NewStep, CreateHolder, Enqueue, HolderDies, poolVars
<1> HIDE DEF L
<1>f. ASSUME NEW h \in Holders, OthersKept(h) PROVE L' = [L EXCEPT ![h] = LeaseOf(h)']
  <2>1. \A g \in Holders \ {h} : LeaseOf(g)' = LeaseOf(g)
    BY <1>a, <1>f, SameLease DEF OthersKept
  <2> QED BY <1>c, <1>d, <2>1
<1>g. ASSUME NEW h \in Holders, Arrives(h)
      PROVE  \E o \in Runs \cup {Free} : LeaseOf(h)' = o /\ o \notin Lease!Leasing
  <2>1. CASE h \in Avail'
    BY <1>b, <2>1 DEF LeaseSound
  <2>2. ASSUME NEW r \in Runs, ~Leasing(r), Leases(r, h)' PROVE LeaseOf(h)' = r
    BY <1>b, <2>2 DEF LeaseSound
  <2> QED BY <1>b, <1>g, <2>1, <2>2 DEF Arrives
<1>1. CASE AllKept
  <2>1. \A g \in Holders : LeaseOf(g)' = LeaseOf(g)
    BY <1>1, <1>a, SameLease DEF AllKept
  <2>2. L' = L
    BY <1>c, <1>d, <2>1
  <2> QED BY <1>e, <2>2 DEF L, LeaseFunction, Lease!Next, Lease!Shut, Lease!vars
<1>2. ASSUME NEW h \in Holders, Granted(h), closed' = closed
      PROVE  Lease!Next \/ UNCHANGED Lease!vars
  <2>1. L[h] = Free
    BY <1>2, <1>b, <1>c DEF Granted, LeaseSound
  <2>2. PICK o \in Runs \cup {Free} : LeaseOf(h)' = o /\ o \notin Lease!Leasing
    BY <1>2, <1>g DEF Granted
  <2>3. L' = [L EXCEPT ![h] = o]
    BY <1>2, <1>f, <2>2 DEF Granted
  <2>4. CASE o = Free
    <3>1. L' = L
      BY <1>d, <2>1, <2>3, <2>4
    <3> QED BY <1>2, <3>1 DEF L, LeaseFunction, Lease!vars
  <2>5. CASE o \in Runs
    <3>1. Lease!Grant(h, o)
      BY <1>2, <2>1, <2>2, <2>3 DEF L, LeaseFunction, Lease!Grant
    <3> QED BY <2>5, <3>1 DEF Lease!Next
  <2> QED BY <2>4, <2>5
<1>3. ASSUME NEW h \in Holders, Passed(h), closed' = closed PROVE Lease!Next
  <2>1. L[h] \in Runs
    BY <1>3, <1>b, <1>c DEF Passed, LeaseSound
  <2>2. PICK o \in Runs \cup {Free} : LeaseOf(h)' = o /\ o \notin Lease!Leasing
    BY <1>3, <1>g DEF Passed
  <2>3. L' = [L EXCEPT ![h] = o]
    BY <1>3, <1>f, <2>2 DEF Passed
  <2>4. Lease!GiveBack(h, o)
    BY <1>3, <2>1, <2>2, <2>3 DEF L, LeaseFunction, Lease!GiveBack
  <2> QED BY <2>4 DEF Lease!Next
<1>4. ASSUME NEW h \in Holders, Made(h), closed' = closed PROVE Lease!Next
  <2>1. L[h] = Gone
    BY <1>4, <1>b, <1>c DEF Made, LeaseSound
  <2>2. PICK o \in Runs \cup {Free} : LeaseOf(h)' = o /\ o \notin Lease!Leasing
    BY <1>4, <1>g DEF Made
  <2>3. L' = [L EXCEPT ![h] = o]
    BY <1>4, <1>f, <2>2 DEF Made
  <2>4. Lease!Cardinality(Lease!Existing) < Max
    BY <1>4, <1>a, <1>b, SameCardinality DEF Made, CloseOK, SlotsAccounted, BeforeSnapshot, Live
  <2>5. Lease!Provide(h, o)
    <3>1. ~closed /\ closed' = closed
      BY <1>4 DEF Made
    <3> QED BY <2>1, <2>2, <2>3, <2>4, <3>1 DEF L, LeaseFunction, Lease!Provide
  <2> QED BY <2>5 DEF Lease!Next
<1>5. ASSUME NEW h \in Holders, LetGo(h), closed' = closed PROVE Lease!Next
  <2>1. h \notin InUse'
    BY <1>5, <1>b DEF LetGo, LeaseSound
  <2>2. LeaseOf(h)' = Gone
    BY <1>b, <2>1 DEF LeaseSound
  <2>3. L' = [L EXCEPT ![h] = Gone]
    BY <1>5, <1>f, <2>2 DEF LetGo
  <2>4. CASE h \in Avail
    <3>1. L[h] = Free
      BY <1>b, <1>c, <2>4 DEF LeaseSound
    <3>2. L' = [g \in Holders |-> IF g \in {h} THEN Gone ELSE L[g]]
      BY <1>d, <2>3
    <3>3. Lease!Discard({h})
      BY <1>5, <3>1, <3>2 DEF L, LeaseFunction, Lease!Discard
    <3> QED BY <3>3 DEF Lease!Next
  <2>5. CASE \E r \in Runs : Leases(r, h)
    <3>1. L[h] \in Runs
      BY <1>b, <1>c, <2>5 DEF LeaseSound
    <3>2. Lease!GiveBack(h, Gone)
      BY <1>5, <1>b, <2>3, <3>1 DEF L, LeaseFunction, Lease!GiveBack
    <3> QED BY <3>2 DEF Lease!Next
  <2> QED BY <1>5, <1>b, <2>4, <2>5 DEF LetGo, LeaseSound
<1>6. CASE Emptied /\ closed' = closed
  <2>1. \A g \in Holders : g \notin Queued => LeaseOf(g)' = LeaseOf(g)
    BY <1>6, <1>a, SameLease DEF Emptied
  <2>2. ASSUME NEW g \in Holders, g \in Queued PROVE LeaseOf(g) = Free /\ LeaseOf(g)' = Gone
    <3>1. g \in Avail
      BY <2>2 DEF Avail
    <3>2. g \notin Avail' /\ \A r \in Runs : ~Leases(r, g)'
      BY <1>6, <1>b, <2>2, <3>1 DEF Emptied, LeaseSound
    <3>3. g \notin InUse'
      BY <1>b, <3>2 DEF LeaseSound
    <3> QED BY <1>b, <3>1, <3>3 DEF LeaseSound
  <2> DEFINE hs == Queued \cap Holders
  <2>3. L' = [g \in Holders |-> IF g \in hs THEN Gone ELSE L[g]]
    BY <1>c, <1>d, <2>1, <2>2
  <2>4. \A g \in hs : L[g] = Free
    BY <1>c, <2>2
  <2>5. Lease!Discard(hs)
    BY <1>6, <2>3, <2>4 DEF L, LeaseFunction, Lease!Discard
  <2>6. hs \in SUBSET Holders
    OBVIOUS
  <2> HIDE DEF hs
  <2> QED BY <2>5, <2>6 DEF Lease!Next
<1> QED BY <1>a, <1>1, <1>2, <1>3, <1>4, <1>5, <1>6 DEF Flow, Taken

\* The pool starts where HolderLease does.
LEMMA LeaseInit == ASSUME Init PROVE Lease!Init
<1>1. \A h \in Holders : LeaseOf(h) = Gone
  BY StageNames DEF Init, LeaseOf, InUse, Owns, Queued, Range
<1> QED BY <1>1 DEF Lease!Init, Init

(***************************************************************************)
(* The pool implements HolderLease (pool.go:11, 41): however Run, reapIdle,*)
(* NewPool and Close interleave, each holder is leased to one run at a     *)
(* time, at most Max are in circulation, and none is made after Close      *)
(* began.                                                                  *)
(***************************************************************************)
THEOREM PoolImplementsLease == Spec => ImplementsLease
<1>1. Init => Lease!Init
  BY LeaseInit
<1>2. SlotInv /\ SlotInv' /\ [Next]_vars => [Lease!Next]_(Lease!vars)
  <2>1. ASSUME SlotInv, SlotInv', Next PROVE [Lease!Next]_(Lease!vars)
    BY <2>1, LeaseStep
  <2>2. ASSUME UNCHANGED vars PROVE UNCHANGED Lease!vars
    BY <2>2 DEF vars, runVars, poolVars, others, reaperVars, closeVars, newVars, Lease!vars,
                LeaseOf, InUse, Queued, Owns
  <2> QED BY <2>1, <2>2
<1> QED BY <1>1, <1>2, SlotInvariant, PTL DEF Spec, ImplementsLease, Lease!Spec
=============================================================================
