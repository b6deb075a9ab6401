----------------------------- MODULE PoolProofs -----------------------------
(***************************************************************************)
(* Proofs about the pool, for any number of runs and holders, any Min, Max *)
(* and IdleTicks, and every choice of faults and expiring contexts.        *)
(*                                                                         *)
(* LiveWithinMax and Custody are not inductive.  SafeInv adds to them that *)
(* a stage determines whether its goroutine has a holder (HeldOK), that    *)
(* exactly parked runs are in the channel's receive queue (WaitersOK), and *)
(* what NewPool's loop counter says of the holders made so far (WarmingOK, *)
(* LiveOK).                                                                *)
(***************************************************************************)
EXTENDS PoolProperties, SequenceTheorems, FiniteSetTheorems, TLAPS

\* The stages in which a run's local variable h is a holder.
Holding == OwnStages \cup {"unlock"}

\* A goroutine refers to a holder exactly while its code has one at hand.
HeldOK ==
  /\ \A r \in Runs : held[r] # NoHolder <=> pc[r] \in Holding
  /\ rheld # NoHolder <=> rpc \in {"judge", "teardown"}
  /\ nheld # NoHolder <=> npc = "enqueue"

\* NewPool's loop runs at most Min times (pool.go:130).
WarmingOK == npc \in {"creating", "enqueue"} => warmed < Min

\* Who is in the channel's receive queue is parked in acquire's second select,
\* once.
WaitersOK ==
  /\ \A i \in DOMAIN waitq : pc[waitq[i]] = "parked"
  /\ \A i, j \in DOMAIN waitq : i # j => waitq[i] # waitq[j]

\* No holder is buffered twice: the third part of Custody, which the channel's
\* operations keep on their own.
Distinct == \A i, j \in DOMAIN idle : i # j => idle[i] # idle[j]

\* While NewPool still works nothing else adds holders, so its loop counter
\* bounds them; afterwards Reserve's test does.
LiveOK ==
  /\ LiveWithinMax
  /\ npc = "creating" => Live <= warmed
  /\ npc = "enqueue" => Live <= warmed + 1
  /\ npc # "returned" => \A r \in Runs : pc[r] = "ready"

\* The inductive invariant.
SafeInv == TypeOK /\ HeldOK /\ WarmingOK /\ WaitersOK /\ Custody /\ LiveOK

USE PoolAssumption

\* The stages by name: which of them belong to OwnStages, the part of Pool.Run
\* between acquire and the end of release or drop.
LEMMA StageNames ==
  /\ \A s \in {"build", "unreserve", "lock", "exec", "check", "drop",
               "release", "put", "teardown"} : s \in OwnStages /\ s \in Stages
  /\ \A s \in {"ready", "reserve", "wait", "parked", "unlock"} :
       s \notin OwnStages /\ s \in Stages
BY DEF OwnStages, Stages

\* What a receive leaves of a channel's buffer: the head is an element, the
\* tail is the buffer shifted by one.
LEMMA HeadTail ==
  ASSUME NEW S, NEW s \in Seq(S), s # <<>>
  PROVE  /\ Head(s) \in S /\ Tail(s) \in Seq(S)
         /\ 1 \in DOMAIN s /\ Head(s) = s[1]
         /\ \A i \in DOMAIN Tail(s) : i + 1 \in DOMAIN s /\ Tail(s)[i] = s[i + 1]
OBVIOUS

\* What a buffered send or a parked receiver adds to a queue: one element at
\* the end.
LEMMA AppendSeq ==
  ASSUME NEW S, NEW s \in Seq(S), NEW e \in S
  PROVE  /\ Append(s, e) \in Seq(S)
         /\ DOMAIN Append(s, e) = DOMAIN s \cup {Len(s) + 1}
         /\ Len(s) + 1 \notin DOMAIN s
         /\ \A i \in DOMAIN s : Append(s, e)[i] = s[i]
         /\ Append(s, e)[Len(s) + 1] = e
OBVIOUS

\* What acquire's ctx.Done() case does to the channel's receive queue: the
\* elements behind the removed one move up.
LEMMA RemoveAt ==
  ASSUME NEW S, NEW s \in Seq(S), NEW k \in DOMAIN s
  PROVE  /\ Seqs!RemoveAt(s, k) \in Seq(S)
         /\ \A i \in DOMAIN Seqs!RemoveAt(s, k) :
              /\ i \in Nat
              /\ i < k => i \in DOMAIN s /\ Seqs!RemoveAt(s, k)[i] = s[i]
              /\ i >= k => i + 1 \in DOMAIN s /\ Seqs!RemoveAt(s, k)[i] = s[i + 1]
<1> DEFINE u == SubSeq(s, 1, k - 1)
           v == SubSeq(s, k + 1, Len(s))
           t == Seqs!RemoveAt(s, k)
           n == Len(s)
<1>1. /\ n \in Nat /\ DOMAIN s = 1..n /\ k \in 1..n
      /\ \A i \in 1..n : s[i] \in S
  BY LenProperties
<1>2. /\ u \in Seq(S) /\ Len(u) = k - 1 /\ \A i \in 1..(k - 1) : u[i] = s[i]
  <2>1. 1 \in Int /\ k - 1 \in Int /\ \A i \in 1..(k - 1) : s[i] \in S
    BY <1>1
  <2> QED BY <1>1, <2>1, SubSeqProperties
<1>3. /\ v \in Seq(S) /\ Len(v) = n - k /\ \A i \in 1..(n - k) : v[i] = s[k + i]
  <2>1. k + 1 \in Int /\ n \in Int /\ \A i \in (k + 1)..n : s[i] \in S
    BY <1>1
  <2>2. /\ v \in Seq(S) /\ Len(v) = IF k + 1 <= n THEN n - (k + 1) + 1 ELSE 0
        /\ \A i \in 1..(n - (k + 1) + 1) : v[i] = s[(k + 1) + i - 1]
    BY <2>1, SubSeqProperties
  <2> HIDE DEF v, n
  <2>3. Len(v) = n - k /\ n - (k + 1) + 1 = n - k
    BY <1>1, <2>2
  <2>4. ASSUME NEW i \in 1..(n - k) PROVE v[i] = s[k + i]
    <3>1. (k + 1) + i - 1 = k + i
      BY <1>1
    <3> QED BY <2>2, <2>3, <3>1
  <2> QED BY <2>2, <2>3, <2>4
<1>4. t = u \o v
  BY DEF Seqs!RemoveAt
<1> HIDE DEF t, u, v, n
<1>5. /\ t \in Seq(S) /\ Len(t) = Len(u) + Len(v)
      /\ \A i \in 1..(Len(u) + Len(v)) :
           t[i] = IF i <= Len(u) THEN u[i] ELSE v[i - Len(u)]
  BY <1>2, <1>3, <1>4, ConcatProperties
<1>6. Len(u) + Len(v) = n - 1
  BY <1>1, <1>2, <1>3
<1>7. DOMAIN t = 1..(n - 1)
  <2>1. DOMAIN t = 1..Len(t)
    BY <1>5, LenProperties
  <2> QED BY <1>5, <1>6, <2>1
<1>8. ASSUME NEW i \in DOMAIN t
      PROVE  /\ i \in Nat /\ i \in 1..(n - 1)
             /\ i >= k => i + 1 \in 1..n /\ i - (k - 1) \in 1..(n - k)
                          /\ k + (i - (k - 1)) = i + 1 /\ ~(i <= k - 1)
             /\ i < k => i \in 1..n /\ i \in 1..(k - 1) /\ i <= k - 1
  BY <1>1, <1>7
<1>9. ASSUME NEW i \in DOMAIN t
      PROVE  t[i] = IF i <= k - 1 THEN u[i] ELSE v[i - (k - 1)]
  BY <1>2, <1>5, <1>6, <1>8
<1>10. ASSUME NEW i \in DOMAIN t, i >= k PROVE t[i] = s[i + 1]
  BY <1>3, <1>8, <1>9, <1>10
<1>11. ASSUME NEW i \in DOMAIN t, i < k PROVE t[i] = s[i]
  BY <1>2, <1>8, <1>9, <1>11
<1>12. /\ t \in Seq(S)
       /\ \A i \in DOMAIN t :
            /\ i \in Nat
            /\ i < k => i \in DOMAIN s /\ t[i] = s[i]
            /\ i >= k => i + 1 \in DOMAIN s /\ t[i] = s[i + 1]
  BY <1>1, <1>5, <1>8, <1>10, <1>11
<1> QED BY <1>12 DEF t

\* TypeOK in two halves, one for the runs and the channel and one for the rest.
RunsTyped == pc \in [Runs -> Stages] /\ held \in [Runs -> Holders \cup {NoHolder}]
ChannelTyped == idle \in Seq(Holders) /\ waitq \in Seq(Runs)

\* Moving a run to another stage of Pool.Run keeps the stages typed.
LEMMA GotoType ==
  ASSUME RunsTyped, NEW r \in Runs, NEW s \in Stages, Goto(r, s)
  PROVE  pc' \in [Runs -> Stages]
BY DEF RunsTyped, Goto

\* So does the return of Pool.Run, which forgets the holder.
LEMMA ReturnType ==
  ASSUME RunsTyped, NEW r \in Runs, Return(r) PROVE RunsTyped'
BY StageNames DEF RunsTyped, Return, Goto

\* A send on p.idle, buffered or handed to a parked run, keeps runs and channel
\* typed.
LEMMA SendType ==
  ASSUME RunsTyped, ChannelTyped, NEW h \in Holders,
         NEW stages \in [Runs -> Stages], Send(h, stages)
  PROVE  RunsTyped' /\ ChannelTyped'
<1> USE DEF RunsTyped, ChannelTyped
<1> "lock" \in Stages
  BY StageNames
<1>1. CASE waitq # <<>>
  <2>1. Head(waitq) \in Runs /\ Tail(waitq) \in Seq(Runs)
    BY <1>1, HeadTail
  <2>2. [stages EXCEPT ![Head(waitq)] = "lock"] \in [Runs -> Stages]
    BY <2>1
  <2>3. [held EXCEPT ![Head(waitq)] = h] \in [Runs -> Holders \cup {NoHolder}]
    BY <2>1
  <2> QED BY <1>1, <2>1, <2>2, <2>3 DEF Send
<1>2. CASE waitq = <<>>
  <2>1. Append(idle, h) \in Seq(Holders)
    BY AppendSeq
  <2> QED BY <1>2, <2>1 DEF Send
<1> QED BY <1>1, <1>2

\* A receive from p.idle keeps runs and channel typed.
LEMMA ReceiveType ==
  ASSUME RunsTyped, ChannelTyped, NEW r \in Runs, Receive(r)
  PROVE  RunsTyped' /\ ChannelTyped'
<1> USE DEF RunsTyped, ChannelTyped
<1> "lock" \in Stages
  BY StageNames
<1>1. Head(idle) \in Holders /\ Tail(idle) \in Seq(Holders)
  BY HeadTail DEF Receive
<1> QED BY <1>1 DEF Receive

RestTyped ==
  /\ all \subseteq Holders /\ closed \in BOOLEAN
  /\ impl \in [Holders -> {"nil", "up", "down", "closed"}]
  /\ dead \subseteq Holders
  /\ mu \in [Holders -> Runs \cup {NoRun}]
  /\ age \in [Holders -> 0..IdleTicks]
  /\ rpc \in {"select", "count", "take", "judge", "teardown", "exited"}
  /\ rheld \in Holders \cup {NoHolder}
  /\ cpc \in {"open", "join", "snapshot", "drain", "teardown", "closed",
              "panicked"}
  /\ doomed \subseteq Holders
  /\ npc \in {"creating", "enqueue", "failed", "returned"}
  /\ nheld \in Holders \cup {NoHolder} /\ warmed \in 0..Min

\* While a run, the reaper or NewPool works with a holder, its variable names
\* one.
LEMMA HeldInHolders ==
  ASSUME SafeInv
  PROVE  /\ \A r \in Runs : pc[r] \in Holding => held[r] \in Holders
         /\ rpc \in {"judge", "teardown"} => rheld \in Holders
         /\ npc = "enqueue" => nheld \in Holders
BY DEF SafeInv, TypeOK, HeldOK

\* Every step of the pool keeps the runs' stages and holders and the channel
\* typed: the first half of TypeOK.
LEMMA RunsTypedStep ==
  ASSUME SafeInv, Next PROVE RunsTyped' /\ ChannelTyped'
<1> USE DEF At, ReaperAt, NewAt, runVars, poolVars, holderVars, reaperVars,
            closeVars, newVars, others
<1>a. RunsTyped /\ ChannelTyped
  BY DEF SafeInv, TypeOK, RunsTyped, ChannelTyped
<1>1. ASSUME NEW r \in Runs, Call(r) \/ Wait(r) PROVE RunsTyped' /\ ChannelTyped'
  <2>1. CASE Receive(r)
    BY <1>a, <2>1, ReceiveType
  <2>2. CASE ~Receive(r)
    <3>1. held' = held /\ \E s \in {"ready", "reserve", "parked"} : Goto(r, s)
      BY <1>1, <2>2 DEF Call, Wait
    <3>2. RunsTyped'
      BY <1>a, <3>1, GotoType, StageNames DEF RunsTyped
    <3>3. ChannelTyped'
      BY <1>a, <1>1, <2>2, AppendSeq DEF ChannelTyped, Call, Wait
    <3> QED BY <3>2, <3>3
  <2> QED BY <2>1, <2>2
<1>2. ASSUME NEW r \in Runs, Reserve(r) PROVE RunsTyped' /\ ChannelTyped'
  <2>1. \E s \in {"ready", "wait", "build"} : Goto(r, s)
    BY <1>2 DEF Reserve, ReserveSlot
  <2>2. pc' \in [Runs -> Stages]
    BY <1>a, <2>1, GotoType, StageNames
  <2>3. held' \in [Runs -> Holders \cup {NoHolder}]
    BY <1>a, <1>2 DEF RunsTyped, Reserve, ReserveSlot
  <2> QED BY <1>a, <1>2, <2>2, <2>3 DEF RunsTyped, ChannelTyped, Reserve
<1>3. ASSUME NEW r \in Runs, GiveUp(r) PROVE RunsTyped' /\ ChannelTyped'
  <2>1. RunsTyped'
    BY <1>a, <1>3, GotoType, StageNames DEF RunsTyped, GiveUp
  <2>2. waitq' \in Seq(Runs)
    BY <1>a, <1>3, RemoveAt DEF ChannelTyped, GiveUp
  <2> QED BY <1>a, <1>3, <2>1, <2>2 DEF ChannelTyped, GiveUp
<1>4. ASSUME NEW r \in Runs,
             \/ Build(r) \/ Lock(r) \/ Exec(r) \/ Check(r) \/ Release(r)
      PROVE  RunsTyped' /\ ChannelTyped'
  <2>1. UNCHANGED <<held, idle, waitq>> /\ \E s \in Stages : Goto(r, s)
    BY <1>4, StageNames DEF Build, Lock, Exec, Check, AfterCheck, Release
  <2> QED BY <1>a, <2>1, GotoType DEF RunsTyped, ChannelTyped
<1>5. ASSUME NEW r \in Runs, Unreserve(r) \/ Drop(r) \/ TearDown(r) \/ Unlock(r)
      PROVE  RunsTyped' /\ ChannelTyped'
  <2>1. UNCHANGED <<idle, waitq>>
        /\ \/ Return(r)
           \/ held' = held /\ Goto(r, "teardown")
    BY <1>5 DEF Unreserve, Drop, TearDown, Unlock
  <2> QED BY <1>a, <2>1, GotoType, ReturnType, StageNames DEF RunsTyped, ChannelTyped
<1>6. ASSUME NEW r \in Runs, Put(r) PROVE RunsTyped' /\ ChannelTyped'
  <2>1. held[r] \in Holders
    BY <1>6, HeldInHolders, StageNames DEF Put, Holding
  <2>2. [pc EXCEPT ![r] = "unlock"] \in [Runs -> Stages]
    BY <1>a, StageNames DEF RunsTyped
  <2> QED BY <1>a, <1>6, <2>1, <2>2, SendType DEF Put
<1>7. CASE PutBack \/ Enqueue
  <2>1. \E h \in Holders : Send(h, pc)
    BY <1>7, HeldInHolders DEF PutBack, Enqueue
  <2> QED BY <1>a, <2>1, SendType DEF RunsTyped
<1>8. CASE TakeIdle \/ Drain
  <2>1. UNCHANGED <<pc, held, waitq>>
    BY <1>8 DEF TakeIdle, Drain
  <2>2. idle' = idle \/ idle' = <<>> \/ (idle # <<>> /\ idle' = Tail(idle))
    BY <1>8 DEF TakeIdle, Drain
  <2>3. idle \in Seq(Holders) /\ <<>> \in Seq(Holders)
    BY <1>a DEF ChannelTyped
  <2>4. idle # <<>> => Tail(idle) \in Seq(Holders)
    BY <2>3, HeadTail
  <2>5. idle' \in Seq(Holders)
    BY <2>2, <2>3, <2>4
  <2> QED BY <1>a, <2>1, <2>5 DEF RunsTyped, ChannelTyped
<1>9. ASSUME UNCHANGED <<pc, held, idle, waitq>> PROVE RunsTyped' /\ ChannelTyped'
  BY <1>a, <1>9 DEF RunsTyped, ChannelTyped
<1>10. CASE Tick \/ StopReaper \/ Count \/ Reap \/ ReapTearDown \/ CloseBegin
  BY <1>9, <1>10 DEF Tick, StopReaper, Count, Reap, ReapTearDown, CloseBegin
<1>11. CASE JoinReaper \/ Snapshot \/ CloseOne \/ CloseReturn \/ CreateHolder
  BY <1>9, <1>11 DEF JoinReaper, Snapshot, CloseOne, CloseReturn, CreateHolder
<1>12. CASE \E h \in Holders : HolderDies(h)
  BY <1>9, <1>12 DEF HolderDies
<1> QED
  BY <1>1, <1>2, <1>3, <1>4, <1>5, <1>6, <1>7, <1>8, <1>10, <1>11, <1>12
     DEF Next, RunStep, ReapStep, CloseStep, NewStep

\* Every step of the pool keeps the registry, the holders, the reaper, Close
\* and NewPool typed: the second half of TypeOK.
LEMMA RestTypedStep ==
  ASSUME SafeInv, Next PROVE RestTyped'
<1> USE DEF At, ReaperAt, NewAt, runVars, poolVars, holderVars, reaperVars,
            closeVars, newVars, others
<1>a. RestTyped
  BY DEF SafeInv, TypeOK, RestTyped
<1>1. ASSUME NEW r \in Runs, Call(r) \/ Wait(r) \/ GiveUp(r) \/ Put(r)
      PROVE  RestTyped'
  BY <1>a, <1>1 DEF RestTyped, Call, Wait, GiveUp, Put
<1>2. ASSUME NEW r \in Runs, Reserve(r) PROVE RestTyped'
  <2>1. CASE \E h \in Holders : ReserveSlot(r, h)
    BY <1>a, <1>2, <2>1 DEF RestTyped, Reserve, ReserveSlot
  <2>2. CASE UNCHANGED <<held, all, impl, dead, age>>
    BY <1>a, <1>2, <2>2 DEF RestTyped, Reserve
  <2> QED BY <1>2, <2>1, <2>2 DEF Reserve
<1>3. ASSUME NEW r \in Runs, Build(r) \/ Unreserve(r) \/ TearDown(r) \/ Unlock(r)
      PROVE  RestTyped'
  BY <1>a, <1>3 DEF RestTyped, Build, Unreserve, TearDown, Unlock, Unregistered, Unlocked
<1>4. ASSUME NEW r \in Runs, Lock(r) \/ Exec(r) \/ Check(r) PROVE RestTyped'
  <2>1. held[r] \in Holders
    BY <1>4, HeldInHolders, StageNames DEF Lock, Exec, Check, Holding
  <2> QED BY <1>a, <1>4, <2>1 DEF RestTyped, Lock, Exec, Check
<1>5. ASSUME NEW r \in Runs, Drop(r) \/ Release(r) PROVE RestTyped'
  BY <1>a, <1>5 DEF RestTyped, Drop, Release, Unregistered, Unlocked
<1>6. CASE Tick \/ StopReaper \/ Count
  BY <1>a, <1>6 DEF RestTyped, Tick, StopReaper, Count
<1>7. CASE TakeIdle
  BY <1>a, <1>7, HeadTail DEF RestTyped, TakeIdle, SafeInv, TypeOK
<1>8. CASE PutBack \/ Reap \/ ReapTearDown
  BY <1>a, <1>8 DEF RestTyped, PutBack, PassEnds, Reap, ReapTearDown, Unregistered
<1>9. CASE CloseBegin \/ CloseStep
  BY <1>a, <1>9 DEF RestTyped, CloseBegin, CloseStep, JoinReaper, Snapshot, Drain,
                    CloseOne, CloseReturn
<1>10. CASE CreateHolder
  BY <1>a, <1>10 DEF RestTyped, CreateHolder
<1>11. CASE Enqueue
  BY <1>a, <1>11 DEF RestTyped, Enqueue, WarmedUp, SafeInv, WarmingOK
<1>12. ASSUME NEW h \in Holders, HolderDies(h) PROVE RestTyped'
  BY <1>a, <1>12 DEF RestTyped, HolderDies
<1> QED
  BY <1>1, <1>2, <1>3, <1>4, <1>5, <1>6, <1>7, <1>8, <1>9, <1>10, <1>11, <1>12
     DEF Next, RunStep, ReapStep, NewStep

\* Every step keeps TypeOK.
LEMMA TypeStep ==
  ASSUME SafeInv, [Next]_vars PROVE TypeOK'
<1>1. CASE Next
  BY <1>1, RunsTypedStep, RestTypedStep DEF TypeOK, RunsTyped, ChannelTyped, RestTyped
<1>2. CASE UNCHANGED vars
  BY <1>2 DEF SafeInv, TypeOK, vars, runVars, poolVars, holderVars, others, reaperVars,
              closeVars, newVars
<1> QED BY <1>1, <1>2

\* Taking the head of p.idle removes that holder from the queued ones, and no
\* other, because no holder is buffered twice.
LEMMA QueuedTail ==
  ASSUME idle \in Seq(Holders), idle # <<>>, Distinct, idle' = Tail(idle)
  PROVE  /\ Head(idle) \in Queued
         /\ Queued' = Queued \ {Head(idle)} /\ Distinct'
<1>1. /\ Head(idle) = idle[1] /\ 1 \in DOMAIN idle
      /\ \A i \in DOMAIN Tail(idle) : i + 1 \in DOMAIN idle /\ Tail(idle)[i] = idle[i + 1]
  BY HeadTail
<1>2. /\ DOMAIN idle = 1..Len(idle) /\ DOMAIN Tail(idle) = 1..(Len(idle) - 1)
      /\ Len(idle) \in Nat
  OBVIOUS
<1>3. Distinct'
  BY <1>1, <1>2 DEF Distinct
<1>4. ASSUME NEW i \in DOMAIN idle, i # 1
      PROVE  i - 1 \in DOMAIN Tail(idle) /\ Tail(idle)[i - 1] = idle[i]
  BY <1>1, <1>2, <1>4
<1>5. Queued' \subseteq Queued \ {Head(idle)}
  BY <1>1, <1>2 DEF Queued, Range, Distinct
<1>6. ASSUME NEW h \in Queued, h # Head(idle) PROVE h \in Queued'
  <2>1. PICK i \in DOMAIN idle : h = idle[i]
    BY DEF Queued, Range
  <2>2. i # 1
    BY <1>1, <1>6, <2>1
  <2> QED BY <1>4, <2>1, <2>2 DEF Queued, Range
<1> QED BY <1>1, <1>3, <1>5, <1>6 DEF Queued, Range

\* Buffering a holder that is not queued adds it to the queued ones and buffers
\* nothing twice.
LEMMA QueuedAppend ==
  ASSUME idle \in Seq(Holders), Distinct, NEW h \in Holders, h \notin Queued,
         idle' = Append(idle, h)
  PROVE  Queued' = Queued \cup {h} /\ Distinct'
<1>1. /\ DOMAIN idle' = DOMAIN idle \cup {Len(idle) + 1}
      /\ Len(idle) + 1 \notin DOMAIN idle
      /\ \A i \in DOMAIN idle : idle'[i] = idle[i]
      /\ idle'[Len(idle) + 1] = h
  BY AppendSeq
<1>2. \A i \in DOMAIN idle : idle[i] # h
  BY DEF Queued, Range
<1> QED BY <1>1, <1>2 DEF Queued, Range, Distinct

\* Every step keeps the receive queue of p.idle exact: a run joins it when it
\* parks and leaves it when it is handed a holder or its context ends.
LEMMA WaitersStep ==
  ASSUME SafeInv, Next PROVE WaitersOK'
<1> USE DEF At, ReaperAt, NewAt, runVars, poolVars, holderVars, reaperVars,
            closeVars, newVars, others
<1>a. RunsTyped /\ ChannelTyped /\ WaitersOK
  BY DEF SafeInv, TypeOK, RunsTyped, ChannelTyped
<1>b. ASSUME NEW r \in Runs, pc[r] # "parked", waitq' = waitq,
             NEW s \in Stages, Goto(r, s)
      PROVE  WaitersOK'
  BY <1>a, <1>b DEF WaitersOK, RunsTyped, ChannelTyped, Goto
<1>c. ASSUME NEW h, NEW stages \in [Runs -> Stages], Send(h, stages),
             \A q \in Runs : pc[q] = "parked" => stages[q] = "parked"
      PROVE  WaitersOK'
  <2>1. CASE waitq # <<>>
    <3>1. /\ Head(waitq) = waitq[1] /\ 1 \in DOMAIN waitq /\ Head(waitq) \in Runs
          /\ \A i \in DOMAIN Tail(waitq) :
               i + 1 \in DOMAIN waitq /\ Tail(waitq)[i] = waitq[i + 1]
      BY <1>a, <2>1, HeadTail DEF ChannelTyped
    <3>2. \A i \in DOMAIN waitq : i \in Nat /\ waitq[i] \in Runs
      BY <1>a DEF ChannelTyped
    <3>3. waitq' = Tail(waitq) /\ pc' = [stages EXCEPT ![Head(waitq)] = "lock"]
      BY <1>c, <2>1 DEF Send
    <3>4. DOMAIN Tail(waitq) \subseteq Nat
      BY <1>a, <2>1, HeadTail DEF ChannelTyped
    <3>5. \A i \in DOMAIN Tail(waitq) : Tail(waitq)[i] # Head(waitq) /\ Tail(waitq)[i] \in Runs
      BY <1>a, <3>1, <3>2, <3>4 DEF WaitersOK
    <3>6. \A i \in DOMAIN waitq' : pc'[waitq'[i]] = "parked"
      BY <1>a, <1>c, <3>1, <3>3, <3>5 DEF WaitersOK
    <3>7. \A i, j \in DOMAIN waitq' : i # j => waitq'[i] # waitq'[j]
      BY <1>a, <3>1, <3>3, <3>4 DEF WaitersOK
    <3> QED BY <3>6, <3>7 DEF WaitersOK
  <2>2. CASE waitq = <<>>
    BY <1>c, <2>2 DEF Send, WaitersOK
  <2> QED BY <2>1, <2>2
<1>1. ASSUME NEW r \in Runs, Call(r) PROVE WaitersOK'
  <2>1. pc[r] # "parked" /\ waitq' = waitq
        /\ (Goto(r, "lock") \/ Goto(r, "reserve"))
    BY <1>1 DEF Call, Receive, Goto
  <2> QED BY <1>b, <2>1, StageNames
<1>2. ASSUME NEW r \in Runs, Wait(r) PROVE WaitersOK'
  <2>1. CASE waitq' = waitq
    <3>1. pc[r] # "parked" /\ \E s \in {"lock", "ready", "parked"} : Goto(r, s)
      BY <1>2 DEF Wait, Receive, Goto
    <3> QED BY <1>b, <2>1, <3>1, StageNames
  <2>2. CASE Goto(r, "parked") /\ waitq' = Append(waitq, r)
    <3>1. /\ DOMAIN waitq' = DOMAIN waitq \cup {Len(waitq) + 1}
          /\ Len(waitq) + 1 \notin DOMAIN waitq
          /\ \A i \in DOMAIN waitq : waitq'[i] = waitq[i]
          /\ waitq'[Len(waitq) + 1] = r
      BY <1>a, <2>2, AppendSeq DEF ChannelTyped
    <3>2. \A i \in DOMAIN waitq : waitq[i] # r /\ waitq[i] \in Runs
      BY <1>a, <1>2 DEF Wait, WaitersOK, ChannelTyped
    <3> QED BY <1>a, <2>2, <3>1, <3>2 DEF WaitersOK, RunsTyped, Goto
  <2> QED BY <1>2, <2>1, <2>2 DEF Wait, Receive
<1>3. ASSUME NEW r \in Runs, GiveUp(r) PROVE WaitersOK'
  <2>1. PICK k \in DOMAIN waitq : waitq[k] = r /\ waitq' = Seqs!RemoveAt(waitq, k)
    BY <1>3 DEF GiveUp
  <2>2. \A i \in DOMAIN waitq' :
             /\ i \in Nat
             /\ i < k => i \in DOMAIN waitq /\ waitq'[i] = waitq[i]
             /\ i >= k => i + 1 \in DOMAIN waitq /\ waitq'[i] = waitq[i + 1]
    <3>1. waitq \in Seq(Runs)
      BY <1>a DEF ChannelTyped
    <3> QED BY <2>1, <3>1, RemoveAt
  <2>3. /\ k \in Nat /\ k \in DOMAIN waitq
        /\ \A i \in DOMAIN waitq : waitq[i] \in Runs /\ pc[waitq[i]] = "parked"
        /\ \A i, j \in DOMAIN waitq : i # j => waitq[i] # waitq[j]
    BY <1>a, <2>1 DEF ChannelTyped, WaitersOK
  <2>4. \A i \in DOMAIN waitq' :
          waitq'[i] \in Runs /\ waitq'[i] # r /\ pc[waitq'[i]] = "parked"
    <3> SUFFICES ASSUME NEW i \in DOMAIN waitq'
                 PROVE  waitq'[i] \in Runs /\ waitq'[i] # r /\ pc[waitq'[i]] = "parked"
      OBVIOUS
    <3>1. CASE i < k
      BY <2>1, <2>2, <2>3, <3>1
    <3>2. CASE i >= k
      <4>1. i + 1 \in DOMAIN waitq /\ waitq'[i] = waitq[i + 1] /\ i + 1 # k
        BY <2>2, <2>3, <3>2
      <4> QED BY <2>1, <2>3, <4>1
    <3> QED BY <2>2, <2>3, <3>1, <3>2
  <2>5. \A i, j \in DOMAIN waitq' : i # j => waitq'[i] # waitq'[j]
    BY <2>2, <2>3
  <2>6. \A q \in Runs \ {r} : pc'[q] = pc[q]
    BY <1>a, <1>3 DEF GiveUp, Goto, RunsTyped
  <2> QED BY <2>4, <2>5, <2>6 DEF WaitersOK
<1>4. ASSUME NEW r \in Runs,
             \/ Reserve(r) \/ Build(r) \/ Unreserve(r) \/ Lock(r) \/ Exec(r)
             \/ Check(r) \/ Drop(r) \/ Release(r) \/ TearDown(r) \/ Unlock(r)
      PROVE  WaitersOK'
  <2>1. pc[r] # "parked" /\ waitq' = waitq
    BY <1>4 DEF Reserve, Build, Unreserve, Lock, Exec, Check, Drop, Release, TearDown, Unlock
  <2>2. \E s \in Stages : Goto(r, s)
    BY <1>4, StageNames DEF Reserve, ReserveSlot, Build, Unreserve, Lock, Exec, Check,
                            AfterCheck, Drop, Release, TearDown, Unlock, Return
  <2> QED BY <1>b, <2>1, <2>2
<1>5. ASSUME NEW r \in Runs, Put(r) PROVE WaitersOK'
  <2>1. [pc EXCEPT ![r] = "unlock"] \in [Runs -> Stages] /\ pc[r] # "parked"
    BY <1>a, <1>5, StageNames DEF RunsTyped, Put
  <2>2. \A q \in Runs : pc[q] = "parked" => [pc EXCEPT ![r] = "unlock"][q] = "parked"
    BY <1>a, <2>1 DEF RunsTyped
  <2> QED BY <1>5, <1>c, <2>1, <2>2 DEF Put
<1>6. CASE PutBack \/ Enqueue
  BY <1>a, <1>6, <1>c DEF PutBack, Enqueue, RunsTyped
<1>7. ASSUME UNCHANGED <<pc, waitq>> PROVE WaitersOK'
  BY <1>a, <1>7 DEF WaitersOK
<1>8. CASE Tick \/ StopReaper \/ Count \/ TakeIdle \/ Reap \/ ReapTearDown
  BY <1>7, <1>8 DEF Tick, StopReaper, Count, TakeIdle, Reap, ReapTearDown
<1>9. CASE CloseBegin \/ CloseStep \/ CreateHolder
  BY <1>7, <1>9 DEF CloseBegin, CloseStep, JoinReaper, Snapshot, Drain, CloseOne,
                    CloseReturn, CreateHolder
<1>10. CASE \E h \in Holders : HolderDies(h)
  BY <1>7, <1>10 DEF HolderDies
<1> QED
  BY <1>1, <1>2, <1>3, <1>4, <1>5, <1>6, <1>8, <1>9, <1>10
     DEF Next, RunStep, ReapStep, NewStep

\* Every step keeps the holder variables of Pool.Run, reapIdle and NewPool
\* exact.
LEMMA HeldStep ==
  ASSUME SafeInv, Next PROVE HeldOK'
<1> USE DEF At, ReaperAt, NewAt, runVars, poolVars, holderVars, reaperVars,
            closeVars, newVars, others
<1>a. RunsTyped /\ ChannelTyped /\ HeldOK
  BY DEF SafeInv, TypeOK, RunsTyped, ChannelTyped
<1>b. "ready" \notin Holding /\ "reserve" \notin Holding /\ "wait" \notin Holding
      /\ "parked" \notin Holding /\ "unlock" \in Holding /\ OwnStages \subseteq Holding
  BY StageNames DEF Holding
<1>c. ASSUME NEW r \in Runs, UNCHANGED <<rpc, rheld, npc, nheld>>,
             NEW s \in Stages, Goto(r, s), NEW h,
             held' = [held EXCEPT ![r] = h], h # NoHolder <=> s \in Holding
      PROVE  HeldOK'
  BY <1>a, <1>c DEF HeldOK, RunsTyped, Goto
<1>d. ASSUME NEW r \in Runs, UNCHANGED <<rpc, rheld, npc, nheld, held>>,
             NEW s \in Stages, Goto(r, s), pc[r] \in Holding <=> s \in Holding
      PROVE  HeldOK'
  BY <1>a, <1>d DEF HeldOK, RunsTyped, Goto
<1>e. ASSUME NEW h \in Holders, NEW stages \in [Runs -> Stages], Send(h, stages),
             \A q \in Runs : /\ pc[q] \in Holding <=> stages[q] \in Holding
                             /\ pc[q] = "parked" => stages[q] = "parked"
      PROVE  \A q \in Runs : held'[q] # NoHolder <=> pc'[q] \in Holding
  <2>1. CASE waitq # <<>>
    <3>1. Head(waitq) \in Runs
      BY <1>a, <2>1, HeadTail DEF ChannelTyped
    <3>2. /\ pc' = [stages EXCEPT ![Head(waitq)] = "lock"]
          /\ held' = [held EXCEPT ![Head(waitq)] = h]
      BY <1>e, <2>1 DEF Send
    <3> QED BY <1>a, <1>b, <1>e, <3>1, <3>2, StageNames DEF HeldOK, RunsTyped
  <2>2. CASE waitq = <<>>
    BY <1>a, <1>e, <2>2 DEF Send, HeldOK
  <2> QED BY <2>1, <2>2
<1>f. ASSUME NEW r \in Runs, Receive(r), UNCHANGED <<rpc, rheld, npc, nheld>>
      PROVE  HeldOK'
  <2>1. Head(idle) \in Holders
    BY <1>a, <1>f, HeadTail DEF ChannelTyped, Receive
  <2>2. Head(idle) # NoHolder /\ "lock" \in Holding /\ "lock" \in Stages
    BY <1>b, <2>1, StageNames
  <2> QED BY <1>c, <1>f, <2>2 DEF Receive, Goto
<1>1. ASSUME NEW r \in Runs, Call(r) \/ Wait(r) \/ GiveUp(r) PROVE HeldOK'
  <2>1. UNCHANGED <<rpc, rheld, npc, nheld>> /\ pc[r] \notin Holding
    BY <1>1, <1>b DEF Call, Wait, GiveUp
  <2>2. CASE Receive(r)
    BY <1>f, <2>1, <2>2
  <2>3. CASE ~Receive(r)
    <3>1. held' = held /\ \E s \in {"ready", "reserve", "parked"} : Goto(r, s)
      BY <1>1, <2>3 DEF Call, Wait, GiveUp
    <3> QED BY <1>b, <1>d, <2>1, <3>1, StageNames
  <2> QED BY <2>2, <2>3
<1>2. ASSUME NEW r \in Runs, Reserve(r) PROVE HeldOK'
  <2>1. UNCHANGED <<rpc, rheld, npc, nheld>> /\ pc[r] \notin Holding
    BY <1>2, <1>b DEF Reserve
  <2>2. CASE \E h \in Holders : ReserveSlot(r, h)
    <3>1. PICK h \in Holders : Goto(r, "build") /\ held' = [held EXCEPT ![r] = h]
      BY <2>2 DEF ReserveSlot
    <3> QED BY <1>b, <1>c, <2>1, <3>1, StageNames
  <2>3. CASE held' = held /\ \E s \in {"ready", "wait"} : Goto(r, s)
    BY <1>b, <1>d, <2>1, <2>3, StageNames
  <2> QED BY <1>2, <2>2, <2>3 DEF Reserve
<1>3. ASSUME NEW r \in Runs,
             \/ Build(r) \/ Lock(r) \/ Exec(r) \/ Check(r) \/ Release(r)
      PROVE  HeldOK'
  <2>1. UNCHANGED <<rpc, rheld, npc, nheld, held>> /\ pc[r] \in Holding
        /\ \E s \in OwnStages : Goto(r, s)
    BY <1>3, <1>b, StageNames DEF Build, Lock, Exec, Check, AfterCheck, Release
  <2> QED BY <1>b, <1>d, <2>1, StageNames DEF Stages
<1>4. ASSUME NEW r \in Runs, Unreserve(r) \/ Drop(r) \/ TearDown(r) \/ Unlock(r)
      PROVE  HeldOK'
  <2>1. UNCHANGED <<rpc, rheld, npc, nheld>> /\ pc[r] \in Holding
        /\ (Return(r) \/ (held' = held /\ Goto(r, "teardown")))
    BY <1>4, <1>b, StageNames DEF Unreserve, Drop, TearDown, Unlock
  <2> QED BY <1>b, <1>c, <1>d, <2>1, StageNames DEF Return
<1>5. ASSUME NEW r \in Runs, Put(r) PROVE HeldOK'
  <2>1. pc[r] \in Holding /\ held[r] \in Holders
    BY <1>5, <1>b, HeldInHolders, StageNames DEF Put
  <2>2. [pc EXCEPT ![r] = "unlock"] \in [Runs -> Stages]
    BY <1>a, StageNames DEF RunsTyped
  <2>3. \A q \in Runs :
          /\ pc[q] \in Holding <=> [pc EXCEPT ![r] = "unlock"][q] \in Holding
          /\ pc[q] = "parked" => [pc EXCEPT ![r] = "unlock"][q] = "parked"
    BY <1>a, <1>b, <1>5, <2>1 DEF RunsTyped, Put
  <2> QED BY <1>a, <1>5, <1>e, <2>1, <2>2, <2>3 DEF Put, HeldOK
<1>6. CASE PutBack
  <2>1. rheld \in Holders
    BY <1>6, HeldInHolders DEF PutBack
  <2> QED BY <1>a, <1>6, <1>e, <2>1 DEF PutBack, PassEnds, HeldOK, RunsTyped
<1>7. CASE Enqueue
  <2>1. nheld \in Holders
    BY <1>7, HeldInHolders DEF Enqueue
  <2> QED BY <1>a, <1>7, <1>e, <2>1 DEF Enqueue, HeldOK, RunsTyped
<1>8. CASE TakeIdle
  <2>1. idle # <<>> => Head(idle) \in Holders
    BY <1>a, HeadTail DEF ChannelTyped
  <2> QED BY <1>a, <1>8, <2>1 DEF TakeIdle, HeldOK
<1>9. CASE Tick \/ StopReaper \/ Count \/ Reap \/ ReapTearDown
  BY <1>a, <1>9 DEF HeldOK, Tick, StopReaper, Count, Reap, ReapTearDown
<1>10. CASE CloseBegin \/ CloseStep \/ CreateHolder
  BY <1>a, <1>10 DEF HeldOK, CloseBegin, CloseStep, JoinReaper, Snapshot, Drain, CloseOne,
                     CloseReturn, CreateHolder
<1>11. CASE \E h \in Holders : HolderDies(h)
  BY <1>a, <1>11 DEF HeldOK, HolderDies
<1> QED
  BY <1>1, <1>2, <1>3, <1>4, <1>5, <1>6, <1>7, <1>8, <1>9, <1>10, <1>11
     DEF Next, RunStep, ReapStep, NewStep

\* A step that hands nobody a holder, and only ends custodies, keeps Custody.
LEMMA CustodyShrinks ==
  ASSUME Custody, Distinct', Queued' \subseteq Queued,
         rheld' \in {rheld, NoHolder}, nheld' \in {nheld, NoHolder},
         NoHolder \notin Queued, \A q \in Runs : Owns(q) => held[q] # NoHolder,
         \A q \in Runs : Owns(q)' => Owns(q) /\ held'[q] = held[q]
  PROVE  Custody'
BY DEF Custody, Distinct

\* A step that gives one run a holder nobody else has afterwards keeps Custody.
LEMMA CustodyGained ==
  ASSUME Custody, Distinct', Queued' \subseteq Queued,
         rheld' \in {rheld, NoHolder}, nheld' \in {nheld, NoHolder},
         NoHolder \notin Queued, \A q \in Runs : Owns(q) => held[q] # NoHolder,
         NEW r \in Runs, NEW h \in Holders, held'[r] = h,
         h \notin Queued' \cup {rheld', nheld'},
         \A q \in Runs \ {r} : Owns(q)' => Owns(q) /\ held'[q] = held[q] /\ held[q] # h
  PROVE  Custody'
BY DEF Custody, Distinct

\* The parts of the invariant that the arguments about custody use.
LEMMA CustodyFacts ==
  ASSUME SafeInv
  PROVE  /\ RunsTyped /\ ChannelTyped /\ Custody /\ Distinct
         /\ NoHolder \notin Queued /\ \A q \in Runs : Owns(q) => held[q] # NoHolder
<1>1. RunsTyped /\ ChannelTyped
  BY DEF SafeInv, TypeOK, RunsTyped, ChannelTyped
<1>2. Custody /\ Distinct
  BY DEF SafeInv, Custody, Distinct
<1>3. NoHolder \notin Queued
  <2>1. \A i \in DOMAIN idle : idle[i] \in Holders
    BY <1>1 DEF ChannelTyped
  <2> QED BY <2>1 DEF Queued, Range
<1>4. \A q \in Runs : Owns(q) => held[q] # NoHolder
  BY DEF SafeInv, HeldOK, Holding, Owns
<1> QED BY <1>1, <1>2, <1>3, <1>4

\* A send on p.idle (pool.go:208, 136, 301) moves the holder from the sender to
\* one receiver or one place in the buffer.
LEMMA CustodySend ==
  ASSUME SafeInv, NEW h \in Holders, NEW stages \in [Runs -> Stages], Send(h, stages),
         h \notin Queued \cup {rheld', nheld'},
         rheld' \in {rheld, NoHolder}, nheld' \in {nheld, NoHolder},
         \A q \in Runs : stages[q] \in OwnStages => Owns(q) /\ held[q] # h
  PROVE  Custody'
<1>a. /\ RunsTyped /\ ChannelTyped /\ Custody /\ Distinct
      /\ NoHolder \notin Queued /\ \A q \in Runs : Owns(q) => held[q] # NoHolder
  BY CustodyFacts
<1>1. CASE waitq # <<>>
  <2>1. Head(waitq) \in Runs
    BY <1>a, <1>1, HeadTail DEF ChannelTyped
  <2>2. /\ pc' = [stages EXCEPT ![Head(waitq)] = "lock"]
        /\ held' = [held EXCEPT ![Head(waitq)] = h] /\ idle' = idle
    BY <1>1 DEF Send
  <2>3. Queued' = Queued /\ Distinct'
    BY <1>a, <2>2 DEF Queued, Distinct
  <2>4. held'[Head(waitq)] = h
    BY <1>a, <2>1, <2>2 DEF RunsTyped
  <2>5. \A q \in Runs \ {Head(waitq)} :
          Owns(q)' => Owns(q) /\ held'[q] = held[q] /\ held[q] # h
    BY <1>a, <2>1, <2>2 DEF RunsTyped, Owns
  <2> QED BY <1>a, <2>1, <2>3, <2>4, <2>5, CustodyGained
<1>2. CASE waitq = <<>>
  <2>1. idle' = Append(idle, h) /\ pc' = stages /\ held' = held
    BY <1>2 DEF Send
  <2>2. Queued' = Queued \cup {h} /\ Distinct'
    BY <1>a, <2>1, QueuedAppend DEF ChannelTyped
  <2>3. \A q \in Runs : Owns(q)' => Owns(q) /\ held'[q] = held[q] /\ held[q] # h
    BY <2>1 DEF Owns
  <2> QED BY <1>a, <2>2, <2>3 DEF Custody, Distinct
<1> QED BY <1>1, <1>2

\* A receive in acquire (pool.go:160, 189) moves the holder from the buffer to
\* the run.
LEMMA CustodyReceive ==
  ASSUME SafeInv, NEW r \in Runs, ~Owns(r), Receive(r), UNCHANGED <<rheld, nheld>>
  PROVE  Custody'
<1>a. /\ RunsTyped /\ ChannelTyped /\ Custody /\ Distinct
      /\ NoHolder \notin Queued /\ \A q \in Runs : Owns(q) => held[q] # NoHolder
  BY CustodyFacts
<1>1. /\ idle # <<>> /\ idle' = Tail(idle)
      /\ held' = [held EXCEPT ![r] = Head(idle)] /\ pc' = [pc EXCEPT ![r] = "lock"]
  BY DEF Receive
<1>2. Head(idle) \in Queued /\ Queued' = Queued \ {Head(idle)} /\ Distinct'
  BY <1>a, <1>1, QueuedTail DEF ChannelTyped
<1>3. Head(idle) \in Holders
  BY <1>a, <1>1, HeadTail DEF ChannelTyped
<1>4. held'[r] = Head(idle)
  BY <1>a, <1>1 DEF RunsTyped
<1>5. \A q \in Runs \ {r} :
        Owns(q)' => Owns(q) /\ held'[q] = held[q] /\ held[q] # Head(idle)
  BY <1>a, <1>1, <1>2 DEF RunsTyped, Owns, Custody
<1>6. Head(idle) \notin Queued' \cup {rheld', nheld'}
  BY <1>a, <1>2 DEF Custody
<1> QED BY <1>a, <1>2, <1>3, <1>4, <1>5, <1>6, CustodyGained

\* Every step of Run, the reaper, Close and NewPool keeps Custody.
LEMMA CustodyStep ==
  ASSUME SafeInv, Next PROVE Custody'
<1> USE DEF At, ReaperAt, NewAt, runVars, poolVars, holderVars, reaperVars,
            closeVars, newVars, others
<1>a. /\ RunsTyped /\ ChannelTyped /\ Custody /\ Distinct /\ HeldOK
      /\ NoHolder \notin Queued /\ \A q \in Runs : Owns(q) => held[q] # NoHolder
  BY CustodyFacts DEF SafeInv
<1>b. ASSUME NEW r \in Runs, UNCHANGED <<idle, rheld, nheld>>, NEW s, Goto(r, s),
             \/ held' = held /\ (s \in OwnStages => pc[r] \in OwnStages)
             \/ s \notin OwnStages /\ held' = [held EXCEPT ![r] = NoHolder]
      PROVE  Custody'
  <2>1. Queued' = Queued /\ Distinct'
    BY <1>a, <1>b DEF Queued, Distinct
  <2>2. \A q \in Runs : Owns(q)' => Owns(q) /\ held'[q] = held[q]
    BY <1>a, <1>b DEF RunsTyped, Goto, Owns
  <2> QED BY <1>a, <1>b, <2>1, <2>2, CustodyShrinks
<1>1. ASSUME NEW r \in Runs, Call(r) \/ Wait(r) \/ GiveUp(r) PROVE Custody'
  <2>1. ~Owns(r) /\ UNCHANGED <<rheld, nheld>>
    BY <1>1, StageNames DEF Call, Wait, GiveUp, Owns
  <2>2. CASE Receive(r)
    BY <2>1, <2>2, CustodyReceive
  <2>3. CASE ~Receive(r)
    <3>1. UNCHANGED <<held, idle>> /\ \E s \in {"ready", "reserve", "parked"} : Goto(r, s)
      BY <1>1, <2>3 DEF Call, Wait, GiveUp
    <3> QED BY <1>b, <2>1, <3>1, StageNames
  <2> QED BY <2>2, <2>3
<1>2. ASSUME NEW r \in Runs, Reserve(r) PROVE Custody'
  <2>1. UNCHANGED <<idle, rheld, nheld>>
    BY <1>2 DEF Reserve
  <2>2. CASE \E h \in Holders : Fresh(h) /\ ReserveSlot(r, h)
    <3>1. PICK h \in Holders : Fresh(h) /\ held' = [held EXCEPT ![r] = h] /\ Goto(r, "build")
      BY <2>2 DEF ReserveSlot
    <3>2. Queued' = Queued /\ Distinct'
      BY <1>a, <2>1 DEF Queued, Distinct
    <3>3. h \notin Queued' \cup {rheld', nheld'} /\ held'[r] = h
      BY <1>a, <2>1, <3>1, <3>2 DEF Fresh, RunsTyped
    <3>4. \A q \in Runs \ {r} : Owns(q)' => Owns(q) /\ held'[q] = held[q] /\ held[q] # h
      BY <1>a, <3>1 DEF RunsTyped, Goto, Owns, Fresh
    <3> QED BY <1>a, <2>1, <3>2, <3>3, <3>4, CustodyGained
  <2>3. CASE held' = held /\ \E s \in {"ready", "wait"} : Goto(r, s)
    BY <1>b, <2>1, <2>3, StageNames
  <2> QED BY <1>2, <2>2, <2>3 DEF Reserve
<1>3. ASSUME NEW r \in Runs,
             \/ Build(r) \/ Lock(r) \/ Exec(r) \/ Check(r) \/ Release(r)
      PROVE  Custody'
  <2>1. UNCHANGED <<idle, rheld, nheld, held>> /\ pc[r] \in OwnStages
        /\ \E s \in OwnStages : Goto(r, s)
    BY <1>3, StageNames DEF Build, Lock, Exec, Check, AfterCheck, Release
  <2> QED BY <1>b, <2>1
<1>4. ASSUME NEW r \in Runs, Unreserve(r) \/ Drop(r) \/ TearDown(r) \/ Unlock(r)
      PROVE  Custody'
  <2>1. CASE Return(r)
    <3>1. UNCHANGED <<idle, rheld, nheld>>
      BY <1>4 DEF Unreserve, Drop, TearDown, Unlock
    <3> QED BY <1>b, <2>1, <3>1, StageNames DEF Return
  <2>2. CASE ~Return(r)
    <3>1. UNCHANGED <<idle, rheld, nheld, held>> /\ pc[r] \in OwnStages /\ Goto(r, "teardown")
      BY <1>4, <2>2, StageNames DEF Unreserve, Drop, TearDown, Unlock
    <3> QED BY <1>b, <3>1
  <2> QED BY <2>1, <2>2
<1>5. ASSUME NEW r \in Runs, Put(r) PROVE Custody'
  <2>1. Owns(r) /\ held[r] \in Holders /\ UNCHANGED <<rheld, nheld>>
    BY <1>5, HeldInHolders, StageNames DEF Put, Owns, Holding
  <2>2. [pc EXCEPT ![r] = "unlock"] \in [Runs -> Stages]
    BY <1>a, StageNames DEF RunsTyped
  <2>3. held[r] \notin Queued \cup {rheld', nheld'}
    BY <1>a, <2>1 DEF Custody
  <2>4. \A q \in Runs : [pc EXCEPT ![r] = "unlock"][q] \in OwnStages
                          => Owns(q) /\ held[q] # held[r]
    BY <1>a, <2>1, StageNames DEF RunsTyped, Owns, Custody
  <2> QED BY <1>5, <2>1, <2>2, <2>3, <2>4, CustodySend DEF Put
<1>6. CASE PutBack
  <2>1. rheld \in Holders /\ rheld' = NoHolder /\ nheld' = nheld
    BY <1>6, HeldInHolders DEF PutBack, PassEnds
  <2>2. rheld \notin Queued \cup {rheld', nheld'}
    BY <1>a, <2>1 DEF Custody
  <2>3. \A q \in Runs : pc[q] \in OwnStages => Owns(q) /\ held[q] # rheld
    BY <1>a DEF Owns, Custody
  <2> QED BY <1>a, <1>6, <2>1, <2>2, <2>3, CustodySend DEF PutBack, RunsTyped
<1>7. CASE Enqueue
  <2>1. nheld \in Holders /\ nheld' = NoHolder /\ rheld' = rheld
    BY <1>7, HeldInHolders DEF Enqueue
  <2>2. nheld \notin Queued \cup {rheld', nheld'}
    BY <1>a, <2>1 DEF Custody
  <2>3. \A q \in Runs : pc[q] \in OwnStages => Owns(q) /\ held[q] # nheld
    BY <1>a DEF Owns, Custody
  <2> QED BY <1>a, <1>7, <2>1, <2>2, <2>3, CustodySend DEF Enqueue, RunsTyped
<1>8. CASE TakeIdle
  <2>1. CASE UNCHANGED <<idle, rheld>>
    BY <1>a, <1>8, <2>1 DEF TakeIdle, Custody, Queued, Owns
  <2>2. CASE idle # <<>> /\ rheld' = Head(idle) /\ idle' = Tail(idle)
    <3>1. Head(idle) \in Queued /\ Queued' = Queued \ {Head(idle)} /\ Distinct'
      BY <1>a, <2>2, QueuedTail DEF ChannelTyped
    <3>2. UNCHANGED <<pc, held, nheld>>
      BY <1>8 DEF TakeIdle
    <3> QED BY <1>a, <2>2, <3>1, <3>2 DEF Custody, Distinct, Owns
  <2> QED BY <1>8, <2>1, <2>2 DEF TakeIdle
<1>9. CASE CreateHolder
  <2>1. UNCHANGED <<pc, held, idle, rheld>>
    BY <1>9 DEF CreateHolder
  <2>2. CASE nheld' = nheld
    BY <1>a, <2>1, <2>2 DEF Custody, Queued, Owns
  <2>3. CASE nheld' # nheld
    <3>1. nheld' \in Holders /\ Fresh(nheld')
      BY <1>9, <2>3 DEF CreateHolder
    <3>2. nheld' \notin Queued \cup {rheld} /\ \A q \in Runs : held[q] # nheld'
      BY <3>1 DEF Fresh
    <3> QED BY <1>a, <2>1, <3>1, <3>2 DEF Custody, Queued, Owns
  <2> QED BY <2>2, <2>3
<1>10. ASSUME UNCHANGED <<pc, held, nheld>>, rheld' \in {rheld, NoHolder},
              idle' \in {idle, <<>>}
       PROVE  Custody'
  <2>1. Queued' \subseteq Queued /\ Distinct'
    BY <1>a, <1>10 DEF Queued, Range, Distinct
  <2>2. \A q \in Runs : Owns(q)' => Owns(q) /\ held'[q] = held[q]
    BY <1>10 DEF Owns
  <2> QED BY <1>a, <1>10, <2>1, <2>2, CustodyShrinks
<1>11. CASE Tick \/ StopReaper \/ Count \/ Reap \/ ReapTearDown
  BY <1>10, <1>11 DEF Tick, StopReaper, Count, Reap, ReapTearDown
<1>12. CASE CloseBegin \/ CloseStep
  BY <1>10, <1>12 DEF CloseBegin, CloseStep, JoinReaper, Snapshot, Drain, CloseOne, CloseReturn
<1>13. CASE \E h \in Holders : HolderDies(h)
  BY <1>10, <1>13 DEF HolderDies
<1> QED
  BY <1>1, <1>2, <1>3, <1>4, <1>5, <1>6, <1>7, <1>8, <1>9, <1>11, <1>12, <1>13
     DEF Next, RunStep, ReapStep, NewStep

\* NewPool stops warming holders up when there are Min of them.
LEMMA WarmingStep ==
  ASSUME SafeInv, Next PROVE WarmingOK'
<1> USE DEF SafeInv, TypeOK, WarmingOK, newVars, others
<1>1. CASE NewStep
  BY <1>1 DEF NewStep, CreateHolder, Enqueue, WarmedUp, NewAt
<1>2. CASE UNCHANGED newVars
  BY <1>2
<1>3. ASSUME NEW r \in Runs, Call(r) \/ RunStep(r) \/ GiveUp(r) PROVE UNCHANGED newVars
  BY <1>3 DEF Call, RunStep, GiveUp, Reserve, Build, Unreserve, Wait, Lock, Exec, Check,
              Drop, Release, Put, TearDown, Unlock
<1>4. CASE Tick \/ StopReaper \/ ReapStep
  BY <1>2, <1>4 DEF Tick, StopReaper, ReapStep, Count, TakeIdle, PutBack, Reap, ReapTearDown
<1>5. CASE CloseBegin \/ CloseStep
  BY <1>2, <1>5 DEF CloseBegin, CloseStep, JoinReaper, Snapshot, Drain, CloseOne, CloseReturn
<1>6. CASE \E h \in Holders : HolderDies(h)
  BY <1>2, <1>6 DEF HolderDies
<1> QED BY <1>1, <1>2, <1>3, <1>4, <1>5, <1>6 DEF Next

\* Removing holders from p.all (drop, release, Close) does not raise the live
\* count.
LEMMA FewerHolders ==
  ASSUME SafeInv, all' \subseteq all PROVE Live' <= Live /\ Live' \in Nat /\ Live \in Nat
<1>1. IsFiniteSet(all)
  BY FS_Subset DEF SafeInv, TypeOK
<1> QED BY <1>1, FS_Subset, FS_CardinalityType DEF Live

\* Registering a holder (acquire, createHolder) raises the live count by one at
\* most.
LEMMA OneMoreHolder ==
  ASSUME SafeInv, NEW h \in Holders, all' = all \cup {h}
  PROVE  Live' <= Live + 1 /\ Live' \in Nat /\ Live \in Nat
<1>1. IsFiniteSet(all)
  BY FS_Subset DEF SafeInv, TypeOK
<1>2. Cardinality(all) \in Nat
  BY <1>1, FS_CardinalityType
<1>3. Cardinality(all \cup {h}) = IF h \in all THEN Cardinality(all) ELSE Cardinality(all) + 1
  BY <1>1, FS_AddElement
<1> QED BY <1>2, <1>3 DEF Live

\* Every step keeps the live count within Max: acquire tests it in the p.mu
\* section that reserves the slot, and NewPool registers at most Min <= Max
\* holders before anybody can call Run.
LEMMA LiveStep ==
  ASSUME SafeInv, Next PROVE LiveOK'
<1> USE DEF At, ReaperAt, NewAt, runVars, poolVars, holderVars, reaperVars,
            closeVars, newVars, others
<1>a. LiveOK /\ RunsTyped /\ ChannelTyped /\ WaitersOK /\ warmed \in Nat
  BY DEF SafeInv, TypeOK, RunsTyped, ChannelTyped
<1>b. npc # "returned" => waitq = <<>>
  <2>1. waitq # <<>> => 1 \in DOMAIN waitq /\ waitq[1] \in Runs
    BY <1>a, HeadTail DEF ChannelTyped
  <2> QED BY <1>a, <2>1 DEF LiveOK, WaitersOK
<1>c. ASSUME all' \subseteq all, npc' = npc, npc # "returned" => pc' = pc, warmed' = warmed
      PROVE  LiveOK'
  BY <1>a, <1>c, FewerHolders DEF LiveOK, LiveWithinMax
<1>1. ASSUME NEW r \in Runs, Reserve(r) PROVE LiveOK'
  <2>1. npc = "returned" /\ npc' = npc
    BY <1>a, <1>1 DEF LiveOK, Reserve
  <2>2. CASE \E h \in Holders : ReserveSlot(r, h) /\ HasSlot
    <3>1. PICK h \in Holders : all' = all \cup {h} /\ HasSlot
      BY <2>2 DEF ReserveSlot
    <3> QED BY <2>1, <3>1, OneMoreHolder DEF LiveOK, LiveWithinMax, HasSlot
  <2>3. CASE all' = all
    BY <1>1, <1>c, <2>1, <2>3 DEF Reserve
  <2> QED BY <1>1, <2>2, <2>3 DEF Reserve
<1>2. ASSUME NEW r \in Runs, Call(r) \/ (RunStep(r) /\ ~Reserve(r)) \/ GiveUp(r) PROVE LiveOK'
  <2>1. npc = "returned"
    BY <1>a, <1>2 DEF LiveOK, Call, RunStep, GiveUp, Build, Unreserve, Wait, Lock, Exec,
                      Check, Drop, Release, Put, TearDown, Unlock
  <2>2. all' \subseteq all /\ UNCHANGED newVars
    BY <1>2 DEF Call, RunStep, GiveUp, Build, Unreserve, Wait, Lock, Exec, Check, Drop,
                Release, Put, TearDown, Unlock, Unregistered
  <2> QED BY <1>c, <2>1, <2>2
<1>3. CASE Tick \/ StopReaper \/ Count \/ TakeIdle \/ Reap \/ ReapTearDown
  <2>1. all' \subseteq all /\ UNCHANGED <<pc, newVars>>
    BY <1>3 DEF Tick, StopReaper, Count, TakeIdle, Reap, ReapTearDown, Unregistered
  <2> QED BY <1>c, <2>1
<1>4. CASE PutBack
  BY <1>b, <1>c, <1>4 DEF PutBack, Send
<1>5. CASE CloseBegin \/ CloseStep
  <2>1. all' \subseteq all /\ UNCHANGED <<pc, newVars>>
    BY <1>5 DEF CloseBegin, CloseStep, JoinReaper, Snapshot, Drain, CloseOne, CloseReturn
  <2> QED BY <1>c, <2>1
<1>6. CASE CreateHolder
  <2>1. npc = "creating" /\ pc' = pc /\ warmed' = warmed /\ npc' \in {"enqueue", "failed"}
    BY <1>6 DEF CreateHolder
  <2>2. CASE all' = all
    BY <1>a, <2>1, <2>2, FewerHolders DEF LiveOK, LiveWithinMax, CreateHolder
  <2>3. CASE \E h \in Holders : all' = all \cup {h}
    <3>1. Live' <= Live + 1 /\ Live' \in Nat /\ Live \in Nat
      BY <2>3, OneMoreHolder
    <3>2. Live <= warmed /\ warmed < Min
      BY <1>a, <2>1 DEF LiveOK, SafeInv, WarmingOK
    <3> QED BY <1>a, <2>1, <3>1, <3>2 DEF LiveOK, LiveWithinMax
  <2> QED BY <1>6, <2>2, <2>3 DEF CreateHolder
<1>7. CASE Enqueue
  <2>1. /\ npc = "enqueue" /\ pc' = pc /\ warmed' = warmed + 1 /\ all' = all
        /\ npc' \in {"creating", "returned"}
    BY <1>b, <1>7 DEF Enqueue, Send
  <2> QED BY <1>a, <2>1, FewerHolders DEF LiveOK, LiveWithinMax
<1>8. CASE \E h \in Holders : HolderDies(h)
  BY <1>c, <1>8 DEF HolderDies
<1> QED
  BY <1>1, <1>2, <1>3, <1>4, <1>5, <1>6, <1>7, <1>8 DEF Next, ReapStep, NewStep

\* The pool starts within the invariant.
LEMMA InitSafe == Init => SafeInv
<1> SUFFICES ASSUME Init PROVE SafeInv
  OBVIOUS
<1> USE DEF Init
<1>1. TypeOK
  <2>1. pc \in [Runs -> Stages] /\ held \in [Runs -> Holders \cup {NoHolder}]
    BY StageNames
  <2>2. idle \in Seq(Holders) /\ waitq \in Seq(Runs)
    OBVIOUS
  <2>3. warmed \in 0..Min /\ age \in [Holders -> 0..IdleTicks]
    OBVIOUS
  <2> QED BY <2>1, <2>2, <2>3 DEF TypeOK
<1>2. HeldOK /\ WarmingOK /\ WaitersOK
  BY StageNames DEF HeldOK, WarmingOK, WaitersOK, Holding
<1>3. Custody
  BY StageNames DEF Custody, Owns, Queued, Range
<1>4. LiveOK
  BY FS_EmptySet DEF LiveOK, LiveWithinMax, Live
<1> QED BY <1>1, <1>2, <1>3, <1>4 DEF SafeInv

\* The invariant is inductive.
LEMMA SafeStep == SafeInv /\ [Next]_vars => SafeInv'
<1>1. ASSUME SafeInv, Next PROVE SafeInv'
  BY <1>1, TypeStep, HeldStep, WarmingStep, WaitersStep, CustodyStep, LiveStep DEF SafeInv
<1>2. ASSUME SafeInv, UNCHANGED vars PROVE SafeInv'
  BY <1>2 DEF vars, runVars, poolVars, holderVars, others, reaperVars, closeVars, newVars,
     SafeInv, TypeOK, HeldOK, WarmingOK, WaitersOK, Custody, LiveOK, LiveWithinMax, Live,
     Queued, Owns
<1> QED BY <1>1, <1>2

(***************************************************************************)
(* The inductive invariant holds in every reachable state of the pool.     *)
(***************************************************************************)
THEOREM SafeInvariant == Spec => []SafeInv
BY InitSafe, SafeStep, PTL DEF Spec

(***************************************************************************)
(* Every variable of the pool keeps its type.                              *)
(***************************************************************************)
THEOREM TypeCorrect == Spec => []TypeOK
BY SafeInvariant, PTL DEF SafeInv

(***************************************************************************)
(* Exclusive custody (pool.go:11, "a holder runs at most one workload at a *)
(* time"): no holder is with two runs, or with a run and in the channel,   *)
(* or twice in the channel, or with the reaper and anybody else, however   *)
(* Run, reapIdle, NewPool and Close interleave.                            *)
(***************************************************************************)
THEOREM CustodyHolds == Spec => []Custody
BY SafeInvariant, PTL DEF SafeInv

(***************************************************************************)
(* Never more than Max live holders (pool.go:41), reservations whose       *)
(* newImpl is still running included.                                      *)
(***************************************************************************)
THEOREM LiveStaysWithinMax == Spec => []LiveWithinMax
BY SafeInvariant, PTL DEF SafeInv, LiveOK
=============================================================================
