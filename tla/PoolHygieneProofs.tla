-------------------------- MODULE PoolHygieneProofs ---------------------------
(***************************************************************************)
(* Proofs about what the pool hands out and what it leaves behind, for any *)
(* number of runs and holders, any Min, Max and faults: no dead holder is  *)
(* ever handed to a run, and no container or pod is forgotten.             *)
(***************************************************************************)
EXTENDS PoolLeaseProofs

\* A dead holder is with the run that found it dead, and that run drops it.
DeadOK ==
  \A h \in dead : /\ h \notin Avail /\ h # rheld
                  /\ \A r \in Runs : Leases(r, h) => pc[r] = "drop"

\* No run has found a holder dead before NewPool returns.
Pristine == npc # "returned" => dead = {}

\* A reserved slot has no container or pod yet, and stays on Close's list.
SlotsEmpty ==
  \A r \in Runs : pc[r] \in {"build", "unreserve"} =>
    impl[held[r]] = "nil" /\ held[r] \in all \cup doomed

\* The inductive invariant of this module.
HygieneInv == SlotInv /\ DeadOK /\ Pristine /\ SlotsEmpty /\ NoLeak

\* A holder that nobody may pass on stays where it is, or leaves.
LEMMA StaysOut ==
  ASSUME SlotInv, Flow, NEW h \in Holders, h \notin Avail, ~Made(h),
         \A r \in Runs : Leases(r, h) => pc[r] # "put"
  PROVE  h \notin Avail' /\ \A r \in Runs : Leases(r, h)' => Leases(r, h)
<1>1. CASE AllKept \/ Emptied
  BY <1>1 DEF AllKept, Emptied
<1>2. ASSUME NEW g \in Holders, Granted(g) \/ Passed(g) \/ Made(g) \/ LetGo(g)
      PROVE  h \notin Avail' /\ \A r \in Runs : Leases(r, h)' => Leases(r, h)
  <2>1. CASE g # h
    <3>1. OthersKept(g)
      BY <1>2 DEF Granted, Passed, Made, LetGo
    <3> QED BY <2>1, <3>1 DEF OthersKept
  <2>2. CASE g = h
    BY <1>2, <2>2 DEF Granted, Passed, LetGo
  <2> QED BY <2>1, <2>2
<1> QED BY <1>1, <1>2 DEF Flow, Taken

\* Only its own steps move a run that is about to drop its holder, and they give
\* the holder up.
LEMMA StageStep ==
  ASSUME SafeInv, Next, NEW r \in Runs, pc[r] = "drop"
  PROVE  (pc'[r] = pc[r] /\ held'[r] = held[r]) \/ ~Leasing(r)'
<1> USE DEF At, ReaperAt, NewAt, runVars, poolVars, holderVars, reaperVars, closeVars,
            newVars, others
<1>a. RunsTyped /\ ChannelTyped /\ Custody /\ WaitersOK
  BY LeaseFacts
<1>b. ASSUME NEW h, NEW stages \in [Runs -> Stages], Send(h, stages), stages[r] = pc[r]
      PROVE  pc'[r] = pc[r] /\ held'[r] = held[r]
  <2>1. CASE waitq # <<>>
    <3>1. Head(waitq) \in Runs /\ pc[Head(waitq)] = "parked"
      BY <1>a, <2>1, HeadTail DEF ChannelTyped, WaitersOK
    <3>2. Head(waitq) # r
      BY <3>1
    <3> QED BY <1>a, <1>b, <2>1, <3>1, <3>2 DEF Send, RunsTyped
  <2>2. CASE waitq = <<>>
    BY <1>b, <2>2 DEF Send
  <2> QED BY <2>1, <2>2
<1>1. ASSUME NEW q \in Runs, q # r, Call(q) \/ (RunStep(q) /\ ~Put(q)) \/ GiveUp(q)
      PROVE  pc'[r] = pc[r] /\ held'[r] = held[r]
  <2>1. /\ \E s : pc' = [pc EXCEPT ![q] = s]
        /\ held' = held \/ \E h : held' = [held EXCEPT ![q] = h]
    BY <1>1 DEF Call, RunStep, GiveUp, Receive, Goto, Return, Reserve, ReserveSlot, Build,
                Unreserve, Wait, Lock, Exec, Check, Drop, Release, TearDown, Unlock
  <2> QED BY <1>a, <1>1, <2>1 DEF RunsTyped
<1>2. ASSUME NEW q \in Runs, q # r, Put(q) PROVE pc'[r] = pc[r] /\ held'[r] = held[r]
  <2>1. /\ [pc EXCEPT ![q] = "unlock"] \in [Runs -> Stages]
        /\ [pc EXCEPT ![q] = "unlock"][r] = pc[r]
    BY <1>a, <1>2, StageNames DEF RunsTyped
  <2> QED BY <1>2, <1>b, <2>1 DEF Put
<1>3. ASSUME Call(r) \/ RunStep(r) \/ GiveUp(r)
      PROVE  ~Leasing(r)'
  <2>1. Drop(r)
    BY <1>3 DEF Call, RunStep, GiveUp, Reserve, Build, Unreserve, Wait, Lock, Exec, Check,
                Release, Put, TearDown, Unlock
  <2>2. pc'[r] \in {"teardown", "ready"}
    BY <1>a, <2>1 DEF Drop, Return, Goto, RunsTyped
  <2> QED BY <2>2, StageNames DEF Leasing, Owns
<1>4. CASE PutBack \/ Enqueue
  BY <1>4, <1>a, <1>b DEF PutBack, Enqueue, RunsTyped
<1>5. CASE \/ Tick \/ StopReaper \/ (ReapStep /\ ~PutBack) \/ CloseBegin \/ CloseStep
           \/ CreateHolder \/ \E h \in Holders : HolderDies(h)
  BY <1>5 DEF Tick, StopReaper, ReapStep, Count, TakeIdle, Reap, ReapTearDown, CloseBegin,
              CloseStep, JoinReaper, Snapshot, Drain, CloseOne, CloseReturn, CreateHolder,
              HolderDies
<1> QED BY <1>1, <1>2, <1>3, <1>4, <1>5 DEF Next, ReapStep, NewStep

\* How the set of dead holders changes.
LEMMA MarksStep ==
  ASSUME SafeInv, Next
  PROVE  \/ dead' \subseteq dead
         \/ \E r \in Runs : /\ pc[r] = "check" /\ dead' = dead \cup {held[r]}
                            /\ Goto(r, "drop") /\ UNCHANGED <<held, rheld>>
<1> USE DEF At, ReaperAt, NewAt, runVars, poolVars, holderVars, reaperVars, closeVars,
            newVars, others
<1>1. ASSUME NEW r \in Runs, Call(r) \/ (RunStep(r) /\ ~Check(r)) \/ GiveUp(r)
      PROVE  dead' \subseteq dead
  BY <1>1 DEF Call, RunStep, GiveUp, Reserve, ReserveSlot, Build, Unreserve, Wait, Lock,
              Exec, Drop, Release, Put, TearDown, Unlock
<1>2. ASSUME NEW r \in Runs, Check(r)
      PROVE  \/ dead' \subseteq dead
             \/ /\ pc[r] = "check" /\ dead' = dead \cup {held[r]} /\ Goto(r, "drop")
                /\ UNCHANGED <<held, rheld>>
  BY <1>2 DEF Check, AfterCheck
<1>3. CASE \/ Tick \/ StopReaper \/ ReapStep \/ CloseBegin \/ CloseStep \/ NewStep
           \/ \E h \in Holders : HolderDies(h)
  BY <1>3 DEF Tick, StopReaper, ReapStep, Count, TakeIdle, PutBack, Reap, ReapTearDown,
              CloseBegin, CloseStep, JoinReaper, Snapshot, Drain, CloseOne, CloseReturn,
              NewStep, CreateHolder, Enqueue, HolderDies
<1> QED BY <1>1, <1>2, <1>3 DEF Next

\* The reaper takes its holder out of the channel.
LEMMA ReaperTakes ==
  ASSUME SafeInv, Next PROVE rheld' \in {rheld, NoHolder} \cup Avail
<1> USE DEF poolVars, reaperVars, others
<1>1. CASE TakeIdle
  <2>1. idle # <<>> => Head(idle) \in Queued
    BY LeaseFacts, QueuedTail, HeadTail DEF ChannelTyped, Queued, Range
  <2> QED BY <1>1, <2>1 DEF TakeIdle, Avail
<1>2. CASE ~TakeIdle
  BY <1>2 DEF Next, Call, RunStep, GiveUp, Reserve, Build, Unreserve, Wait,
     Lock, Exec, Check, Drop, Release, Put, TearDown, Unlock, Tick, StopReaper, ReapStep,
     Count, PutBack, PassEnds, Reap, ReapTearDown, CloseBegin, CloseStep, JoinReaper,
     Snapshot, Drain, CloseOne, CloseReturn, NewStep, CreateHolder, Enqueue, HolderDies
<1> QED BY <1>1, <1>2

\* Who keeps a holder that is not free, and how it goes on.
LEMMA HolderStays ==
  ASSUME SlotInv, Pristine, Next, NEW h \in Holders, h \notin Avail,
         \/ h \in dead /\ h \in dead'
         \/ \E r \in Runs : Leases(r, h),
         \A r \in Runs : Leases(r, h) => pc[r] # "put"
  PROVE  h \notin Avail' /\ \A r \in Runs : Leases(r, h)' => Leases(r, h)
<1>1. Flow
  BY FlowStep
<1>2. ~Made(h)
  BY InUseMembers DEF Made, Pristine
<1> QED BY <1>1, <1>2, StaysOut

\* A dead holder stays with its run until that has dropped it.
LEMMA DeadStep ==
  ASSUME SlotInv, DeadOK, Pristine, Next PROVE DeadOK'
<1>a. SafeInv /\ dead \subseteq Holders /\ dead' \subseteq Holders
  BY SafeStep DEF SlotInv, SafeInv, TypeOK
<1>1. ASSUME NEW h \in Holders, h \in dead', h \in dead
      PROVE  h \notin Avail' /\ h # rheld' /\ \A r \in Runs : Leases(r, h)' => pc'[r] = "drop"
  <2>1. /\ h \in Holders /\ h \notin Avail /\ h # rheld
        /\ \A r \in Runs : Leases(r, h) => pc[r] = "drop"
    BY <1>a, <1>1 DEF DeadOK
  <2>2. h \notin Avail' /\ \A r \in Runs : Leases(r, h)' => Leases(r, h)
    BY <1>1, <2>1, HolderStays
  <2>3. h # rheld'
    BY <1>a, <2>1, ReaperTakes, PoolAssumption
  <2>4. ASSUME NEW r \in Runs, Leases(r, h)' PROVE pc'[r] = "drop"
    <3>1. pc[r] = "drop" /\ Leasing(r)'
      BY <2>1, <2>2, <2>4 DEF Leases, Leasing
    <3> QED BY <1>a, <3>1, StageStep
  <2> QED BY <2>2, <2>3, <2>4
<1>2. ASSUME NEW h \in Holders, h \in dead', h \notin dead
      PROVE  h \notin Avail' /\ h # rheld' /\ \A r \in Runs : Leases(r, h)' => pc'[r] = "drop"
  <2>1. PICK r \in Runs : /\ pc[r] = "check" /\ h = held[r] /\ Goto(r, "drop")
                          /\ UNCHANGED <<held, rheld>>
    BY <1>a, <1>2, MarksStep
  <2>2. Owns(r) /\ Leases(r, h) /\ h \in Holders /\ h \notin Avail /\ h # rheld
    BY <1>a, <2>1, LeaseFacts, StageNames DEF Leases, Owns, Custody
  <2>3. \A q \in Runs : Leases(q, h) => q = r
    BY <1>a, <2>1, <2>2, LeaseFacts DEF Leases
  <2>4. h \notin Avail' /\ \A q \in Runs : Leases(q, h)' => Leases(q, h)
    BY <2>1, <2>2, <2>3, HolderStays
  <2>5. pc'[r] = "drop"
    BY <1>a, <2>1, LeaseFacts DEF Goto, RunsTyped
  <2> QED BY <2>1, <2>2, <2>3, <2>4, <2>5
<1> QED BY <1>a, <1>1, <1>2 DEF DeadOK

\* No run works before NewPool returns.
LEMMA PristineStep ==
  ASSUME SafeInv, Pristine, Next PROVE Pristine'
<1>1. npc' # "returned" => npc # "returned"
  BY DEF Next, Call, RunStep, GiveUp, Reserve, Build, Unreserve, Wait, Lock, Exec, Check, Drop,
     Release, Put, TearDown, Unlock, Tick, StopReaper, ReapStep, Count, TakeIdle, PutBack, Reap,
     ReapTearDown, CloseBegin, CloseStep, JoinReaper, Snapshot, Drain, CloseOne, CloseReturn,
     NewStep, CreateHolder, Enqueue, NewAt, HolderDies, others, newVars
<1>2. npc # "returned" => \A r \in Runs : pc[r] = "ready"
  BY DEF SafeInv, LiveOK
<1>3. npc # "returned" => dead' \subseteq dead
  BY <1>2, MarksStep
<1> QED BY <1>1, <1>3 DEF Pristine

\* Only the backend's calls make and end containers and pods, and a run, the
\* reaper, NewPool or Close registers, hands on or closes each.
LEMMA BooksRun ==
  ASSUME HygieneInv, NEW r \in Runs, Call(r) \/ RunStep(r) \/ GiveUp(r)
  PROVE  SlotsEmpty' /\ NoLeak'
<1> USE DEF At, ReaperAt, NewAt, poolVars, holderVars, reaperVars, closeVars, newVars, others
<1>a. /\ SafeInv /\ SlotsEmpty /\ NoLeak /\ RunsTyped /\ impl \in [Holders -> {"nil", "up", "down", "closed"}]
      /\ \A q \in Runs : Owns(q) => held[q] \in Holders
      /\ \A q, p \in Runs : Owns(q) /\ Owns(p) /\ held[q] = held[p] => q = p
      /\ \A q \in Runs : Owns(q) => held[q] # rheld
  BY LeaseFacts DEF HygieneInv, SlotInv, SafeInv, TypeOK, Custody
<1>b. ASSUME UNCHANGED <<all, impl, doomed, rpc, rheld>>,
             \A q \in Runs : pc[q] = "teardown" => pc'[q] = "teardown" /\ held'[q] = held[q],
             \A q \in Runs : pc'[q] \in {"build", "unreserve"} =>
               pc[q] \in {"build", "unreserve"} /\ held'[q] = held[q]
      PROVE  SlotsEmpty' /\ NoLeak'
  BY <1>a, <1>b DEF SlotsEmpty, NoLeak
<1>1. ASSUME Call(r) \/ Wait(r) \/ GiveUp(r) \/ Lock(r) \/ Exec(r) \/ Check(r) \/ Unlock(r)
      PROVE  SlotsEmpty' /\ NoLeak'
  <2>1. /\ pc[r] # "teardown" /\ UNCHANGED <<all, impl, doomed, rpc, rheld>>
        /\ \E s \in Stages \ {"build", "unreserve"} : pc' = [pc EXCEPT ![r] = s]
        /\ held' = held \/ \E h : held' = [held EXCEPT ![r] = h]
    BY <1>1, StageNames DEF Call, Wait, GiveUp, Lock, Exec, Check, AfterCheck, Unlock, Receive,
       Goto, Return
  <2> QED BY <1>a, <1>b, <2>1 DEF RunsTyped
<1>2. CASE Reserve(r)
  <2>1. CASE \E s \in {"ready", "wait"} : Goto(r, s) /\ UNCHANGED <<held, all, impl>>
    BY <1>a, <1>b, <1>2, <2>1 DEF Reserve, Goto, RunsTyped
  <2>2. ASSUME NEW h \in Holders, Fresh(h), ReserveSlot(r, h) PROVE SlotsEmpty' /\ NoLeak'
    <3>1. /\ pc[r] = "reserve" /\ UNCHANGED <<doomed, rpc, rheld>>
          /\ pc' = [pc EXCEPT ![r] = "build"] /\ held' = [held EXCEPT ![r] = h]
          /\ all' = all \cup {h} /\ impl' = [impl EXCEPT ![h] = "nil"]
      BY <1>2, <2>2 DEF Reserve, ReserveSlot, Goto
    <3>2. \A q \in Runs : held[q] # h
      BY <2>2 DEF Fresh
    <3>3. SlotsEmpty'
      BY <1>a, <3>1, <3>2, StageNames DEF SlotsEmpty, RunsTyped, Owns
    <3>4. NoLeak'
      BY <1>a, <3>1, <3>2 DEF NoLeak, RunsTyped
    <3> QED BY <3>3, <3>4
  <2> QED BY <1>2, <2>1, <2>2 DEF Reserve
<1>3. ASSUME Build(r) \/ Unreserve(r) \/ Drop(r) \/ Release(r) \/ TearDown(r)
      PROVE  SlotsEmpty' /\ NoLeak'
  <2>0. PICK h \in Holders : h = held[r] /\ Owns(r)
    BY <1>a, <1>3, StageNames DEF Build, Unreserve, Drop, Release, TearDown, Owns
  <2>1. /\ UNCHANGED <<doomed, rpc, rheld>> /\ h # rheld
        /\ \A q \in Runs \ {r} : pc'[q] = pc[q] /\ held'[q] = held[q]
        /\ \A q \in Runs \ {r} : Owns(q) => held[q] # h
    BY <1>a, <1>3, <2>0 DEF Build, Unreserve, Drop, Release, TearDown, Goto, Return, RunsTyped
  <2>2. /\ \A g \in Holders \ {h} : impl'[g] = impl[g] /\ (g \in all' <=> g \in all)
        /\ pc'[r] \in {"build", "unreserve"} => impl'[h] = "nil" /\ all' = all /\ held'[r] = h
                                               /\ pc[r] = "build"
        /\ impl'[h] \in {"up", "down"} =>
             \/ h \in all' \cup doomed'
             \/ pc'[r] = "teardown" /\ held'[r] = h
    <3>1. CASE Build(r)
      <4>1. pc[r] = "build" /\ impl[h] = "nil" /\ h \in all \cup doomed
        BY <1>a, <2>0, <3>1 DEF Build, SlotsEmpty
      <4> QED BY <1>a, <2>0, <3>1, <4>1 DEF Build, Goto, RunsTyped
    <3>2. CASE Unreserve(r)
      <4>1. impl[h] = "nil"
        BY <1>a, <2>0, <3>2 DEF Unreserve, SlotsEmpty
      <4> QED BY <1>a, <2>0, <3>2, <4>1 DEF Unreserve, Unregistered, Goto, Return, RunsTyped
    <3>3. CASE Drop(r) \/ Release(r)
      <4>1. /\ UNCHANGED <<impl, doomed>> /\ all' \in {all, all \ {h}} /\ pc[r] # "teardown"
            /\ pc'[r] \notin {"build", "unreserve"}
            /\ h \in all /\ all' # all => pc'[r] = "teardown" /\ held'[r] = h
        BY <1>a, <2>0, <3>3 DEF Drop, Release, Unregistered, Present, Goto, Return, RunsTyped
      <4>2. impl[h] \in {"up", "down"} => h \in all \cup doomed
        <5>1. ASSUME NEW q \in Runs, pc[q] = "teardown" PROVE held[q] # h
          BY <2>1, <4>1, <5>1, StageNames DEF Owns
        <5> QED BY <1>a, <2>1, <5>1 DEF NoLeak
      <4>3. \A g \in Holders \ {h} : g \in all' <=> g \in all
        BY <4>1
      <4>4. h \in all' \cup doomed' \/ h \notin all \cup doomed
              \/ (pc'[r] = "teardown" /\ held'[r] = h)
        <5>1. CASE h \in all
          <6>1. all' = all \/ (pc'[r] = "teardown" /\ held'[r] = h)
            BY <4>1, <5>1
          <6> QED BY <5>1, <6>1
        <5>2. CASE h \in doomed
          BY <4>1, <5>2
        <5> QED BY <5>1, <5>2
      <4> QED BY <4>1, <4>2, <4>3, <4>4
    <3>4. CASE TearDown(r)
      BY <1>a, <2>0, <3>4 DEF TearDown, Goto, Return, RunsTyped
    <3> QED BY <1>3, <3>1, <3>2, <3>3, <3>4
  <2>3. SlotsEmpty'
    <3> SUFFICES ASSUME NEW q \in Runs, pc'[q] \in {"build", "unreserve"}
                 PROVE  impl'[held'[q]] = "nil" /\ held'[q] \in all' \cup doomed'
      BY DEF SlotsEmpty
    <3>1. CASE q = r
      BY <1>a, <2>0, <2>1, <2>2, <3>1 DEF SlotsEmpty
    <3>2. CASE q # r
      <4>1. PICK g \in Holders : g = held[q] /\ Owns(q)
        BY <1>a, <2>1, <3>2, StageNames DEF Owns
      <4>2. g # h /\ impl[g] = "nil" /\ g \in all \cup doomed /\ held'[q] = g
        BY <1>a, <2>1, <3>2, <4>1 DEF SlotsEmpty
      <4> QED BY <2>1, <2>2, <4>2
    <3> QED BY <3>1, <3>2
  <2>4. NoLeak'
    <3> SUFFICES ASSUME NEW g \in Holders, impl'[g] \in {"up", "down"}
                 PROVE  \/ g \in all' \cup doomed'
                        \/ \E q \in Runs : pc'[q] = "teardown" /\ held'[q] = g
                        \/ rpc' = "teardown" /\ rheld' = g
      BY DEF NoLeak
    <3>1. CASE g = h
      BY <2>2, <3>1
    <3>2. CASE g # h
      <4>1. \/ g \in all \cup doomed
            \/ \E q \in Runs : pc[q] = "teardown" /\ held[q] = g
            \/ rpc = "teardown" /\ rheld = g
        BY <1>a, <2>2, <3>2 DEF NoLeak
      <4> QED BY <2>0, <2>1, <2>2, <3>2, <4>1
    <3> QED BY <3>1, <3>2
  <2> QED BY <2>3, <2>4
<1>4. CASE Put(r)
  <2>0. PICK h \in Holders : h = held[r]
    BY <1>a, <1>4, StageNames DEF Put, Owns
  <2>1. /\ pc[r] = "put" /\ UNCHANGED <<all, impl, doomed, rpc, rheld>>
        /\ Send(h, [pc EXCEPT ![r] = "unlock"])
    BY <1>4, <2>0 DEF Put
  <2>2. [pc EXCEPT ![r] = "unlock"] \in [Runs -> Stages] /\ h \notin Queued
    BY <1>a, <2>0, <2>1, LeaseFacts, StageNames DEF RunsTyped, Owns, Avail
  <2>3. \/ \E w \in Runs : /\ pc[w] = "parked"
                           /\ pc' = [pc EXCEPT ![r] = "unlock", ![w] = "lock"]
                           /\ held' = [held EXCEPT ![w] = h]
        \/ pc' = [pc EXCEPT ![r] = "unlock"] /\ held' = held
    BY <1>a, <2>1, <2>2, SendMoves
  <2> QED BY <1>a, <1>b, <2>1, <2>3 DEF RunsTyped
<1> QED BY <1>1, <1>2, <1>3, <1>4 DEF RunStep

\* The same for the reaper, Close, NewPool and the backend.
LEMMA BooksOthers ==
  ASSUME HygieneInv,
         \/ Tick \/ StopReaper \/ ReapStep \/ CloseBegin \/ CloseStep \/ NewStep
         \/ \E h \in Holders : HolderDies(h)
  PROVE  SlotsEmpty' /\ NoLeak'
<1> USE DEF ReaperAt, NewAt, runVars, poolVars, holderVars, reaperVars, closeVars, newVars,
            others
<1>a. /\ SafeInv /\ SlotsEmpty /\ NoLeak /\ RunsTyped /\ HeldOK /\ CloseOK /\ LiveOK
      /\ impl \in [Holders -> {"nil", "up", "down", "closed"}]
      /\ \A q \in Runs : pc[q] \in {"build", "unreserve"} => Owns(q) /\ held[q] \in Holders
      /\ \A q \in Runs : Owns(q) => held[q] # rheld
  BY LeaseFacts, StageNames DEF HygieneInv, SlotInv, SafeInv, TypeOK, Custody, Owns
<1>b. ASSUME UNCHANGED <<runVars, all, impl, doomed>>,
             rpc = "teardown" => rpc' = "teardown" /\ rheld' = rheld
      PROVE  SlotsEmpty' /\ NoLeak'
  BY <1>a, <1>b DEF SlotsEmpty, NoLeak
<1>1. CASE Tick \/ StopReaper \/ Count \/ TakeIdle
  BY <1>b, <1>1 DEF Tick, StopReaper, Count, TakeIdle
<1>2. CASE CloseBegin \/ JoinReaper \/ Drain \/ CloseReturn
  BY <1>b, <1>2 DEF CloseBegin, JoinReaper, Drain, CloseReturn
<1>3. ASSUME NEW h \in Holders, h \notin Queued, Send(h, pc),
             UNCHANGED <<all, impl, doomed>>, rpc # "teardown" \/ UNCHANGED <<rpc, rheld>>
      PROVE  SlotsEmpty' /\ NoLeak'
  <2>1. \/ \E w \in Runs : /\ pc[w] = "parked" /\ pc' = [pc EXCEPT ![w] = "lock"]
                           /\ held' = [held EXCEPT ![w] = h]
        \/ pc' = pc /\ held' = held
    BY <1>a, <1>3, SendMoves DEF RunsTyped
  <2>2. /\ \A q \in Runs : pc[q] = "teardown" => pc'[q] = "teardown" /\ held'[q] = held[q]
        /\ \A q \in Runs : pc'[q] \in {"build", "unreserve"} =>
             pc[q] \in {"build", "unreserve"} /\ held'[q] = held[q]
    BY <1>a, <2>1 DEF RunsTyped
  <2> QED BY <1>a, <1>3, <2>2 DEF SlotsEmpty, NoLeak
<1>4. CASE PutBack
  <2>1. PICK h \in Holders : h = rheld
    BY <1>a, <1>4, HeldInHolders DEF PutBack
  <2>2. h \notin Queued
    BY <1>a, <2>1 DEF SafeInv, Custody
  <2> QED BY <1>3, <1>4, <2>1, <2>2 DEF PutBack, PassEnds
<1>5. CASE Enqueue
  <2>1. PICK h \in Holders : h = nheld
    BY <1>a, <1>5, HeldInHolders DEF Enqueue
  <2>2. h \notin Queued
    BY <1>a, <2>1 DEF SafeInv, Custody
  <2> QED BY <1>3, <1>5, <2>1, <2>2 DEF Enqueue
<1>6. CASE Reap \/ ReapTearDown
  <2>1. PICK h \in Holders : h = rheld
    BY <1>a, <1>6, HeldInHolders DEF Reap, ReapTearDown
  <2>2. /\ UNCHANGED <<runVars, doomed>>
        /\ \A g \in Holders \ {h} : impl'[g] = impl[g] /\ (g \in all' <=> g \in all)
    BY <1>a, <1>6, <2>1 DEF Reap, ReapTearDown, Unregistered
  <2>3. impl'[h] \in {"up", "down"} =>
          h \in all' \cup doomed' \/ (rpc' = "teardown" /\ rheld' = h)
    <3>1. CASE ReapTearDown
      BY <1>a, <2>1, <3>1 DEF ReapTearDown
    <3>2. CASE Reap
      <4>1. impl[h] \in {"up", "down"} => h \in all \cup doomed
        <5>1. ASSUME NEW q \in Runs, pc[q] = "teardown" PROVE held[q] # h
          BY <1>a, <2>1, <5>1, StageNames DEF Owns
        <5> QED BY <3>2, <5>1 DEF NoLeak, HygieneInv, Reap
      <4> QED BY <2>1, <2>2, <3>2, <4>1 DEF Reap, Present, Unregistered
    <3> QED BY <1>6, <3>1, <3>2
  <2>4. SlotsEmpty'
    BY <1>a, <2>1, <2>2 DEF SlotsEmpty
  <2>5. ASSUME NEW g \in Holders, g # h, rpc = "teardown" /\ rheld = g PROVE FALSE
    BY <2>1, <2>5
  <2> QED BY <1>a, <2>2, <2>3, <2>4, <2>5 DEF NoLeak
<1>7. CASE Snapshot
  <2>1. doomed = {} /\ doomed' = all /\ UNCHANGED <<runVars, impl, rpc, rheld>>
    BY <1>a, <1>7 DEF Snapshot, CloseOK, BeforeSnapshot
  <2> QED BY <1>a, <2>1 DEF SlotsEmpty, NoLeak
<1>8. CASE CloseOne
  <2>0. UNCHANGED <<runVars, all, rpc, rheld>>
    BY <1>8 DEF CloseOne
  <2>1. CASE UNCHANGED <<impl, doomed>>
    BY <1>b, <2>0, <2>1
  <2>2. ASSUME NEW h \in Holders, impl[h] # "nil", impl' = [impl EXCEPT ![h] = "closed"],
               doomed' = doomed \ {h}
        PROVE  SlotsEmpty' /\ NoLeak'
    <3>1. SlotsEmpty'
      BY <1>a, <2>0, <2>2 DEF SlotsEmpty
    <3>2. NoLeak'
      BY <1>a, <2>0, <2>2 DEF NoLeak
    <3> QED BY <3>1, <3>2
  <2>3. doomed \subseteq Holders
    BY <1>a DEF SafeInv, TypeOK
  <2> QED BY <1>8, <2>1, <2>2, <2>3 DEF CloseOne
<1>9. CASE CreateHolder
  <2>1. CASE UNCHANGED <<impl, all>>
    BY <1>b, <1>9, <2>1 DEF CreateHolder
  <2>2. ASSUME NEW h \in Holders, Fresh(h), all' = all \cup {h},
               impl' = [impl EXCEPT ![h] = "up"]
        PROVE  SlotsEmpty' /\ NoLeak'
    <3>1. UNCHANGED <<runVars, doomed, rpc, rheld>> /\ \A q \in Runs : held[q] # h
      BY <1>9, <2>2 DEF CreateHolder, Fresh
    <3>2. SlotsEmpty'
      BY <1>a, <2>2, <3>1 DEF SlotsEmpty
    <3>3. NoLeak'
      BY <1>a, <2>2, <3>1 DEF NoLeak
    <3> QED BY <3>2, <3>3
  <2> QED BY <1>9, <2>1, <2>2 DEF CreateHolder
<1>10. ASSUME NEW h \in Holders, HolderDies(h) PROVE SlotsEmpty' /\ NoLeak'
  <2>1. /\ UNCHANGED <<runVars, all, doomed, rpc, rheld>>
        /\ impl[h] = "up" /\ impl' = [impl EXCEPT ![h] = "down"]
    BY <1>10 DEF HolderDies
  <2>2. SlotsEmpty'
    BY <1>a, <2>1 DEF SlotsEmpty
  <2>3. NoLeak'
    BY <1>a, <2>1 DEF NoLeak
  <2> QED BY <2>2, <2>3
<1> QED BY <1>1, <1>2, <1>4, <1>5, <1>6, <1>7, <1>8, <1>9, <1>10
        DEF ReapStep, CloseStep, NewStep

\* The invariant is inductive.
LEMMA HygieneStep == HygieneInv /\ [Next]_vars => HygieneInv'
<1>1. ASSUME HygieneInv, Next PROVE HygieneInv'
  <2>1. SlotInv' /\ DeadOK' /\ Pristine'
    BY <1>1, SlotStep, DeadStep, PristineStep DEF HygieneInv, SlotInv
  <2>2. SlotsEmpty' /\ NoLeak'
    BY <1>1, BooksRun, BooksOthers DEF Next
  <2> QED BY <2>1, <2>2 DEF HygieneInv
<1>2. ASSUME HygieneInv, UNCHANGED vars PROVE HygieneInv'
  <2>1. SlotInv'
    BY <1>2, SlotStep DEF HygieneInv
  <2>2. Avail' = Avail /\ \A r \in Runs, h \in Holders : Leases(r, h)' <=> Leases(r, h)
    BY <1>2 DEF vars, runVars, poolVars, others, reaperVars, newVars, Avail, Queued, Leases, Owns
  <2>3. dead \subseteq Holders
    BY <1>2 DEF HygieneInv, SlotInv, SafeInv, TypeOK
  <2>4. DeadOK' /\ Pristine'
    BY <1>2, <2>2, <2>3 DEF HygieneInv, DeadOK, Pristine, vars, runVars, holderVars,
       others, reaperVars, newVars
  <2>5. SlotsEmpty' /\ NoLeak'
    BY <1>2 DEF HygieneInv, SlotsEmpty, NoLeak, vars, runVars, poolVars, holderVars, others,
       reaperVars, closeVars
  <2> QED BY <2>1, <2>4, <2>5 DEF HygieneInv
<1> QED BY <1>1, <1>2

\* The pool starts within it.
LEMMA HygieneInit == Init => HygieneInv
<1> SUFFICES ASSUME Init PROVE HygieneInv
  OBVIOUS
<1>1. SlotInv
  BY SlotInit
<1>2. DeadOK /\ Pristine /\ SlotsEmpty /\ NoLeak
  BY DEF Init, DeadOK, Pristine, SlotsEmpty, NoLeak
<1> QED BY <1>1, <1>2 DEF HygieneInv

(***************************************************************************)
(* The inductive invariant holds in every reachable state of the pool.     *)
(***************************************************************************)
THEOREM HygieneInvariant == Spec => []HygieneInv
BY HygieneInit, HygieneStep, PTL DEF Spec

(***************************************************************************)
(* A holder that died is never handed to another run: "a holder that dies  *)
(* mid-run is never reused" (pool.go:69).                                  *)
(***************************************************************************)
THEOREM DeadNeverReused == Spec => []DeadNotReused
<1>1. HygieneInv => DeadNotReused
  <2> SUFFICES ASSUME HygieneInv, NEW h \in dead
               PROVE  /\ h \notin Queued \cup {rheld}
                      /\ \A r \in Runs : pc[r] \in {"lock", "exec"} => held[r] # h
    BY DEF DeadNotReused
  <2>1. /\ h \notin Avail /\ h # rheld
        /\ \A r \in Runs : Leases(r, h) => pc[r] = "drop"
    BY DEF HygieneInv, DeadOK
  <2>2. ASSUME NEW r \in Runs, pc[r] \in {"lock", "exec"} PROVE held[r] # h
    BY <2>1, <2>2, StageNames DEF Leases, Owns
  <2> QED BY <2>1, <2>2 DEF Avail
<1> QED BY <1>1, HygieneInvariant, PTL

(***************************************************************************)
(* No container or pod is forgotten while runs drop, the reaper reaps and  *)
(* Close races with both (drop, release, reapIdle, Close; pool.go:202,     *)
(* 211, 279, 308).                                                         *)
(***************************************************************************)
THEOREM NothingLeaks == Spec => []NoLeak
BY HygieneInvariant, PTL DEF HygieneInv

(***************************************************************************)
(* Neither the reaper nor another run closes a holder a run works with     *)
(* (pool.go:211, 304): only Close does.                                    *)
(***************************************************************************)
THEOREM OnlyCloseDoes == Spec => OnlyCloseInterrupts
<1> DEFINE Spared == \A r \in Runs :
             pc[r] \in {"lock", "exec", "check"} /\ impl[held[r]] # "closed"
               /\ impl'[held[r]] = "closed" => cpc = "teardown"
<1>1. ASSUME SafeInv, Next PROVE Spared
  <2> SUFFICES ASSUME NEW r \in Runs, NEW h \in Holders, h = held[r], Owns(r),
                      pc[r] # "teardown", impl[h] # "closed", impl'[h] = "closed"
               PROVE  cpc = "teardown"
    BY <1>1, LeaseFacts, StageNames DEF Owns
  <2> USE DEF holderVars, poolVars, others
  <2>a. impl \in [Holders -> {"nil", "up", "down", "closed"}] /\ h # rheld
        /\ \A q \in Runs : Owns(q) => held[q] \in Holders /\ (held[q] = h => q = r)
    BY <1>1, LeaseFacts DEF SafeInv, TypeOK, Custody
  <2>1. ASSUME NEW q \in Runs, Call(q) \/ RunStep(q) \/ GiveUp(q) PROVE FALSE
    <3>1. CASE TearDown(q)
      <4>1. held[q] # h /\ held[q] \in Holders
        BY <2>a, <3>1, StageNames DEF TearDown, At, Owns
      <4> QED BY <2>a, <3>1, <4>1 DEF TearDown
    <3>2. CASE Reserve(q)
      BY <2>a, <3>2 DEF Reserve, ReserveSlot
    <3>3. CASE Build(q)
      BY <2>a, <3>3 DEF Build
    <3> QED BY <2>1, <3>1, <3>2, <3>3 DEF Call, RunStep, GiveUp, Unreserve, Wait, Lock, Exec,
               Check, Drop, Release, Put, Unlock
  <2>2. CASE Tick \/ StopReaper \/ ReapStep
    <3>1. CASE ReapTearDown
      BY <2>a, <3>1 DEF ReapTearDown
    <3> QED BY <2>2, <3>1 DEF Tick, StopReaper, ReapStep, Count, TakeIdle, PutBack, Reap
  <2>3. CASE CloseBegin \/ CloseStep
    BY <2>3 DEF CloseBegin, CloseStep, JoinReaper, Snapshot, Drain, CloseOne, CloseReturn
  <2>4. CASE NewStep \/ \E g \in Holders : HolderDies(g)
    BY <2>a, <2>4 DEF NewStep, CreateHolder, Enqueue, HolderDies
  <2> QED BY <1>1, <2>1, <2>2, <2>3, <2>4 DEF Next
<1>2. SafeInv /\ [Next]_vars => [Spared]_vars
  BY <1>1
<1> QED BY <1>2, SafeInvariant, PTL DEF Spec, OnlyCloseInterrupts, Spared
=============================================================================
