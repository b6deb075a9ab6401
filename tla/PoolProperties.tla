--------------------------- MODULE PoolProperties ---------------------------
(***************************************************************************)
(* What must hold of the pool, as pool.go's comments, README.MD and        *)
(* pool_test.go state it, and where it is refined from HolderLease.        *)
(***************************************************************************)
EXTENDS Pool

CONSTANTS Gone, Free  \* HolderLease's states of a holder nobody leases

ASSUME LeaseAssumption == Gone # Free /\ Gone \notin Runs /\ Free \notin Runs

Owns(r) == pc[r] \in OwnStages

\* Holders that somebody works with or that wait for a run.
InUse ==
  {held[r] : r \in {q \in Runs : Owns(q) /\ pc[q] # "teardown"}} \cup Queued
    \cup {h \in {rheld} : rpc = "judge"} \cup {h \in {nheld} : npc = "enqueue"}

BeforeSnapshot == cpc \in {"open", "join", "snapshot"}

(***************************************************************************)
(* Never more than Max live holders (pool.go:41; TestPoolNeverExceedsMax), *)
(* reservations that are still being built included.                       *)
(***************************************************************************)
LiveWithinMax == Live <= Max

(***************************************************************************)
(* Custody: a holder has one custodian: a run between acquire and release, *)
(* one place in the idle channel, the reaper, or NewPool ("a holder runs   *)
(* at most one workload at a time", pool.go:11).                           *)
(***************************************************************************)
Custody ==
  /\ \A q, r \in Runs : q # r /\ Owns(q) /\ Owns(r) => held[q] # held[r]
  /\ \A r \in Runs : Owns(r) => held[r] \notin Queued \cup {rheld, nheld}
  /\ \A i, j \in DOMAIN idle : i # j => idle[i] # idle[j]
  /\ Queued \cap {rheld, nheld} = {}
  /\ rheld = nheld => rheld = NoHolder

(***************************************************************************)
(* Until Close takes the registry, p.all counts exactly the holders in     *)
(* circulation: no slot stays reserved for a holder that is not there, and *)
(* no holder circulates uncounted (acquire, drop, release, reapIdle).      *)
(***************************************************************************)
SlotsAccounted == BeforeSnapshot => all = InUse

(***************************************************************************)
(* "cap Max, live <= Max, never blocks" (pool.go:208): whoever is about to *)
(* send on p.idle finds room or a receiver, before and after Close.        *)
(***************************************************************************)
SendNeverBlocks ==
  \/ \E r \in Runs : pc[r] = "put"
  \/ rpc = "judge" \/ npc = "enqueue"
  => waitq # <<>> \/ Len(idle) < Max

(***************************************************************************)
(* "A holder that dies mid-run is never reused" (pool.go:69): no dead      *)
(* holder is queued or handed to a run, so the check of h.dead in Run      *)
(* never succeeds.                                                         *)
(***************************************************************************)
DeadNotReused ==
  \A h \in dead : /\ h \notin Queued \cup {rheld}
                  /\ \A r \in Runs : pc[r] \in {"lock", "exec"} => held[r] # h

(***************************************************************************)
(* Every container or pod that was built is registered, in Close's hands,  *)
(* or about to be closed by the goroutine that removed it: none is leaked  *)
(* when runs drop, the reaper reaps and Close races with both.  (A close   *)
(* that fails is not told to anybody: pool.go:204, 218, 347.)              *)
(***************************************************************************)
NoLeak ==
  \A h \in Holders : impl[h] \in {"up", "down"} =>
    \/ h \in all \cup doomed
    \/ \E r \in Runs : pc[r] = "teardown" /\ held[r] = h
    \/ rpc = "teardown" /\ rheld = h

(***************************************************************************)
(* Only Close closes a holder a run is working with: neither the reaper    *)
(* nor another run ever does (pool.go:211, pool.go:304).                   *)
(***************************************************************************)
OnlyCloseInterrupts ==
  [][\A r \in Runs :
       pc[r] \in {"lock", "exec", "check"} /\ impl[held[r]] # "closed"
         /\ impl'[held[r]] = "closed" => cpc = "teardown"]_vars

(***************************************************************************)
(* Whoever waits for a holder's mutex waits for its release only: the run  *)
(* that has it has put the holder back and goes on to h.mu.Unlock, so the  *)
(* hand-over before the unlock (pool.go:208, 233) never ends in a deadlock *)
(* and nobody works with a holder that has been handed on.                 *)
(***************************************************************************)
LockersProceed ==
  \A r \in Runs : pc[r] = "lock" /\ mu[held[r]] # NoRun =>
    \E q \in Runs : mu[held[r]] = q /\ pc[q] = "unlock" /\ held[q] = held[r]

(***************************************************************************)
(* Who waits for a holder waits for somebody: no holder is idle meanwhile, *)
(* and if the pool is full, a run works with a holder or the reaper has    *)
(* one in hand, and will put it back or free its slot.  A run that is      *)
(* stranded in an open pool is stranded next to a free slot (acquire's     *)
(* second select, pool.go:188).                                            *)
(***************************************************************************)
WaitersHaveSource ==
  waitq # <<>> =>
    /\ idle = <<>>
    /\ BeforeSnapshot /\ ~HasSlot =>
         rpc = "judge" \/ \E r \in Runs : Owns(r) /\ pc[r] # "teardown"

(***************************************************************************)
(* Nobody waits in vain, for a mutex or for a holder, as far as a state can *)
(* tell: the two waits of a call, in release's order of hand-over and      *)
(* unlock and in acquire's second select (pool.go:188, 208, 232).          *)
(***************************************************************************)
NobodyWaitsInVain == LockersProceed /\ WaitersHaveSource

-----------------------------------------------------------------------------
(***************************************************************************)
(* A holder is free while it is queued or in the hands of NewPool or of    *)
(* the reaper's judgement, leased while a run owns it and has not removed  *)
(* it from the pool.                                                       *)
(***************************************************************************)
LeaseOf(h) ==
  IF \E r \in Runs : Owns(r) /\ pc[r] # "teardown" /\ held[r] = h
  THEN CHOOSE r \in Runs : Owns(r) /\ pc[r] # "teardown" /\ held[r] = h
  ELSE IF h \in InUse THEN Free ELSE Gone

Lease == INSTANCE HolderLease WITH lease <- [h \in Holders |-> LeaseOf(h)],
                                   shut <- closed

(***************************************************************************)
(* The pool implements HolderLease: exclusive leases, at most Max holders  *)
(* in circulation even while Close runs, none made after Close began       *)
(* (pool.go:62, pool.go:11).                                               *)
(***************************************************************************)
ImplementsLease == Lease!Spec

-----------------------------------------------------------------------------
\* PoolImpl's view of a holder: the method that is being called, or whether
\* anybody still refers to what newImpl returned; and its container or pod.
InStage(stage, h) == \E r \in Runs : pc[r] = stage /\ held[r] = h

CallOf(h) ==
  IF InStage("exec", h) THEN "run"
  ELSE IF InStage("check", h) THEN "check"
  ELSE IF Fresh(h) \/ impl[h] = "nil" THEN "none"
  ELSE IF h \in dead THEN "dead" ELSE "idle"

ObjOf(h) == IF impl[h] \in {"nil", "closed"} THEN "absent" ELSE impl[h]

Calls == INSTANCE PoolImpl WITH call <- [h \in Holders |-> CallOf(h)],
                                obj <- [h \in Holders |-> ObjOf(h)]

(***************************************************************************)
(* The pool keeps to the protocol of poolImpl (pool.go:23-33): one run in  *)
(* a holder at a time, checkHolder after each, no run in a holder that     *)
(* failed it or that is not built yet, and close before a holder is        *)
(* forgotten, however runs, the reaper, Close and deaths interleave.       *)
(***************************************************************************)
ImplementsPoolImpl == Calls!Spec

-----------------------------------------------------------------------------
(***************************************************************************)
(* Close returns, also when NewPool fails half-way and calls it itself     *)
(* ("so Close never deadlocks on the early-failure path", pool.go:119).    *)
(***************************************************************************)
CloseReturns ==
  (closed \/ npc = "failed") ~> cpc \in {"closed", "panicked"}

(***************************************************************************)
(* A call whose context ends returns, whatever the pool does meanwhile     *)
(* ("it blocks for an idle holder or ctx end", pool.go:156).               *)
(***************************************************************************)
ExpiringReturns ==
  \A r \in Expiring : pc[r] = "reserve" ~> pc[r] = "ready" \/ ~Going

(***************************************************************************)
(* "Runs beyond Max block until a holder frees" (pool.go:41): a parked run *)
(* gets a holder, or the pool is being closed.                             *)
(***************************************************************************)
WaitersServed ==
  \A r \in Runs : pc[r] = "parked" ~> pc[r] # "parked" \/ closed

(***************************************************************************)
(* "Closes idle holders (down to Min)" (pool.go:62): once calls cease, the *)
(* pool shrinks to Min, although reapIdle stops at the first young holder. *)
(***************************************************************************)
ShrinksToMin ==
  <>[](\A r \in Runs : pc[r] = "ready") => []<>(closed \/ Live <= Min)

-----------------------------------------------------------------------------
(***************************************************************************)
(* "Close stops the reaper and tears down every holder" (pool.go:308): it  *)
(* does not take the process down with it.                                 *)
(***************************************************************************)
CloseNeverPanics == Going

(***************************************************************************)
(* The reaper works "never dropping the live count below Min"              *)
(* (pool.go:257).                                                          *)
(***************************************************************************)
ReaperKeepsMin ==
  [][rpc = "judge" /\ rpc' = "teardown" => Cardinality(all') >= Min]_vars
=============================================================================
