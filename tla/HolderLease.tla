----------------------------- MODULE HolderLease -----------------------------
(***************************************************************************)
(* What the pool promises about its holders, without mutexes, channels or  *)
(* bookkeeping: at most Max holders exist, each is free or leased to one   *)
(* run, a run leases at most one, a holder changes hands only when its     *)
(* leaseholder gives it up, and once the pool is shut no holder is made.   *)
(***************************************************************************)
EXTENDS Naturals, FiniteSets

CONSTANTS Runs, Holders, Max, Gone, Free

VARIABLES lease, \* holder -> Gone, Free, or the run that leases it
          shut

vars == <<lease, shut>>

Existing == {h \in Holders : lease[h] # Gone}
Leasing  == {lease[h] : h \in Existing} \ {Free}

Init == lease = [h \in Holders |-> Gone] /\ shut = FALSE

\* A new holder, warm and free or made for the run that needs it.
Provide(h, owner) ==
  /\ ~shut /\ lease[h] = Gone /\ Cardinality(Existing) < Max
  /\ owner \notin Leasing
  /\ lease' = [lease EXCEPT ![h] = owner] /\ UNCHANGED shut

\* A free holder is leased.
Grant(h, r) ==
  /\ lease[h] = Free /\ r \notin Leasing
  /\ lease' = [lease EXCEPT ![h] = r] /\ UNCHANGED shut

\* The leaseholder gives the holder up: free again, passed on to a run that
\* waits, or, when the holder is unusable or unwanted, gone.
GiveBack(h, to) ==
  /\ lease[h] \in Runs /\ to \notin Leasing
  /\ lease' = [lease EXCEPT ![h] = to] /\ UNCHANGED shut

\* Free holders are discarded.
Discard(hs) ==
  /\ \A h \in hs : lease[h] = Free
  /\ lease' = [h \in Holders |-> IF h \in hs THEN Gone ELSE lease[h]]
  /\ UNCHANGED shut

Shut == shut' = TRUE /\ UNCHANGED lease

Next ==
  \/ \E h \in Holders, o \in Runs \cup {Free} : Provide(h, o)
  \/ \E h \in Holders, r \in Runs : Grant(h, r)
  \/ \E h \in Holders, o \in Runs \cup {Free, Gone} : GiveBack(h, o)
  \/ \E hs \in SUBSET Holders : Discard(hs)
  \/ Shut

Spec == Init /\ [][Next]_vars
=============================================================================
