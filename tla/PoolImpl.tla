------------------------------ MODULE PoolImpl -------------------------------
(***************************************************************************)
(* pkg/sandbox/pool.go: the interface poolImpl, as a protocol between the  *)
(* pool and its holders.  A holder is provided, runs one command at a time,*)
(* each followed by cleanup and checkHolder, and is used again only when   *)
(* checkHolder has found it alive.  close may come at any time, a run in   *)
(* progress included.  Nobody forgets a holder without having closed it.   *)
(*                                                                         *)
(* The pool implements it for all its holders (PoolProperties), whatever   *)
(* they do; a docker or k8s holder implements it for itself (Holder),      *)
(* however often it is used.  So neither has to know more of the other.    *)
(***************************************************************************)
CONSTANT Holders

VARIABLES
  call, \* "none": not built, or forgotten; "idle"; "run": run or cleanup is
        \* in progress; "check": checkHolder is; "dead": not to be used again
  obj   \* the container or pod: "up"; "down": it has ended; "absent": there is
        \* none, or close was called; "left": a failed newImpl has left it

vars == <<call, obj>>

Init ==
  /\ call = [h \in Holders |-> "none"] /\ obj = [h \in Holders |-> "absent"]

\* newImpl returns a holder.  Nobody asks whether it is still up.
Provide(h) ==
  /\ call[h] = "none" /\ obj[h] = "absent"
  /\ call' = [call EXCEPT ![h] = "idle"]
  /\ \E o \in {"up", "down"} : obj' = [obj EXCEPT ![h] = o]

\* newImpl fails and leaves a container or pod that the pool never learns of.
Abandon(h) ==
  /\ call[h] = "none" /\ obj[h] = "absent"
  /\ obj' = [obj EXCEPT ![h] = "left"] /\ UNCHANGED call

Calls(h, from, to) == call[h] = from /\ call' = [call EXCEPT ![h] = to]

\* run is called; run and cleanup have returned and checkHolder is called.
Run(h)    == Calls(h, "idle", "run") /\ UNCHANGED obj
Finish(h) == Calls(h, "run", "check") /\ UNCHANGED obj

\* checkHolder returns.
Judge(h) ==
  /\ \/ obj[h] = "up" /\ Calls(h, "check", "idle")
     \/ Calls(h, "check", "dead")
  /\ UNCHANGED obj

\* The container or pod ends on its own.
Die(h) ==
  /\ obj[h] = "up" /\ obj' = [obj EXCEPT ![h] = "down"] /\ UNCHANGED call

\* close is called.  The pool does not look at its error (pool.go:204, 218, 347):
\* for the pool the container or pod is gone.
Close(h) ==
  /\ call[h] # "none" /\ obj' = [obj EXCEPT ![h] = "absent"] /\ UNCHANGED call

\* The same by the last one who knew of the holder, or after it was closed.
Discard(h) ==
  /\ call[h] \in {"idle", "dead"} /\ call' = [call EXCEPT ![h] = "none"]
  /\ obj' = [obj EXCEPT ![h] = "absent"]

Next == \E h \in Holders :
  Provide(h) \/ Abandon(h) \/ Run(h) \/ Finish(h) \/ Judge(h) \/ Die(h) \/ Close(h) \/ Discard(h)

Spec == Init /\ [][Next]_vars
=============================================================================
