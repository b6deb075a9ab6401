----------------------------- MODULE DaemonProofs -----------------------------
(***************************************************************************)
(* Proofs about the process around a pool, for any number of requests, any *)
(* bounds of the pool, every combination of ports and any faults: its      *)
(* types, the order of its shutdown, and what it leaves behind, holders or *)
(* its socket.                                                             *)
(*                                                                         *)
(* The properties hold because of where the main goroutine is: Places says *)
(* what is open, listening and reported there, Request what a request may  *)
(* be doing meanwhile.  That the pool is never over-filled (Within) is     *)
(* needed for the types alone.                                             *)
(***************************************************************************)
EXTENDS Daemon, FiniteSetTheorems, TLAPS

Idle   == {"flags", "pool", "exited"}
Before == {"flags", "pool", "listen", "chmod"}

\* What is there, by where the main goroutine is (serve.go:48-131,
\* mcp.go:63-107).
Places ==
  /\ "stdio" \in ports => "unix" \notin ports /\ "http" \notin ports
  /\ main \in Idle => pool = "none" /\ free = 0
  /\ main \in Before \cup {"exited"} => listening = {} /\ errs = 0
  /\ main # "serving" => "http" \notin listening
  /\ main \in {"chmod", "http", "drain", "unlisten"} => Serve
  /\ main = "chmod" => sock = "live"
  /\ main \in Before \cup {"http", "serving", "drain"} => ~late
  /\ main = "exit" => pool = "closed"
  /\ main \in {"close", "closing", "exit"} => code # "none"
  /\ main \in Before \cup {"http", "serving", "drain", "unlisten"} => code = "none"
  /\ main \in {"flags", "pool", "listen", "exited"} => sock # "live"
  /\ sock = "live" => "unix" \in ports
  /\ main \in {"close", "closing", "exit"} /\ sock = "live" => code = "2"

One(t) == IF t \in listening THEN 1 ELSE 0

\* Each listener reports at most one error (serve.go:67).
Reports ==
  /\ main = "http" => errs + One("unix") <= 1
  /\ main \in {"serving", "drain", "unlisten"} =>
       errs + One("unix") + One("http") <= 2

\* What a request does, by where the main goroutine is.
Request(c) ==
  /\ got[c] = "idle" => at[c] = "none"
  /\ got[c] # "idle" => via[c] \in ports
  /\ at[c] \in Active => main \notin Idle
  /\ at[c] \in {"teardown", "answer"} => res[c] \in Results
  /\ main \notin {"serving", "drain"} /\ ~late /\ via[c] = "http" =>
       at[c] \notin Active

Requests == \A c \in Calls : Request(c)

\* Holders that are idle or in a call's hands.
Within == Live <= Max

\* The inductive invariant.
DaemonInv == TypeOK /\ Places /\ Reports /\ Requests /\ Within /\ NothingLeft

USE DaemonAssumption

-----------------------------------------------------------------------------
\* The types of the main goroutine's part and of the requests' part.
MainTyped ==
  /\ ports \subseteq Transports /\ defect \in {"none", "opts", "pool", "remote"}
  /\ main \in {"flags", "pool", "listen", "chmod", "http", "serving", "drain",
               "unlisten", "close", "closing", "exit", "exited"}
  /\ code \in {"none", "0", "1", "2", "panic", "killed"}
  /\ signal \in BOOLEAN /\ errs \in 0..2 /\ listening \subseteq ports
  /\ sock \in {"none", "stale", "live"} /\ late \in BOOLEAN /\ left \in Nat
  /\ escaped \in Nat
  /\ pool \in {"none", "open", "closing", "closed"} /\ free \in 0..Max
CallsTyped ==
  /\ at \in [Calls -> Active \cup {"none", "done"}]
  /\ res \in [Calls -> Results \cup {"none"}]
  /\ via \in [Calls -> Transports]
  /\ got \in [Calls -> Results \cup {"idle", "waiting", "left", "lost"}]

LEMMA TypeParts == TypeOK <=> MainTyped /\ CallsTyped
BY DEF TypeOK, MainTyped, CallsTyped

\* Where a request is, by name.
LEMMA StageNames ==
  /\ Active = {"acquire", "build", "parked", "run", "teardown", "parse", "answer"}
  /\ Results = {"ok", "timeout", "error"}
  /\ InPool \subseteq Active
BY DEF Active, InPool, Results

\* The calls that have a holder or build one.
Busy == Cardinality(In({"build", "run"}))

LEMMA LiveIs == Live = free + Busy
BY DEF Live, Busy

LEMMA InFinite ==
  ASSUME NEW S
  PROVE  IsFiniteSet(In(S)) /\ Cardinality(In(S)) \in Nat
<1>1. In(S) \in SUBSET Calls
  BY DEF In
<1> QED BY <1>1, FS_Subset, FS_CardinalityType

\* What has escaped stays a number.
LEMMA EscapeTyped ==
  ASSUME escaped \in Nat, NEW some \in Nat, Escape(some) PROVE escaped' \in Nat
BY DEF Escape

\* One request goes to another place.
LEMMA BusyAfter ==
  ASSUME CallsTyped, NEW c \in Calls, NEW s, at' = [at EXCEPT ![c] = s]
  PROVE  /\ Busy \in Nat /\ Busy' \in Nat
         /\ at[c] \in {"build", "run"} => Busy > 0
         /\ Busy' = IF at[c] \in {"build", "run"}
                    THEN IF s \in {"build", "run"} THEN Busy ELSE Busy - 1
                    ELSE IF s \in {"build", "run"} THEN Busy + 1 ELSE Busy
<1> DEFINE B == In({"build", "run"})
<1>1. IsFiniteSet(B) /\ Cardinality(B) \in Nat
  BY InFinite
<1>2. c \in B <=> at[c] \in {"build", "run"}
  BY DEF In
<1>3. B' = IF s \in {"build", "run"} THEN B \cup {c} ELSE B \ {c}
  BY DEF In, CallsTyped
<1>4. /\ Cardinality(B \cup {c}) = IF c \in B THEN Cardinality(B) ELSE Cardinality(B) + 1
      /\ Cardinality(B \ {c}) = IF c \in B THEN Cardinality(B) - 1 ELSE Cardinality(B)
      /\ IsFiniteSet(B \cup {c}) /\ IsFiniteSet(B \ {c})
  BY <1>1, FS_AddElement, FS_RemoveElement
<1>5. Cardinality(B \cup {c}) \in Nat /\ Cardinality(B \ {c}) \in Nat
  BY <1>4, FS_CardinalityType
<1>6. c \in B => Cardinality(B) > 0
  BY <1>1, <1>4, <1>5
<1>7. Busy = Cardinality(B) /\ Busy' = Cardinality(B')
  BY DEF Busy
<1> QED BY <1>1, <1>2, <1>3, <1>4, <1>5, <1>6, <1>7

-----------------------------------------------------------------------------
\* The process ends.
LEMMA EndKeeps ==
  ASSUME DaemonInv, NEW how \in {"0", "1", "2", "panic", "killed"}, End(how),
         escaped' \in Nat,
         how # "killed" /\ ports = {"http"} /\ ~late => Remaining = 0
  PROVE  DaemonInv'
<1>0. MainTyped /\ CallsTyped
  BY TypeParts DEF DaemonInv
<1>1. Remaining \in Nat
  <2>1. /\ Cardinality(In({"teardown"})) \in Nat
        /\ Busy \in Nat /\ free \in Nat
    BY <1>0, InFinite DEF Busy, MainTyped
  <2> QED BY <2>1, LiveIs DEF Remaining
<1>2. /\ main' = "exited" /\ code' = how /\ left' = Remaining + escaped'
      /\ listening' = {} /\ sock' # "live" /\ sock' \in {"none", "stale"}
      /\ pool' = "none" /\ free' = 0 /\ signal' = FALSE /\ errs' = 0
      /\ UNCHANGED <<ports, defect, late, via>>
  BY <1>0 DEF End, flagVars, MainTyped
<1>3. MainTyped'
  <2>0. left' \in Nat
    <3>1. \A a, b \in Nat : a + b \in Nat
      OBVIOUS
    <3> QED BY <1>1, <1>2, <3>1
  <2>1. free' \in 0..Max /\ errs' \in 0..2 /\ left' \in Nat
    BY <1>2, <2>0
  <2>2. signal' \in BOOLEAN /\ late' \in BOOLEAN
    BY <1>0, <1>2 DEF MainTyped
  <2>3. code' \in {"none", "0", "1", "2", "panic", "killed"}
    BY <1>2
  <2> QED BY <1>0, <1>2, <2>1, <2>2, <2>3 DEF MainTyped
<1>4. /\ CallsTyped'
      /\ \A c \in Calls : at'[c] = IF got[c] = "idle" THEN "none" ELSE "done"
      /\ \A c \in Calls : got'[c] = "idle" <=> got[c] = "idle"
  BY <1>0, <1>2 DEF End, CallsTyped, NoCalls
<1>5. Requests'
  BY <1>2, <1>4, StageNames DEF Requests, Request, Idle, DaemonInv
<1>6. Places' /\ Reports' /\ NothingLeft'
  BY <1>2 DEF DaemonInv, Places, Idle, Before, Serve, Reports, NothingLeft
<1>7. Within'
  <2>1. In({"build", "run"})' = {}
    BY <1>4 DEF In
  <2>2. Busy' = 0
    BY <2>1, FS_EmptySet DEF Busy
  <2> QED BY <1>2, <2>2, LiveIs DEF Within, Live, Busy
<1> QED BY <1>3, <1>4, <1>5, <1>6, <1>7, TypeParts DEF DaemonInv, TypeOK, MainTyped, CallsTyped

-----------------------------------------------------------------------------
\* A request goes from c's place to s with result r; its client has got g.
LEMMA Moved ==
  ASSUME DaemonInv, NEW c \in Calls,
         NEW s \in Active \cup {"none", "done"}, NEW r \in Results \cup {"none"},
         NEW g \in Results \cup {"waiting", "left", "lost"},
         at' = [at EXCEPT ![c] = s], res' = [res EXCEPT ![c] = r],
         got' = [got EXCEPT ![c] = g], got[c] # "idle",
         UNCHANGED <<flagVars, mainVars, pool, via>>,
         escaped' \in Nat, escaped' = escaped \/ main \notin Idle,
         s \in Active => at[c] \in Active \/ via[c] \in listening,
         s \in {"teardown", "answer"} => r \in Results,
         free' \in 0..Max, free' + Busy' <= Max,
         main \in Idle => free' = free
  PROVE  DaemonInv'
<1>0. MainTyped /\ CallsTyped /\ Requests /\ Places
  BY TypeParts DEF DaemonInv
<1>1. /\ UNCHANGED <<ports, defect, main, code, signal, errs, listening, sock, late, left, pool, via>>
      /\ escaped' \in Nat /\ (main = "exited" => escaped' = escaped)
  BY DEF flagVars, mainVars, Idle
<1>2. MainTyped' /\ Places' /\ Reports' /\ NothingLeft' /\ Within'
  <2>1. MainTyped'
    BY <1>0, <1>1 DEF MainTyped
  <2>2. Places' /\ Reports' /\ NothingLeft'
    BY <1>1 DEF DaemonInv, Places, Serve, Reports, One, NothingLeft
  <2> QED BY <2>1, <2>2, LiveIs DEF Within, Live, Busy
<1>3. CallsTyped'
  BY <1>0, <1>1 DEF CallsTyped
<1>4. ASSUME NEW d \in Calls PROVE Request(d)'
  <2>1. CASE d # c
    BY <1>0, <1>1, <2>1 DEF CallsTyped, Requests, Request
  <2>2. CASE d = c
    <3>1. at'[c] = s /\ res'[c] = r /\ got'[c] = g /\ g # "idle"
      BY <1>0, StageNames DEF CallsTyped
    <3>2. via[c] \in listening => main \notin Idle /\ (via[c] = "http" => main = "serving")
      BY <1>0 DEF Places, Before, Idle
    <3> QED BY <1>0, <1>1, <2>2, <3>1, <3>2 DEF Requests, Request
  <2> QED BY <2>1, <2>2
<1> QED BY <1>2, <1>3, <1>4, TypeParts DEF DaemonInv, Requests, TypeOK, MainTyped, CallsTyped

\* The steps of one request.
RequestStep(c) ==
  Submit(c) \/ Leave(c) \/ Accept(c) \/ Parse(c) \/ Tool(c) \/ PoolStep(c)

LEMMA RequestKeeps ==
  ASSUME DaemonInv, NEW c \in Calls, RequestStep(c)
  PROVE  DaemonInv'
<1>0. /\ MainTyped /\ CallsTyped /\ Requests /\ Places
      /\ free \in Nat /\ Busy \in Nat /\ free + Busy <= Max
  <2>1. Busy \in Nat
    BY InFinite DEF Busy
  <2> QED BY <2>1, TypeParts, LiveIs DEF DaemonInv, MainTyped, Within
<1>a. /\ at[c] \in Active => got[c] # "idle" /\ main \notin Idle
      /\ res[c] \in Results \cup {"none"} /\ at[c] \in Active \cup {"none", "done"}
      /\ got[c] \in Results \cup {"idle", "waiting", "left", "lost"}
      /\ res = [res EXCEPT ![c] = res[c]] /\ at = [at EXCEPT ![c] = at[c]]
      /\ got = [got EXCEPT ![c] = got[c]] /\ escaped \in Nat
  BY <1>0, StageNames DEF Requests, Request, CallsTyped, MainTyped
<1>1. CASE Submit(c)
  <2>1. /\ got[c] = "idle" /\ at[c] = "none" /\ got' = [got EXCEPT ![c] = "waiting"]
        /\ UNCHANGED <<ports, defect, main, code, signal, errs, listening, sock, late, left, escaped,
                       pool, free, at, res>>
    BY <1>0, <1>1 DEF Submit, Requests, Request, flagVars, processVars, mainVars, poolVars
  <2>2. PICK t \in listening : via' = [via EXCEPT ![c] = t]
    BY <1>1 DEF Submit
  <2>3. t \in ports /\ t \in Transports
    BY <1>0 DEF MainTyped
  <2>4. CallsTyped'
    BY <1>0, <2>1, <2>2, <2>3 DEF CallsTyped
  <2>5. Requests'
    BY <1>0, <2>1, <2>2, <2>3, StageNames DEF CallsTyped, Requests, Request
  <2>6. MainTyped' /\ Places' /\ Reports' /\ NothingLeft' /\ Within'
    <3>1. MainTyped'
      BY <1>0, <2>1 DEF MainTyped
    <3>2. Places' /\ Reports' /\ NothingLeft'
      BY <2>1 DEF DaemonInv, Places, Serve, Reports, One, NothingLeft
    <3>3. Within'
      BY <2>1 DEF DaemonInv, Within, Live, In
    <3> QED BY <3>1, <3>2, <3>3
  <2> QED BY <2>4, <2>5, <2>6, TypeParts DEF DaemonInv, TypeOK, MainTyped, CallsTyped
\* The others leave the main goroutine's part and the transport alone.
<1>b. ASSUME NEW s \in Active \cup {"none", "done"}, NEW r \in Results \cup {"none"},
             NEW g \in Results \cup {"waiting", "left", "lost"},
             at' = [at EXCEPT ![c] = s], res' = [res EXCEPT ![c] = r],
             got' = [got EXCEPT ![c] = g], got[c] # "idle",
             UNCHANGED <<flagVars, mainVars, pool, via>>,
             escaped' \in Nat, escaped' = escaped \/ main \notin Idle,
             s \in Active => at[c] \in Active \/ via[c] \in listening,
             s \in {"teardown", "answer"} => r \in Results,
             free' = free,
             s \in {"build", "run"} => at[c] \in {"build", "run"}
      PROVE  DaemonInv'
  <2>a. /\ free' = free /\ at' = [at EXCEPT ![c] = s]
        /\ s \in {"build", "run"} => at[c] \in {"build", "run"}
    BY <1>b
  <2>b. /\ Busy' \in Nat
        /\ Busy' = IF at[c] \in {"build", "run"}
                   THEN IF s \in {"build", "run"} THEN Busy ELSE Busy - 1
                   ELSE IF s \in {"build", "run"} THEN Busy + 1 ELSE Busy
    BY <1>0, <2>a, BusyAfter
  <2>c. Busy' = Busy \/ Busy' = Busy - 1
    BY <2>a, <2>b
  <2>d. /\ free \in Nat /\ Busy \in Nat /\ Busy' \in Nat /\ free + Busy <= Max
        /\ Max \in Nat /\ free' = free
    BY <1>0, <2>a, <2>b
  <2>1. free' + Busy' <= Max /\ free' \in 0..Max
    <3>1. \A f, b, d, m \in Nat :
            f + b <= m /\ (d = b \/ d = b - 1) => f + d <= m /\ f \in 0..m
      OBVIOUS
    <3> QED BY ONLY <2>c, <2>d, <3>1
  <2> QED BY <1>b, <2>1, Moved
<1>2. CASE Leave(c)
  <2>1. /\ at' = [at EXCEPT ![c] = at[c]] /\ res' = [res EXCEPT ![c] = res[c]]
        /\ got' = [got EXCEPT ![c] = "left"] /\ got[c] # "idle"
        /\ UNCHANGED <<flagVars, mainVars, escaped, pool, via, free>>
    BY <1>a, <1>2 DEF Leave, poolVars, processVars
  <2>2. at[c] \in {"teardown", "answer"} => res[c] \in Results
    BY <1>0 DEF Requests, Request
  <2> QED BY <1>a, <1>b, <2>1, <2>2
<1>3. CASE Accept(c)
  <2>1. /\ at' = [at EXCEPT ![c] = "parse"] /\ res' = [res EXCEPT ![c] = res[c]]
        /\ got' = [got EXCEPT ![c] = got[c]] /\ got[c] \in {"waiting", "left"}
        /\ via[c] \in listening
        /\ UNCHANGED <<flagVars, mainVars, escaped, pool, via, free>>
    BY <1>a, <1>3 DEF Accept, Goto, poolVars, processVars
  <2> QED BY <1>a, <1>b, <2>1, StageNames
<1>4. CASE Parse(c) \/ Tool(c)
  <2>1. Examine(c)
    BY <1>4 DEF Parse, Tool
  <2>2. /\ at[c] = "parse" /\ got' = [got EXCEPT ![c] = got[c]]
        /\ UNCHANGED <<flagVars, mainVars, escaped, pool, via, free>>
        /\ \/ at' = [at EXCEPT ![c] = "answer"] /\ res' = [res EXCEPT ![c] = "error"]
           \/ at' = [at EXCEPT ![c] = "acquire"] /\ res' = [res EXCEPT ![c] = res[c]]
    BY <1>a, <2>1 DEF Examine, Finish, Goto, poolVars, processVars
  <2> QED BY <1>a, <1>b, <2>2, StageNames
<1>5. CASE Acquire(c) \/ Parked(c)
  <2>1. /\ at[c] \in {"acquire", "parked"} /\ got' = [got EXCEPT ![c] = got[c]]
        /\ UNCHANGED <<flagVars, mainVars, escaped, pool, via>>
        /\ \/ /\ at' = [at EXCEPT ![c] = "run"] /\ free > 0 /\ free' = free - 1
              /\ res' = [res EXCEPT ![c] = res[c]]
           \/ /\ at' = [at EXCEPT ![c] = "answer"] /\ res' = [res EXCEPT ![c] = "error"]
              /\ free' = free
           \/ /\ at' = [at EXCEPT ![c] = "build"] /\ Live < Max /\ free' = free
              /\ res' = [res EXCEPT ![c] = res[c]]
           \/ /\ at' = [at EXCEPT ![c] = "parked"] /\ free' = free
              /\ res' = [res EXCEPT ![c] = res[c]]
    BY <1>a, <1>5 DEF Acquire, Parked, Finish, Goto, Room, processVars
  <2>2. CASE at' = [at EXCEPT ![c] = "run"] /\ free > 0 /\ free' = free - 1
             /\ res' = [res EXCEPT ![c] = res[c]]
    <3>0. Busy' = Busy + 1
      BY <1>0, <2>1, <2>2, BusyAfter
    <3>1. free' + Busy' <= Max /\ free' \in 0..Max
      BY <1>0, <2>2, <3>0
    <3> QED BY <1>a, <2>1, <2>2, <3>1, StageNames, Moved
  <2>3. CASE at' = [at EXCEPT ![c] = "build"] /\ Live < Max /\ free' = free
             /\ res' = [res EXCEPT ![c] = res[c]]
    <3>0. Busy' = Busy + 1 /\ Live = free + Busy
      BY <1>0, <2>1, <2>3, BusyAfter, LiveIs
    <3>1. free' + Busy' <= Max /\ free' \in 0..Max
      BY <1>0, <2>3, <3>0
    <3> QED BY <1>a, <2>1, <2>3, <3>1, StageNames, Moved
  <2> QED BY <1>a, <1>b, <2>1, <2>2, <2>3, StageNames
<1>6. CASE Build(c)
  <2>1. /\ at[c] = "build" /\ got' = [got EXCEPT ![c] = got[c]]
        /\ UNCHANGED <<flagVars, mainVars, pool, via, free>>
        /\ \/ at' = [at EXCEPT ![c] = "run"] /\ res' = [res EXCEPT ![c] = res[c]]
           \/ at' = [at EXCEPT ![c] = "answer"] /\ res' = [res EXCEPT ![c] = "error"]
        /\ escaped' = escaped \/ Escape(1)
    BY <1>a, <1>6 DEF Build, Finish, Goto, poolVars
  <2>2. escaped' \in Nat /\ main \notin Idle
    BY <1>a, <1>0, <2>1, EscapeTyped, StageNames DEF MainTyped
  <2> QED BY <1>a, <1>b, <2>1, <2>2, StageNames
<1>7. CASE Run(c)
  <2>1. /\ at[c] = "run" /\ got' = [got EXCEPT ![c] = got[c]]
        /\ UNCHANGED <<flagVars, mainVars, escaped, pool, via>>
    BY <1>a, <1>7 DEF Run, processVars
  <2>2. PICK r \in Results :
          /\ res' = [res EXCEPT ![c] = r]
          /\ \/ at' = [at EXCEPT ![c] = "answer"] /\ free' = free + 1
             \/ at' = [at EXCEPT ![c] = "answer"] /\ free' = free
             \/ at' = [at EXCEPT ![c] = "teardown"] /\ free' = free
    BY <1>7 DEF Run, Goto
  <2>3. CASE at' = [at EXCEPT ![c] = "answer"] /\ free' = free + 1
    <3>0. Busy' = Busy - 1 /\ Busy' \in Nat
      BY <1>0, <2>1, <2>3, BusyAfter
    <3>1. free' + Busy' <= Max /\ free' \in 0..Max
      BY <1>0, <2>3, <3>0
    <3> QED BY <1>a, <2>1, <2>2, <2>3, <3>1, StageNames, Moved
  <2> QED BY <1>a, <1>b, <2>1, <2>2, <2>3, StageNames
<1>8. CASE TearDown(c)
  <2>1. /\ at[c] = "teardown" /\ at' = [at EXCEPT ![c] = "answer"]
        /\ got' = [got EXCEPT ![c] = got[c]] /\ res' = [res EXCEPT ![c] = res[c]]
        /\ UNCHANGED <<flagVars, mainVars, pool, via, free>> /\ Escape(1)
    BY <1>a, <1>8 DEF TearDown, Goto, poolVars
  <2>2. res[c] \in Results /\ escaped' \in Nat /\ main \notin Idle
    BY <1>a, <1>0, <2>1, EscapeTyped, StageNames DEF MainTyped, Requests, Request
  <2> QED BY <1>a, <1>b, <2>1, <2>2, StageNames
<1>9. CASE Answer(c)
  <2>1. /\ at[c] = "answer" /\ at' = [at EXCEPT ![c] = "done"]
        /\ res' = [res EXCEPT ![c] = "none"]
        /\ UNCHANGED <<flagVars, mainVars, escaped, pool, via, free>>
    BY <1>9 DEF Answer, Goto, poolVars, processVars
  <2>2. res[c] \in Results
    BY <1>0, <2>1 DEF Requests, Request
  <2>3. CASE got[c] = "waiting"
    <3>1. PICK a \in {Rendered(c)} \cup {l \in {"lost"} : via[c] = "unix"} :
            got' = [got EXCEPT ![c] = a]
      BY <1>9, <2>3 DEF Answer
    <3>2. a \in Results \cup {"waiting", "left", "lost"}
      BY <2>2, StageNames DEF Rendered
    <3> QED BY <1>a, <1>b, <2>1, <2>3, <3>1, <3>2, StageNames
  <2>4. CASE got[c] # "waiting"
    BY <1>a, <1>b, <1>9, <2>1, <2>4, StageNames DEF Answer
  <2> QED BY <2>3, <2>4
<1> QED BY <1>1, <1>2, <1>3, <1>4, <1>5, <1>6, <1>7, <1>8, <1>9 DEF RequestStep, PoolStep

-----------------------------------------------------------------------------
\* What a step of the main goroutine that leaves the requests alone keeps.
LEMMA MainKeeps ==
  ASSUME DaemonInv, UNCHANGED <<flagVars, callVars>>, MainTyped', Places', Reports',
         main' \notin Idle \/ main = "flags",
         main' \in {"serving", "drain"} \/ main \notin {"serving", "drain"}
           \/ late' \/ (\A c \in Calls : via[c] = "http" => at[c] \notin Active),
         late => late', free' <= free \/ main \in Idle, main' # "exited"
  PROVE  DaemonInv'
<1>0. MainTyped /\ CallsTyped /\ Requests /\ Places
  BY TypeParts DEF DaemonInv
<1>1. UNCHANGED <<ports, defect, at, res, via, got>>
  BY DEF flagVars, callVars
<1>2. CallsTyped' /\ NothingLeft'
  BY <1>0, <1>1 DEF CallsTyped, NothingLeft
<1>3. ASSUME NEW c \in Calls PROVE Request(c)'
  BY <1>0, <1>1 DEF Requests, Request, Idle
<1>4. Within'
  <2>1. Busy' = Busy /\ Busy \in Nat
    BY <1>1, InFinite DEF Busy, In
  <2>2. CASE free' <= free
    <3>1. free \in Nat /\ free' \in Nat /\ free + Busy <= Max
      BY <1>0, LiveIs DEF MainTyped, DaemonInv, Within
    <3>2. free' + Busy <= Max
      <4>1. Max \in Nat /\ Busy \in Nat /\ free' <= free
        BY <2>1, <2>2
      <4>2. \A a, b, f, m \in Nat : f <= a /\ a + b <= m => f + b <= m
        OBVIOUS
      <4> QED BY ONLY <3>1, <4>1, <4>2
    <3>3. Live' = free' + Busy'
      BY DEF Live, Busy
    <3> QED BY <2>1, <3>2, <3>3 DEF Within
  <2>3. CASE main \in Idle
    <3>1. In({"build", "run"}) = {}
      BY <1>0, <2>3, StageNames DEF In, Requests, Request
    <3>2. Busy = 0
      BY <3>1, FS_EmptySet DEF Busy
    <3>3. Live' = free' + Busy'
      BY DEF Live, Busy
    <3>4. free' \in Nat /\ free' <= Max
      BY DEF MainTyped
    <3>5. Live' = free'
      <4>1. Live' = free' + 0
        BY ONLY <2>1, <3>2, <3>3
      <4>2. \A f \in Nat : f + 0 = f
        OBVIOUS
      <4> QED BY ONLY <3>4, <4>1, <4>2
    <3> QED BY <3>4, <3>5 DEF Within
  <2> QED BY <2>2, <2>3
<1> QED BY <1>2, <1>3, <1>4, TypeParts DEF DaemonInv, Requests, TypeOK, MainTyped, CallsTyped

LEMMA OneIs == \A t : One(t) \in {0, 1}
BY DEF One

LEMMA MainStepKeeps ==
  ASSUME DaemonInv, MainStep \/ StopMCP
  PROVE  DaemonInv'
<1>0. MainTyped /\ CallsTyped /\ Requests /\ Places /\ Reports
  BY TypeParts DEF DaemonInv
<1>a. main \in Idle => Remaining = 0
  <2>1. CASE main \in Idle
    <3>1. In({"build", "run"}) = {} /\ In({"teardown"}) = {} /\ free = 0
      BY <1>0, <2>1, StageNames DEF In, Requests, Request, Places
    <3> QED BY <3>1, FS_EmptySet DEF Remaining, Live
  <2> QED BY <2>1
<1>b. main \notin {"serving", "drain"} /\ ~late /\ ports = {"http"} =>
        \A c \in Calls : at[c] \notin Active
  BY <1>0, StageNames DEF Requests, Request
<1> USE <1>0
<1>1. CASE Flags
  <2>1. CASE UNCHANGED escaped /\ End("2")
    BY <1>1, <1>a, <2>1, EndKeeps DEF Flags, Idle, MainTyped
  <2>2. CASE ~(UNCHANGED escaped /\ End("2"))
    <3>1. /\ main = "flags" /\ main' = "pool" /\ UNCHANGED <<flagVars, callVars>>
          /\ UNCHANGED <<code, signal, errs, listening, sock, late, left, escaped, pool, free>>
      BY <1>1, <2>2 DEF Flags, poolVars
    <3>2. MainTyped' /\ Places' /\ Reports'
      BY <3>1 DEF MainTyped, Places, Reports, Idle, Before, Serve, flagVars
    <3> QED BY <3>1, <3>2, MainKeeps DEF Idle, MainTyped
  <2> QED BY <2>1, <2>2
<1>2. CASE NewPool
  <2>1. CASE Escape(Min) /\ End("1")
    <3>1. escaped' \in Nat
      BY <2>1, EscapeTyped DEF MainTyped
    <3> QED BY <1>2, <1>a, <2>1, <3>1, EndKeeps DEF NewPool, Idle
  <2>2. CASE ~(Escape(Min) /\ End("1"))
    <3>1. /\ main = "pool" /\ main' = "listen" /\ pool' = "open" /\ free' = Min
          /\ UNCHANGED <<flagVars, callVars>>
          /\ UNCHANGED <<code, signal, errs, listening, sock, late, left, escaped>>
      BY <1>2, <2>2 DEF NewPool
    <3>2. MainTyped' /\ Places' /\ Reports'
      BY <3>1 DEF MainTyped, Places, Reports, Idle, Before, Serve, flagVars
    <3> QED BY <3>1, <3>2, MainKeeps DEF Idle
  <2> QED BY <2>1, <2>2
<1>3. CASE StartMCP
  <2>1. /\ main = "listen" /\ "stdio" \in ports /\ main' = "serving" /\ listening' = {"stdio"}
        /\ UNCHANGED <<flagVars, callVars>>
        /\ UNCHANGED <<code, signal, errs, sock, late, left, escaped, pool, free>>
    BY <1>3 DEF StartMCP, Serve, poolVars
  <2>2. MainTyped' /\ Places' /\ Reports'
    BY <2>1 DEF MainTyped, Places, Reports, One, Idle, Before, Serve, flagVars
  <2> QED BY <2>1, <2>2, MainKeeps DEF Idle, MainTyped
<1>4. CASE ListenUnix
  <2>1. /\ main = "listen" /\ Serve /\ UNCHANGED <<flagVars, callVars>>
        /\ UNCHANGED <<signal, errs, listening, late, left, escaped, pool, free>>
        /\ code = "none" /\ sock # "live"
        /\ \/ main' = "http" /\ sock' = sock /\ code' = code
           \/ main' = "chmod" /\ sock' = "live" /\ "unix" \in ports /\ code' = code
           \/ main' = "close" /\ sock' \in {sock, "none"} /\ code' = "1"
    BY <1>4 DEF ListenUnix, Return, poolVars, Places, Before
  <2>2. MainTyped' /\ Places' /\ Reports'
    BY <2>1 DEF MainTyped, Places, Reports, One, Idle, Before, Serve, flagVars
  <2> QED BY <2>1, <2>2, MainKeeps DEF Idle, MainTyped
<1>5. CASE Chmod
  <2>1. /\ main = "chmod" /\ Serve /\ UNCHANGED <<flagVars, callVars>>
        /\ listening = {} /\ errs = 0 /\ code = "none"
        /\ UNCHANGED <<signal, errs, late, left, escaped, pool, free>>
        /\ \/ main' = "http" /\ listening' = {"unix"} /\ sock' = sock /\ code' = code
           \/ main' = "close" /\ code' = "1" /\ listening' = listening /\ sock' = "none"
    BY <1>5 DEF Chmod, Return, Unlinked, poolVars, Places, Before
  <2>2. main' = "http" => "unix" \in ports
    BY <1>5 DEF Chmod, Places
  <2>3. MainTyped' /\ Places' /\ Reports'
    BY <2>1, <2>2 DEF MainTyped, Places, Reports, One, Idle, Before, Serve, flagVars
  <2> QED BY <2>1, <2>3, MainKeeps DEF Idle, MainTyped
<1>6. CASE ListenHTTP
  <2>1. /\ main = "http" /\ Serve /\ "http" \notin listening /\ code = "none"
        /\ errs + One("unix") <= 1 /\ errs \in Nat
        /\ UNCHANGED <<flagVars, callVars>> /\ UNCHANGED <<signal, sock, late, left, escaped, pool, free>>
        /\ \/ main' = "serving" /\ UNCHANGED <<code, listening, errs>>
           \/ main' = "close" /\ code' = "2" /\ UNCHANGED <<listening, errs>>
           \/ /\ main' = "serving" /\ "http" \in ports /\ code' = code
              /\ \/ listening' = listening \cup {"http"} /\ errs' = errs
                 \/ errs' = errs + 1 /\ listening' = listening
    BY <1>6 DEF ListenHTTP, Return, poolVars, Places, Before, Reports, MainTyped
  <2>2. /\ One("unix")' = One("unix") /\ One("unix") \in {0, 1} /\ One("http") = 0
        /\ One("http")' = IF "http" \in listening' THEN 1 ELSE 0
    BY <2>1 DEF One
  <2>3. errs' \in 0..2 /\ (main' = "serving" => errs' + One("unix")' + One("http")' <= 2)
    BY <2>1, <2>2
  <2>4. MainTyped' /\ Places' /\ Reports'
    <3>1. MainTyped'
      BY <2>1, <2>3 DEF MainTyped, flagVars
    <3>2. Places' /\ Reports'
      BY <2>1, <2>3 DEF Places, Reports, Idle, Before, Serve, flagVars
    <3> QED BY <3>1, <3>2
  <2> QED BY <2>1, <2>4, MainKeeps DEF Idle, MainTyped
<1>7. CASE Stop
  <2>1. /\ main = "serving" /\ Serve /\ main' = "drain" /\ listening' = listening \ {"http"}
        /\ errs' \in Nat /\ errs' <= errs /\ code = "none"
        /\ UNCHANGED <<flagVars, callVars>>
        /\ UNCHANGED <<code, signal, sock, late, left, escaped, pool, free>>
    BY <1>7 DEF Stop, poolVars, MainTyped, Places
  <2>2. /\ One("unix")' = One("unix") /\ One("unix") \in {0, 1}
        /\ One("http") \in {0, 1} /\ One("http")' = 0
    BY <2>1 DEF One
  <2>3. errs' \in 0..2 /\ errs' + One("unix")' + One("http")' <= 2
    <3>1. errs \in 0..2 /\ errs + One("unix") + One("http") <= 2
      BY <2>1 DEF Reports, MainTyped
    <3> QED BY <2>1, <2>2, <3>1
  <2>4. MainTyped' /\ Places' /\ Reports'
    BY <2>1, <2>3 DEF MainTyped, Places, Reports, Idle, Before, Serve, flagVars
  <2> QED BY <2>1, <2>4, MainKeeps DEF Idle, MainTyped
<1>8. CASE StopMCP
  <2>1. /\ main = "serving" /\ "stdio" \in ports /\ main' = "close" /\ code' \in {"0", "1"}
        /\ listening' = {} /\ sock # "live"
        /\ UNCHANGED <<flagVars, callVars>>
        /\ UNCHANGED <<signal, errs, sock, late, left, escaped, pool, free>>
    BY <1>8 DEF StopMCP, Serve, Return, poolVars, Places
  <2>2. MainTyped' /\ Places' /\ Reports'
    BY <2>1 DEF MainTyped, Places, Reports, Idle, Before, Serve, flagVars
  <2>3. \A c \in Calls : via[c] = "http" => at[c] \notin Active
    BY <2>1, StageNames DEF Requests, Request, Places
  <2> QED BY <2>1, <2>2, <2>3, MainKeeps DEF Idle, MainTyped
<1>9. CASE Shutdown
  <2>1. /\ main = "drain" /\ main' = "unlisten" /\ late' = ~Drained
        /\ UNCHANGED <<flagVars, callVars>>
        /\ UNCHANGED <<code, signal, errs, listening, sock, left, escaped, pool, free>>
    BY <1>9 DEF Shutdown, poolVars
  <2>2. late' \in BOOLEAN
    BY <2>1
  <2>3. MainTyped' /\ Places' /\ Reports'
    BY <2>1, <2>2 DEF MainTyped, Places, Reports, One, Idle, Before, Serve, flagVars
  <2>4. late' \/ \A c \in Calls : via[c] = "http" => at[c] \notin Active
    BY <2>1 DEF Drained
  <2>5. ~late
    BY <2>1 DEF Places
  <2> QED BY <2>1, <2>3, <2>4, <2>5, MainKeeps DEF Idle, MainTyped
<1>10. CASE Unlisten
  <2>1. /\ main = "unlisten" /\ Serve /\ main' = "close" /\ code' = "0" /\ listening' = {}
        /\ sock' = IF "unix" \in ports THEN "none" ELSE sock
        /\ errs' = errs + Cardinality(listening)
        /\ UNCHANGED <<flagVars, callVars>> /\ UNCHANGED <<signal, late, left, escaped, pool, free>>
    BY <1>10 DEF Unlisten, Return, poolVars, Places
  <2>2. listening = {} \/ listening = {"unix"}
    BY <2>1 DEF MainTyped, Places, Serve, Transports
  <2>3. Cardinality(listening) = One("unix")
    BY <2>2, FS_EmptySet, FS_Singleton DEF One
  <2>4. errs' \in 0..2
    <3>1. errs \in 0..2 /\ errs + One("unix") + One("http") <= 2
      BY <2>1 DEF Reports, MainTyped
    <3> QED BY <2>1, <2>3, <3>1, OneIs
  <2>5. sock' # "live"
    BY <2>1 DEF Places
  <2>6. MainTyped' /\ Places' /\ Reports'
    BY <2>1, <2>4, <2>5 DEF MainTyped, Places, Reports, Idle, Before, Serve, flagVars
  <2> QED BY <2>1, <2>6, MainKeeps DEF Idle, MainTyped
<1>11. CASE CloseBegin
  <2>1. /\ main = "close" /\ main' = "closing" /\ pool' = "closing"
        /\ UNCHANGED <<flagVars, callVars>>
        /\ UNCHANGED <<code, signal, errs, listening, sock, late, left, escaped, free>>
    BY <1>11 DEF CloseBegin
  <2>2. MainTyped' /\ Places' /\ Reports'
    BY <2>1 DEF MainTyped, Places, Reports, Idle, Before, Serve, flagVars
  <2> QED BY <2>1, <2>2, MainKeeps DEF Idle, MainTyped
<1>12. CASE CloseEnd
  <2>1. CASE In({"build"}) # {} /\ UNCHANGED escaped /\ End("panic")
    <3>1. ~(~late /\ ports = {"http"})
      BY <1>12, <1>b, <2>1, StageNames DEF CloseEnd, In
    <3> QED BY <2>1, <3>1, EndKeeps DEF MainTyped
  <2>2. CASE ~(In({"build"}) # {} /\ UNCHANGED escaped /\ End("panic"))
    <3>1. /\ main = "closing" /\ main' = "exit" /\ pool' = "closed" /\ free' = 0
          /\ UNCHANGED <<flagVars, callVars>>
          /\ UNCHANGED <<code, signal, errs, listening, sock, late, left>>
          /\ Escape(Live)
      BY <1>12, <2>2 DEF CloseEnd
    <3>0. escaped' \in Nat
      <4>1. Busy \in Nat /\ free \in Nat /\ Live = free + Busy
        BY InFinite, LiveIs DEF Busy, MainTyped
      <4>2. Live \in Nat
        BY <4>1
      <4> QED BY <3>1, <4>2, EscapeTyped DEF MainTyped
    <3>2. MainTyped' /\ Places' /\ Reports'
      BY <3>0, <3>1 DEF MainTyped, Places, Reports, Idle, Before, Serve, flagVars
    <3>3. free' <= free
      BY <3>1 DEF MainTyped
    <3> QED BY <3>1, <3>2, <3>3, MainKeeps DEF Idle
  <2> QED BY <2>1, <2>2
<1>13. CASE Exit
  <2>1. main = "exit" /\ End(code) /\ pool = "closed" /\ escaped' \in Nat
    BY <1>13 DEF Exit, Places, MainTyped
  <2>2. code \in {"0", "1", "2", "panic", "killed"}
    BY <2>1 DEF MainTyped, Places
  <2>3. ~late /\ ports = {"http"} => Remaining = 0
    <3>1. ~late /\ ports = {"http"} => In({"teardown"}) = {}
      BY <1>b, <2>1, StageNames DEF In
    <3>2. Remaining = Cardinality(In({"teardown"})) + 0
      BY <2>1 DEF Remaining
    <3> QED BY <3>1, <3>2, FS_EmptySet
  <2> QED BY <2>1, <2>2, <2>3, EndKeeps
<1> QED BY <1>1, <1>2, <1>3, <1>4, <1>5, <1>6, <1>7, <1>8, <1>9, <1>10, <1>11, <1>12, <1>13
        DEF MainStep

-----------------------------------------------------------------------------
\* The environment, and all steps.
LEMMA RestartKeeps ==
  ASSUME DaemonInv, Restart
  PROVE  DaemonInv'
<1>0. MainTyped /\ CallsTyped /\ Places
  BY TypeParts DEF DaemonInv
<1>1. /\ main = "exited" /\ main' = "flags" /\ code' = "none" /\ late' = FALSE /\ left' = 0 /\ escaped' = 0
      /\ UNCHANGED <<ports, defect, signal, errs, listening, sock, pool, free, res>>
      /\ at' = [c \in Calls |-> "none"] /\ got' = [c \in Calls |-> "idle"]
      /\ via' = [c \in Calls |-> "unix"]
  BY DEF Restart, NoCalls, flagVars, poolVars
<1>2. MainTyped'
  BY <1>0, <1>1 DEF MainTyped
<1>3. CallsTyped'
  BY <1>0, <1>1 DEF CallsTyped, Transports
<1>4. sock # "live"
  BY <1>0, <1>1 DEF Places
<1>5. Places' /\ Reports' /\ NothingLeft'
  BY <1>0, <1>1, <1>4 DEF Places, Reports, NothingLeft, Idle, Before, Serve
<1>6. Requests'
  BY <1>1, StageNames DEF Requests, Request
<1>7. Within'
  <2>1. In({"build", "run"})' = {}
    BY <1>1 DEF In
  <2>2. Live' = 0 + 0
    BY <1>0, <1>1, <2>1, FS_EmptySet DEF Live, Places, Idle
  <2> QED BY <2>2 DEF Within
<1> QED BY <1>2, <1>3, <1>5, <1>6, <1>7, TypeParts
        DEF DaemonInv, TypeOK, MainTyped, CallsTyped

LEMMA EnvironmentKeeps ==
  ASSUME DaemonInv,
         (\E t \in Transports : ListenerFails(t)) \/ Signal \/ Kill \/ Restart
         \/ UNCHANGED vars
  PROVE  DaemonInv'
<1>0. MainTyped /\ CallsTyped /\ Requests /\ Places /\ Reports
  BY TypeParts DEF DaemonInv
<1>1. ASSUME NEW t \in Transports, ListenerFails(t) PROVE DaemonInv'
  <2>1. /\ t \in listening \cap {"unix", "http"} /\ main \in {"http", "serving"}
        /\ listening' = listening \ {t} /\ errs' = errs + 1
        /\ UNCHANGED <<flagVars, callVars>>
        /\ UNCHANGED <<main, code, signal, sock, late, left, escaped, pool, free>>
    BY <1>1 DEF ListenerFails, poolVars
  <2>2. CASE t = "unix"
    <3>1. One("unix") = 1 /\ One("unix")' = 0 /\ One("http")' = One("http")
      BY <2>1, <2>2 DEF One
    <3>2. /\ errs' \in 0..2 /\ (main = "http" => errs' + One("unix")' <= 1)
          /\ main = "serving" => errs' + One("unix")' + One("http")' <= 2
      BY <1>0, <2>1, <3>1, OneIs DEF Reports, MainTyped
    <3>3. MainTyped' /\ Places' /\ Reports'
      BY <1>0, <2>1, <3>2 DEF MainTyped, Places, Reports, Idle, Before, Serve, flagVars
    <3> QED BY <1>0, <2>1, <3>3, MainKeeps DEF Idle, MainTyped
  <2>3. CASE t = "http"
    <3>1. main = "serving" /\ One("http") = 1 /\ One("http")' = 0 /\ One("unix")' = One("unix")
      BY <1>0, <2>1, <2>3 DEF One, Places
    <3>2. errs' \in 0..2 /\ errs' + One("unix")' + One("http")' <= 2
      BY <1>0, <2>1, <3>1, OneIs DEF Reports, MainTyped
    <3>3. MainTyped' /\ Places' /\ Reports'
      BY <1>0, <2>1, <3>1, <3>2 DEF MainTyped, Places, Reports, Idle, Before, Serve, flagVars
    <3> QED BY <1>0, <2>1, <3>3, MainKeeps DEF Idle, MainTyped
  <2> QED BY <2>1, <2>2, <2>3
<1>2. CASE Signal
  <2>1. /\ main \in {"pool", "listen", "chmod", "http", "serving"} /\ signal' = TRUE
        /\ UNCHANGED <<flagVars, callVars>>
        /\ UNCHANGED <<main, code, errs, listening, sock, late, left, escaped, pool, free>>
    BY <1>2 DEF Signal, poolVars
  <2>2. signal' \in BOOLEAN
    BY <2>1
  <2>3. MainTyped' /\ Places' /\ Reports'
    BY <1>0, <2>1, <2>2 DEF MainTyped, Places, Reports, One, Serve, flagVars
  <2>4. CASE main = "pool"
    <3>1. CallsTyped' /\ Requests' /\ NothingLeft' /\ Within'
      BY <1>0, <2>1, <2>4
         DEF CallsTyped, Requests, Request, NothingLeft, DaemonInv, Within, Live, In, callVars,
             flagVars
    <3> QED BY <2>3, <3>1, TypeParts DEF DaemonInv, TypeOK, MainTyped, CallsTyped
  <2>5. CASE main # "pool"
    BY <1>0, <2>1, <2>3, <2>5, MainKeeps DEF Idle, MainTyped
  <2> QED BY <2>4, <2>5
<1>3. CASE Kill
  BY <1>0, <1>3, EndKeeps DEF Kill, MainTyped
<1>4. CASE UNCHANGED vars
  <2>1. MainTyped' /\ CallsTyped'
    BY <1>0, <1>4 DEF MainTyped, CallsTyped, vars, flagVars, processVars, mainVars, poolVars, callVars
  <2>2. Places' /\ Reports' /\ Requests' /\ NothingLeft' /\ Within'
    BY <1>4 DEF DaemonInv, Places, Reports, One, Serve, Requests, Request, NothingLeft, Within,
       Live, In, vars, flagVars, processVars, mainVars, poolVars, callVars
  <2> QED BY <2>1, <2>2, TypeParts DEF DaemonInv, TypeOK, MainTyped, CallsTyped
<1> QED BY <1>1, <1>2, <1>3, <1>4, RestartKeeps

LEMMA DaemonInit == Init => DaemonInv
<1> SUFFICES ASSUME Init PROVE DaemonInv
  OBVIOUS
<1>1. /\ main = "flags" /\ code = "none" /\ signal = FALSE /\ errs = 0 /\ listening = {}
      /\ sock = "none" /\ late = FALSE /\ left = 0 /\ escaped = 0 /\ pool = "none" /\ free = 0
      /\ at = [c \in Calls |-> "none"] /\ res = [c \in Calls |-> "none"]
      /\ got = [c \in Calls |-> "idle"] /\ via = [c \in Calls |-> "unix"]
  BY DEF Init, NoCalls
<1>2. /\ ports \subseteq Transports /\ defect \in {"none", "opts", "pool", "remote"}
      /\ "stdio" \in ports => "unix" \notin ports /\ "http" \notin ports
  BY DEF Init, Transports
<1>3. MainTyped
  <2>1. signal \in BOOLEAN /\ late \in BOOLEAN
    BY <1>1
  <2> QED BY <1>1, <1>2, <2>1 DEF MainTyped
<1>4. CallsTyped
  BY <1>1 DEF CallsTyped, Transports
<1>5. Places /\ Reports /\ NothingLeft
  BY <1>1, <1>2 DEF Places, Reports, NothingLeft, Idle, Before, Serve
<1>6. Requests
  BY <1>1, StageNames DEF Requests, Request
<1>7. Within
  <2>1. In({"build", "run"}) = {}
    BY <1>1 DEF In
  <2>2. Live = 0 + 0
    BY <1>1, <2>1, FS_EmptySet DEF Live
  <2> QED BY <2>2 DEF Within
<1> QED BY <1>3, <1>4, <1>5, <1>6, <1>7, TypeParts DEF DaemonInv

LEMMA DaemonNext == DaemonInv /\ [Next]_vars => DaemonInv'
BY RequestKeeps, MainStepKeeps, EnvironmentKeeps DEF Next, RequestStep

-----------------------------------------------------------------------------
(***************************************************************************)
(* The daemon keeps its inductive invariant, whatever is asked of it and   *)
(* whatever fails, is signalled or killed (serve.go, mcp.go, server.go).   *)
(***************************************************************************)
THEOREM DaemonInvariant == Spec => []DaemonInv
BY DaemonInit, DaemonNext, PTL DEF Spec

(***************************************************************************)
(* Every variable of the daemon keeps its type; in particular errCh never  *)
(* holds more than its two places (serve.go:67).                           *)
(***************************************************************************)
THEOREM TypeCorrect == Spec => []TypeOK
<1>1. DaemonInv => TypeOK
  BY DEF DaemonInv
<1> QED BY <1>1, DaemonInvariant, PTL

(***************************************************************************)
(* The pool is not closed under an HTTP call before Shutdown's time is up  *)
(* (server.go:38, serve.go:121-131).                                       *)
(***************************************************************************)
THEOREM AlwaysClosesAfterServing == Spec => []ClosesAfterServing
<1>1. DaemonInv => ClosesAfterServing
  BY StageNames DEF DaemonInv, Requests, Request, ClosesAfterServing
<1> QED BY <1>1, DaemonInvariant, PTL

(***************************************************************************)
(* An HTTP daemon that ends in time leaves no holder behind that it has    *)
(* not tried to remove (sandbox.go:8, pool.go:87).                         *)
(***************************************************************************)
THEOREM NothingEverLeft == Spec => []NothingLeft
<1>1. DaemonInv => NothingLeft
  BY DEF DaemonInv
<1> QED BY <1>1, DaemonInvariant, PTL

\* Whoever ends the process leaves a live socket only where SocketRemoved says.
LEMMA SocketGone ==
  ASSUME DaemonInv, [Next]_vars, sock = "live", sock' = "stale"
  PROVE  code' \in {"2", "killed", "panic"}
<1>0. Places
  BY DEF DaemonInv
<1>1. ASSUME NEW c \in Calls, RequestStep(c) PROVE FALSE
  BY <1>1 DEF RequestStep, PoolStep, Submit, Leave, Accept, Parse, Tool, Examine, Acquire, Build,
     Parked, Run, TearDown, Answer, processVars, mainVars
<1>2. CASE Flags \/ NewPool
  BY <1>0, <1>2 DEF Flags, NewPool, Places
<1>3. CASE StartMCP \/ ListenUnix \/ Chmod \/ ListenHTTP \/ Stop \/ StopMCP \/ Shutdown
           \/ Unlisten \/ CloseBegin
  BY <1>3 DEF StartMCP, ListenUnix, Chmod, Unlinked, ListenHTTP, Stop, StopMCP, Shutdown,
     Unlisten, CloseBegin
<1>4. CASE CloseEnd
  BY <1>4 DEF CloseEnd, End
<1>5. CASE Exit
  BY <1>0, <1>5 DEF Exit, End, Places
<1>6. CASE Kill
  BY <1>6 DEF Kill, End
<1>7. CASE (\E t \in Transports : ListenerFails(t)) \/ Signal \/ Restart \/ UNCHANGED vars
  BY <1>7 DEF ListenerFails, Signal, Restart, vars, processVars, mainVars
<1> QED BY <1>1, <1>2, <1>3, <1>4, <1>5, <1>6, <1>7 DEF Next, MainStep, RequestStep

(***************************************************************************)
(* A daemon that ends by itself takes its socket away, but for the refusal *)
(* of an HTTP address and a panic of Close (serve.go:129).                 *)
(***************************************************************************)
THEOREM SocketAlwaysRemoved == Spec => SocketRemoved
<1>1. DaemonInv /\ [Next]_vars =>
        [sock = "live" /\ sock' = "stale" => code' \in {"2", "killed", "panic"}]_vars
  BY SocketGone
<1> QED BY <1>1, DaemonInvariant, PTL DEF Spec, SocketRemoved
=============================================================================
