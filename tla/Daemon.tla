------------------------------- MODULE Daemon --------------------------------
(***************************************************************************)
(* The process around a pool: `sandbox serve` (cmd/sandbox/serve.go) with  *)
(* its request handlers (pkg/sandbox/server.go), `sandbox mcp -pool`       *)
(* (cmd/sandbox/mcp.go), and the clients (pkg/sandbox/client.go, `run      *)
(* -via` in cmd/sandbox/main.go).  One process lives at a time; after its  *)
(* end it may be started again with the same flags, and finds the socket   *)
(* file that is there.                                                     *)
(*                                                                         *)
(* The pool is what module Pool shows it to be, seen from a caller: a      *)
(* number of free holders and the calls that have one, build one, wait for *)
(* one or remove one.  Close refuses new holders, then tries to remove     *)
(* those it knows under the calls that use them, and panics on one being   *)
(* built.                                                                  *)
(*                                                                         *)
(* An operator marked "mutant" is no part of the model: it is the bug that *)
(* replaces the operator after it when a property is tested.               *)
(***************************************************************************)
EXTENDS Naturals, FiniteSets

CONSTANTS Calls,     \* bound: the requests made to one process
          Limited,   \* those with a RunRequest.Timeout
          Min, Max,  \* the pool's bounds
          Faults     \* "death": holders die; "build": they cannot be made;
                     \* "listen": listeners fail; "remove": removals fail or
                     \* come too late; "kill": SIGKILL

ASSUME DaemonAssumption ==
  /\ IsFiniteSet(Calls) /\ Limited \subseteq Calls
  /\ Min \in Nat /\ Max \in Nat \ {0} /\ Min <= Max
  /\ Faults \subseteq {"death", "build", "listen", "remove", "kill"}

VARIABLES
  ports, defect,        \* flags: where to serve, what is wrong with them
  main, code,           \* the main goroutine, the exit status
  signal, errs,         \* ctx is done; errors in errCh
  listening, sock,      \* ports that accept; the file at *unixPath
  late,                 \* Shutdown's twenty seconds ran out
  pool, free,           \* Pool.closed and how far Close is; idle holders
  left,                 \* holders the process did not see removed at its end
  escaped,              \* history: holders it tried to remove, or to make, in
                        \* vain, and does not know any more
  at, res,              \* each call's handler goroutine, its Result and error
  via, got              \* its transport, what its client has got

flagVars    == <<ports, defect>>
mainVars    == <<main, code, signal, errs, listening, sock, late, left>>
processVars == <<mainVars, escaped>>
poolVars    == <<pool, free>>
callVars    == <<at, res, via, got>>
vars        == <<flagVars, processVars, poolVars, callVars>>

Transports == {"unix", "http", "stdio"}
InPool     == {"acquire", "build", "parked", "run", "teardown"}
Active     == InPool \cup {"parse", "answer"}
Results    == {"ok", "timeout", "error"}

TypeOK ==
  /\ ports \subseteq Transports /\ defect \in {"none", "opts", "pool", "remote"}
  /\ main \in {"flags", "pool", "listen", "chmod", "http", "serving", "drain",
               "unlisten", "close", "closing", "exit", "exited"}
  /\ code \in {"none", "0", "1", "2", "panic", "killed"}
  /\ signal \in BOOLEAN /\ errs \in 0..2 /\ listening \subseteq ports
  /\ sock \in {"none", "stale", "live"} /\ late \in BOOLEAN
  /\ left \in Nat /\ escaped \in Nat
  /\ pool \in {"none", "open", "closing", "closed"} /\ free \in 0..Max
  /\ at \in [Calls -> Active \cup {"none", "done"}]
  /\ res \in [Calls -> Results \cup {"none"}]
  /\ via \in [Calls -> Transports]
  /\ got \in [Calls -> Results \cup {"idle", "waiting", "left", "lost"}]

In(stages) == {c \in Calls : at[c] \in stages}

\* Nobody has asked for anything yet.
NoCalls == [at  |-> [c \in Calls |-> "none"], res |-> [c \in Calls |-> "none"],
            got |-> [c \in Calls |-> "idle"], via |-> [c \in Calls |-> "unix"]]

\* serve needs a unix path or an address; mcp has its client on stdio.
Init ==
  /\ ports \in (SUBSET {"unix", "http"} \ {{}}) \cup {{"stdio"}}
  /\ defect \in {"none", "opts", "pool"}
       \cup {d \in {"remote"} : "http" \in ports}
  /\ main = "flags" /\ code = "none" /\ signal = FALSE /\ errs = 0
  /\ listening = {} /\ sock = "none" /\ late = FALSE /\ left = 0 /\ escaped = 0
  /\ pool = "none" /\ free = 0
  /\ at = NoCalls.at /\ res = NoCalls.res /\ got = NoCalls.got
  /\ via = NoCalls.via

-----------------------------------------------------------------------------
\* A request, from its client's side.

\* Submit connects and sends.  The kernel takes connections for a listener
\* also while nobody accepts them.
Submit(c) ==
  /\ got[c] = "idle" /\ got' = [got EXCEPT ![c] = "waiting"]
  /\ \E t \in listening : via' = [via EXCEPT ![c] = t]
  /\ UNCHANGED <<flagVars, processVars, poolVars, at, res>>

\* submitUnix has its deadline: that of ctx, or ten minutes.
Deadline(c) == via[c] = "unix"

\* ctx ends under submitHTTP or a tool call.  On a unix socket only the
\* deadline ends the exchange: a cancelled ctx is not looked at.
Cancelled(c) == via[c] # "unix"

Leave(c) ==
  /\ got[c] = "waiting" /\ (Deadline(c) \/ Cancelled(c))
  /\ got' = [got EXCEPT ![c] = "left"]
  /\ UNCHANGED <<flagVars, processVars, poolVars, at, res, via>>

-----------------------------------------------------------------------------
\* The handler of a request: ServeHTTP or handleConn, handleRun, Pool.Run.

Goto(c, stage) == at' = [at EXCEPT ![c] = stage]

\* handleRun and Pool.Run are over, with result r.
Finish(c, r) == Goto(c, "answer") /\ res' = [res EXCEPT ![c] = r]

\* An accepted connection gets a goroutine of its own.
Accept(c) ==
  /\ got[c] \in {"waiting", "left"} /\ at[c] = "none" /\ via[c] \in listening
  /\ Goto(c, "parse")
  /\ UNCHANGED <<flagVars, processVars, poolVars, res, via, got>>

\* A request that is read is refused or goes to the pool.
Examine(c) ==
  /\ at[c] = "parse"
  /\ \/ Finish(c, "error")
     \/ Goto(c, "acquire") /\ UNCHANGED res
  /\ UNCHANGED <<flagVars, processVars, poolVars, via, got>>

\* It may be no JSON, have no command, or a timeout that is none.
Parse(c) == via[c] # "stdio" /\ Examine(c)

\* run_sandbox, run_script: an empty field, or another image than the pool's.
Tool(c) == via[c] = "stdio" /\ Examine(c)

\* The handler's ctx: r.Context() ends with the connection, handleConn's is
\* the background; either may have the request's own timeout.
TimedOut(c) == c \in Limited /\ via[c] # "stdio"  \* also a mutant of CtxDone
CtxDone(c) == TimedOut(c) \/ (Cancelled(c) /\ got[c] = "left")

Live == free + Cardinality(In({"build", "run"}))

RoomOffByOne == Live <= Max           \* mutant
Room == Live < Max

Acquire(c) ==
  /\ at[c] = "acquire"
  /\ \/ free > 0 /\ Goto(c, "run") /\ free' = free - 1 /\ UNCHANGED res
     \/ /\ free = 0 /\ UNCHANGED free
        /\ \/ pool # "open" /\ Finish(c, "error")
           \/ /\ pool = "open" /\ UNCHANGED res
              /\ Goto(c, IF Room THEN "build" ELSE "parked")
  /\ UNCHANGED <<flagVars, processVars, pool, via, got>>

\* At most so many holders stay, because their removal fails or is late, which
\* nobody reports (pool.go:218, 347), or because making them failed badly.
Escape(some) ==
  \E k \in 0..some : (k = 0 \/ "remove" \in Faults) /\ escaped' = escaped + k

Build(c) ==
  /\ at[c] = "build"
  /\ \/ Goto(c, "run") /\ UNCHANGED <<res, escaped>>
     \/ ("build" \in Faults \/ CtxDone(c)) /\ Finish(c, "error") /\ Escape(1)
  /\ UNCHANGED <<flagVars, mainVars, poolVars, via, got>>

Parked(c) ==
  /\ at[c] = "parked"
  /\ \/ free > 0 /\ free' = free - 1 /\ Goto(c, "run") /\ UNCHANGED res
     \/ CtxDone(c) /\ Finish(c, "error") /\ UNCHANGED free
  /\ UNCHANGED <<flagVars, processVars, pool, via, got>>

\* The command has ended or Opts.Timeout has, and checkHolder is done.  The
\* holder goes back, or is removed because it is dead or the pool closes;
\* one that Close has removed gives an error, also after a good run.
Run(c) ==
  /\ at[c] = "run"
  /\ \E r \in Results :
       /\ res' = [res EXCEPT ![c] = r]
       /\ \/ pool = "open" /\ free' = free + 1 /\ Goto(c, "answer")
          \/ pool = "closing" /\ Goto(c, "teardown") /\ UNCHANGED free
          \/ /\ "death" \in Faults /\ pool \in {"open", "closing"} /\ r # "ok"
             /\ Goto(c, "teardown") /\ UNCHANGED free
          \/ pool = "closed" /\ r # "ok" /\ Goto(c, "answer") /\ UNCHANGED free
  /\ UNCHANGED <<flagVars, processVars, pool, via, got>>

\* impl.close has returned.
TearDown(c) ==
  /\ at[c] = "teardown" /\ Goto(c, "answer") /\ Escape(1)
  /\ UNCHANGED <<flagVars, mainVars, poolVars, res, via, got>>

\* A RunResponse has the flags next to the error; an MCP answer has either
\* the output or the error.
Rendered(c) ==
  IF via[c] = "stdio" /\ res[c] # "ok" THEN "error" ELSE res[c]

\* The answer is written; after handleConn's ten minutes nothing can be.
Answer(c) ==
  /\ at[c] = "answer" /\ Goto(c, "done")
  /\ res' = [res EXCEPT ![c] = "none"]
  /\ \/ /\ got[c] = "waiting"
        /\ \E a \in {Rendered(c)} \cup {l \in {"lost"} : via[c] = "unix"} :
             got' = [got EXCEPT ![c] = a]
     \/ got[c] # "waiting" /\ UNCHANGED got
  /\ UNCHANGED <<flagVars, processVars, poolVars, via>>

PoolStep(c) ==
  Acquire(c) \/ Build(c) \/ Parked(c) \/ Run(c) \/ TearDown(c) \/ Answer(c)

-----------------------------------------------------------------------------
\* The main goroutine: runServe and runMCP.

Serve == "stdio" \notin ports

\* What exists when the process ends and is not known to be removed.
Remaining ==
  Cardinality(In({"teardown"})) + (IF pool = "closed" THEN 0 ELSE Live)

\* The process ends, and with it every goroutine and connection.
End(how) ==
  /\ main' = "exited" /\ code' = how /\ left' = Remaining + escaped'
  /\ listening' = {} /\ sock' = (IF sock = "live" THEN "stale" ELSE sock)
  /\ pool' = "none" /\ free' = 0
  /\ signal' = FALSE /\ errs' = 0
  /\ at' = [c \in Calls |-> IF got[c] = "idle" THEN "none" ELSE "done"]
  /\ got' = [c \in Calls |-> IF got[c] = "waiting" THEN "lost" ELSE got[c]]
  /\ res' = NoCalls.res
  /\ UNCHANGED <<flagVars, late, via>>

\* Bad flags: nothing has been made yet.
Flags ==
  /\ main = "flags"
  /\ \/ defect = "opts" /\ UNCHANGED escaped /\ End("2")
     \/ /\ defect # "opts" /\ main' = "pool"
        /\ UNCHANGED <<flagVars, code, signal, errs, listening, sock, late,
                       escaped, left, poolVars, callVars>>

\* NewPool; it removes itself what it made before it failed.
NewPool ==
  /\ main = "pool"
  /\ \/ (defect = "pool" \/ "build" \in Faults \/ signal) /\ Escape(Min) /\ End("1")
     \/ /\ defect # "pool" /\ pool' = "open" /\ free' = Min
        /\ main' = "listen"
        /\ UNCHANGED <<flagVars, code, signal, errs, listening, sock, late, escaped,
                       left, callVars>>

\* buildMCPServer and server.Run: one client, on stdio.
StartMCP ==
  /\ main = "listen" /\ ~Serve
  /\ main' = "serving" /\ listening' = {"stdio"}
  /\ UNCHANGED <<flagVars, code, signal, errs, sock, late, escaped, left, poolVars,
                 callVars>>

\* From here on the deferred pool.Close is on every way out.
ExitAtOnce(how) == main' = "exit" /\ code' = how  \* mutant: not deferred yet
Return(how) == main' = "close" /\ code' = how

\* os.Stat, os.Remove and Listen.  The file may resist os.Remove, whose error is
\* ignored, or Listen fail for another reason.
ListenUnix ==
  /\ main = "listen" /\ Serve
  /\ \/ "unix" \notin ports /\ main' = "http" /\ UNCHANGED <<code, sock>>
     \/ "unix" \in ports /\ main' = "chmod" /\ sock' = "live" /\ UNCHANGED code
     \/ /\ "unix" \in ports /\ "listen" \in Faults /\ Return("1")
        /\ sock' \in {sock, "none"}
  /\ UNCHANGED <<flagVars, signal, errs, listening, late, escaped, left,
                 poolVars, callVars>>

\* l.Close() unlinks the socket.
LeftOpen == sock                      \* mutant
Unlinked == "none"

\* os.Chmod, and the accept loop starts.
Chmod ==
  /\ main = "chmod"
  /\ \/ /\ main' = "http" /\ listening' = listening \cup {"unix"}
        /\ UNCHANGED <<code, sock>>
     \/ /\ "listen" \in Faults /\ Return("1") /\ sock' = Unlinked
        /\ UNCHANGED listening
  /\ UNCHANGED <<flagVars, signal, errs, late, escaped, left, poolVars, callVars>>

\* An address that is not loopback is refused while unix is served already.
ListenHTTP ==
  /\ main = "http"
  /\ \/ "http" \notin ports /\ main' = "serving"
        /\ UNCHANGED <<code, listening, errs>>
     \/ "http" \in ports /\ defect = "remote" /\ Return("2")
        /\ UNCHANGED <<listening, errs>>
     \/ /\ "http" \in ports /\ defect # "remote" /\ main' = "serving"
        /\ \/ listening' = listening \cup {"http"} /\ UNCHANGED errs
           \/ "listen" \in Faults /\ errs' = errs + 1 /\ UNCHANGED listening
        /\ UNCHANGED code
  /\ UNCHANGED <<flagVars, signal, sock, late, escaped, left, poolVars, callVars>>

\* Accept fails for good: the loop's goroutine reports it and ends.
ListenerFails(t) ==
  /\ "listen" \in Faults /\ t \in listening \cap {"unix", "http"}
  /\ main \in {"http", "serving"}
  /\ listening' = listening \ {t} /\ errs' = errs + 1
  /\ UNCHANGED <<flagVars, main, code, signal, sock, late, escaped, left,
                 poolVars, callVars>>

\* serve's select, then the start of Shutdown: no more HTTP connections.
Stop ==
  /\ main = "serving" /\ Serve
  /\ \/ signal /\ UNCHANGED errs
     \/ errs > 0 /\ errs' = errs - 1
  /\ main' = "drain" /\ listening' = listening \ {"http"}
  /\ UNCHANGED <<flagVars, code, signal, sock, late, escaped, left, poolVars,
                 callVars>>

\* server.Run has returned: the signal, the end of stdin, or an error.
StopMCP ==
  /\ main = "serving" /\ ~Serve /\ listening' = {}
  /\ \/ Return("0")
     \/ ~signal /\ "listen" \in Faults /\ Return("1")
  /\ UNCHANGED <<flagVars, signal, errs, sock, late, escaped, left, poolVars,
                 callVars>>

NotAwaited == TRUE                    \* mutant
Drained == \A c \in Calls : via[c] = "http" => at[c] \notin Active

Unbounded == FALSE                    \* mutant: Shutdown without shutCtx
TimeUp == ~Drained

\* Shutdown returns: HTTP calls are through, or twenty seconds are.
Shutdown ==
  /\ main = "drain" /\ (Drained \/ TimeUp)
  /\ main' = "unlisten" /\ late' = ~Drained
  /\ UNCHANGED <<flagVars, code, signal, errs, listening, sock, left, escaped,
                 poolVars, callVars>>

\* unixListener.Close() ends the accept loop, whose error nobody reads.
Unlisten ==
  /\ main = "unlisten" /\ Return("0")
  /\ listening' = {} /\ sock' = (IF "unix" \in ports THEN "none" ELSE sock)
  /\ errs' = errs + Cardinality(listening)
  /\ UNCHANGED <<flagVars, signal, late, escaped, left, poolVars, callVars>>

\* The deferred pool.Close, up to the snapshot and then to its end.
CloseBegin ==
  /\ main = "close" /\ main' = "closing" /\ pool' = "closing"
  /\ UNCHANGED <<flagVars, code, signal, errs, listening, sock, late, escaped,
                 left, free, callVars>>

\* Its removals come one after the other, within thirty seconds for all; errors
\* are ignored.
CloseEnd ==
  /\ main = "closing"
  /\ \/ In({"build"}) # {} /\ UNCHANGED escaped /\ End("panic")
     \/ /\ In({"build"}) = {} /\ main' = "exit"
        /\ pool' = "closed" /\ free' = 0 /\ Escape(Live)
        /\ UNCHANGED <<flagVars, code, signal, errs, listening, sock, late,
                       left, callVars>>

Exit == main = "exit" /\ UNCHANGED escaped /\ End(code)

MainStep ==
  \/ Flags \/ NewPool \/ StartMCP \/ ListenUnix \/ Chmod \/ ListenHTTP \/ Stop
  \/ Shutdown \/ Unlisten \/ CloseBegin \/ CloseEnd \/ Exit

-----------------------------------------------------------------------------
\* The environment.

\* SIGINT or SIGTERM once signal.NotifyContext listens for them; on the way
\* out they change nothing.
Signal ==
  /\ main \in {"pool", "listen", "chmod", "http", "serving"}
  /\ ~signal /\ signal' = TRUE
  /\ UNCHANGED <<flagVars, main, code, errs, listening, sock, late, escaped,
                 left, poolVars, callVars>>

Kill == "kill" \in Faults /\ main # "exited" /\ UNCHANGED escaped /\ End("killed")

Restart ==
  /\ main = "exited"
  /\ main' = "flags" /\ code' = "none" /\ late' = FALSE /\ left' = 0 /\ escaped' = 0
  /\ at' = NoCalls.at /\ got' = NoCalls.got /\ via' = NoCalls.via
  /\ UNCHANGED <<flagVars, signal, errs, listening, sock, poolVars, res>>

Next ==
  \/ MainStep \/ StopMCP
  \/ \E c \in Calls : \/ Submit(c) \/ Leave(c) \/ Accept(c)
                      \/ Parse(c) \/ Tool(c) \/ PoolStep(c)
  \/ \E t \in Transports : ListenerFails(t)
  \/ Signal \/ Kill \/ Restart

Spec == Init /\ [][Next]_vars

(***************************************************************************)
(* Goroutines run and their requests to the backend have deadlines.        *)
(* Clients need not send anything; over HTTP no timeout bounds the reading *)
(* of a body, so that only the client's end ends it.                       *)
(***************************************************************************)
Fairness ==
  /\ WF_vars(MainStep) /\ WF_vars(signal /\ StopMCP)
  /\ \A c \in Calls :
       /\ WF_vars(PoolStep(c)) /\ WF_vars(Tool(c))
       /\ WF_vars((via[c] = "unix" \/ got[c] = "left") /\ Parse(c))
       /\ WF_vars(Deadline(c) /\ Leave(c))

FairSpec == Spec /\ Fairness

-----------------------------------------------------------------------------
(***************************************************************************)
(* "Close it after the Server stops serving" (server.go:38): pool.Close    *)
(* never begins under an HTTP call, unless Shutdown's twenty seconds ran   *)
(* out.  Calls over the unix socket and MCP have no such protection.       *)
(***************************************************************************)
ClosesAfterServing ==
  main \in {"closing", "exit"} =>
    \A c \in Calls : at[c] \in InPool => via[c] # "http" \/ late

(***************************************************************************)
(* "guaranteed cleanup" (sandbox.go:8; "The caller must Close the pool",   *)
(* pool.go:87): a daemon that serves HTTP only, is not killed and did not  *)
(* run out of time has tried to remove every holder, whatever ends it.     *)
(* What it leaves behind are only the ones where this failed, or was late, *)
(* and nobody was told (serve.go:58-62, pool.go:346-350).                  *)
(***************************************************************************)
NothingLeft ==
  main = "exited" /\ code # "killed" /\ ports = {"http"} /\ ~late
    => left = escaped

(***************************************************************************)
(* The socket is removed after Close (serve.go:129): a daemon that ends by *)
(* itself takes it away on every way out but two: the refusal of an HTTP   *)
(* address, which comes after unix is served, and a panic of Close.        *)
(***************************************************************************)
SocketRemoved ==
  [][sock = "live" /\ sock' = "stale" => code' \in {"2", "killed", "panic"}]_vars

(***************************************************************************)
(* "then shuts down gracefully" (serve.go:22): after a signal the process  *)
(* ends and every client has its answer or a broken connection, whatever   *)
(* the calls are waiting for.                                              *)
(***************************************************************************)
ShutdownEnds ==
  signal ~> main = "exited" /\ \A c \in Calls : got[c] # "waiting"

(***************************************************************************)
(* A call whose HTTP or MCP client has gone, or whose own timeout is over, *)
(* does not wait for a holder for ever (server.go:60, 96).                 *)
(***************************************************************************)
AbandonedEnds ==
  \A c \in Calls :
    at[c] \in InPool /\ (TimedOut(c) \/ (via[c] # "unix" /\ got[c] = "left"))
      ~> at[c] = "done"
=============================================================================
