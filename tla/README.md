# A verification project for sandbox-runner

The program (Go, `src/`) runs untrusted commands in throw-away containers or
pods, one-shot or in a pool of warm *holders*, from a command line, a daemon or
an MCP server. This directory holds TLA+ modules that model its core, TLC
configurations that check them on small instances, and proofs for every
instance. `PROJECT.json` maps each definition to the lines it models and lists
runs, mutants, findings, hazards and theorems.

## Inventory

| part | source | state | operations | status |
|---|---|---|---|---|
| Autoscaling pool | `pkg/sandbox/pool.go` | `Pool`: `all`, `idle`, `closed`, `reaperStop`, `reaperDone`; per holder `impl`, `dead`, `mu`, `lastUsed` | `NewPool`, `Run` (`acquire`, `release`, `drop`), `reaper`/`reapIdle`, `Close` | modelled, checked; safety and refinement proved |
| Docker holder | `pkg/sandbox/pooldocker.go` | the container and its processes, `/work`, `/tmp` | `newDockerPool`, `run`, `cleanup`, `checkHolder`, `close` | modelled, checked; safety proved |
| Kubernetes holder | `pkg/sandbox/poolk8s.go` | the pod, as above | `newK8sPool`, `exec`, `run`, `cleanup`, `checkHolder`, `close` | modelled (`Holder`, `Capture`), checked; safety proved |
| One-shot run | `pkg/sandbox/dockerapi.go`, `k8sapi.go` | one container or pod per call, the NetworkPolicy | `Run`, `waitPodRunning`, `ensureIsolationPolicy` | modelled, checked, proved |
| Output writer | `pkg/sandbox/syncwriter.go` | `closed` | `Write`, `Close` | modelled with the one-shot run |
| Front end | `pkg/sandbox/sandbox.go` | none | `New`, `Run` | backend choice only: the error for an unknown name has no state |
| Server, client | `pkg/sandbox/server.go`, `client.go` | connections | `handleRun`, `ServeHTTP`, `ServeUnix`, `Submit` | modelled (`Daemon`), checked; safety proved |
| `serve`, `mcp` | `cmd/sandbox/serve.go`, `mcp.go` | listeners, the pool | start, shutdown, tool calls | modelled (`Daemon`), checked; safety proved; one-shot `mcp` is `OneShot` |
| CLI, options | `cmd/sandbox/main.go`, `opts.go` | none | flags, exit codes | in part (`Daemon`): dispatch, bad flags, exit codes of `serve` and `mcp` |
| Seccomp, probe, bench | `seccomp.go`, `probe.go`, `bench.go` | none | table, host report, measurements | not modelled: no state of their own |

### How the parts interact

A front end (server goroutine, MCP call, library caller) calls `Pool.Run`. The
run takes a holder out of the channel `p.idle`, or reserves a slot in `p.all`
and builds one, or parks in a `select` on the channel and its own context. It
locks the holder's mutex, calls `impl.run`, `impl.cleanup` and
`impl.checkHolder`, and sends the holder back or drops it. The reaper takes
expired holders out of the same channel. `Close` sets `closed`, joins the
reaper, takes a snapshot of `p.all`, drains the channel and calls `impl.close`
on everything, without the holders' mutexes. `impl` is a holder of one backend:
requests to a daemon or API server about a container whose processes go on by
themselves. A one-shot run makes, uses and removes its own container; inside
it, one goroutine copies output while the caller waits for the end or the
timeout. `serve` and `mcp -pool` put a process around a pool: listeners whose
connections get a goroutine each, a main goroutine that waits for a signal or
a listener's error, lets HTTP drain for twenty seconds, and closes the pool in
a deferred call, under whatever unix or MCP call still runs.

### What is hard here, and what makes each part correct

- *Pool.* Test-and-reserve under `p.mu` with seconds of unlocked work after it;
  hand-over through a channel while the sender still holds the mutex; three
  parties that may take a holder away (run, reaper, `Close`); stale counts; a
  send that must not block; calls parked at `Max`. Correct: never more than
  `Max` holders, one custodian per holder, `p.all` counts what circulates, dead
  holders are not reused, somebody closes everything that was built, `Close` and
  expiring calls come back, parked calls are served, the pool shrinks to `Min`.
- *Holder.* The workload forks, exits and renames itself while `cleanup` works
  on an old list of processes, and cleanup's script may outlive the call that
  started it; the exec's end races the timeout; the connection breaks before the
  command ends; a create is carried out behind an error; the holder dies at any
  time. Correct: cleanup reaps what it can promise and never the holder, the
  result is true, every run ends, a failed build leaves nothing it knows of.
- *Capture files (k8s).* Every run of a pod sends its output to the same
  `/tmp/.o`; an earlier run's wrapper, its children and its cleanup script may
  outlive it. Correct: a run gets its own output, whole and unmixed, and its
  files stay while it runs.
- *One-shot.* Every request can fail, requests may be carried out behind an
  error; the copier outlives the call; two calls create one policy. Correct:
  cleanup on every path, whole output as far as `Run` waits for it, true result,
  no pod before the policy, no write after the return, the timeout holds.
- *Daemon.* `Shutdown` waits for HTTP only, unix requests run with
  `context.Background()`, the deferred `pool.Close` and the exit follow; the
  start can fail half-way; a kill leaves a socket file. Correct: the pool is
  closed after HTTP is drained, no holder stays that nobody tried to remove, the
  socket goes on all ways out but two, shutdowns and abandoned calls come to an
  end.

## Modules

`HolderLease`, `PoolImpl` (abstract) <- `Pool` + `PoolProperties` <- `MCPool`,
`PoolProofs` <- `PoolLeaseProofs` <- `PoolHygieneProofs` <- `PoolImplProofs`;
`PoolImpl` <- `Holder`; `OneShot` <- `MCOneShot`,
`OneShotProofs`; `Holder` <- `MCHolder`, `HolderProofs`; `Capture` <-
`MCCapture`, `CaptureProofs`; `Daemon` <- `MCDaemon`, `DaemonProofs`.

An operator with the comment "mutant" is not part of a model. It is a plausible
bug that replaces the next operator in a test of a property: the run must then
find the property violated. The pairs are listed under "mutants".

### `Pool.tla`, `PoolProperties.tla`

One step is a maximal piece of code between two points where another goroutine
can interfere: a `p.mu` section, a channel operation, a mutex operation, a
backend call. `pc[r]` says where a run's goroutine is, `held[r]` is its local
`h`. The correspondence:

| actions | code |
|---|---|
| `Call`, `Reserve`, `Build`, `Unreserve`, `Wait`, `GiveUp` | `acquire`, 156-194 |
| `Lock`, `Exec`, `Check`, `Unlock` | `Run`, 222-255 |
| `Drop`, `Release`, `Put`, `TearDown` | `drop`, `release`, 196-220 |
| `Tick`, `StopReaper`, `Count`, `TakeIdle`, `PutBack`, `Reap`, `ReapTearDown` | `reaper`, `reapIdle`, 257-306 |
| `CloseBegin`, `JoinReaper`, `Snapshot`, `Drain`, `CloseOne`, `CloseReturn` | `Close`, 308-352 |
| `CreateHolder`, `Enqueue` | `NewPool`, `createHolder`, 87-154 |

`p.idle` is a buffered Go channel: `Send` hands over to the run parked longest
and buffers only when nobody is parked; `Receive` takes the head. Time is
`Tick`: the reaper's ticker fires and every registered holder's idle time
grows by one (a coarser clock than `lastUsed`, and at least as nondeterministic, as runs
take any number of ticks). `closed` and the closing of `reaperStop` are one
step. A second `Close` finds `closed` set and returns nil at once
(pool.go:311-314), also while the first is still at work; it changes nothing and is no
action. `cleanup` is best-effort: `Exec` promises nothing of what it leaves.
Errors of `impl.close` are ignored as in pool.go:204, 218 and 347: for the pool a
holder is gone when `close` was called. `checkHolder`'s verdict is taken as exact,
while a pod's phase may lag behind. A holder that is being torn down is no
longer in `p.all` and does not count for `Max`, in the code as in the model.
`Drain` is one step: no send can make its loop behave differently, as what it
takes out is also in the snapshot or closed by its run. A panic
(`cpc = "panicked"`) ends all goroutines.

`HolderLease` is what a caller is promised: a holder is gone, free or leased to
one run; at most `Max` exist; none is made after shutdown. `PoolProperties`
gives the refinement mapping (`LeaseOf`) and checks `Lease!Spec` as a property.

### `PoolImpl.tla`

The interface `poolImpl` (pool.go:21-34) as a protocol: which method may be
called when, and what the container or pod does meanwhile. It is the abstract
specification of both sides of the interface. The pool implements it with one
copy per holder identity (`CallOf`, `ObjOf` in `PoolProperties`): the stage of the
run that has the holder says which method is being called, a holder nobody refers
to is "none". A failed `newImpl` may leave a container or pod of which the pool never
learns (`Abandon`, "left"). A docker or k8s holder implements it for itself (`CallOf`, `ObjOf`
in `Holder`): `Building` is "none", the steps from `Run` to the end of cleanup are
"run". So what `Pool` assumes of a holder and what `Holder` assumes of its
pool are one text, and the two models need not share a state space: `Close` and
`Die` come to a holder as the fault "death", and `Judge` finds alive
only what is up.

### `OneShot.tla`

`Backend.Run` of both backends as one state machine, because they share their
promise and their outline; `backend` is chosen once, like `Opts.Backend`. Each
call has its stage `pc`, its `Result` and error `res`, its container or pod
`obj`, the command in it `cmd`, the output connection `link` and the goroutine
that copies output (`copier`: reads a chunk, then writes it). Output is
counted: `made` by the command, `got` by the caller's buffers. `shut` is
`syncWriter.closed`, `timer` and `cancelled` make up `runCtx`. The docker steps
are `Verify`, `Attach`, `Start`, `Wait`, `Drain`, `InspectOOM`; the k8s steps
`EnsurePolicy`, `WaitPodRunning`, `NetWait`, `Exec`, `Stream`; shared are
`Begin`, `Create` and the deferred `Cleanup`. Two outcomes that a `select` may
pick from are two disjuncts, also when both are ready. docker's `Drain` may go on
without its copier at any time: its two seconds also end behind a caller's slow
writer. `LinkBreaks` is the output connection that breaks; the copier then ends
with an error at which docker's `Run` does not look. `cut` is a history variable: it
says why a call's output may be short. `Asking` limits the timer and the caller's
cancellation to the stages in which something still asks for them.

### `Holder.tla`

One `poolImpl` over its life. `procs` and `parent` are the processes inside;
"init" is PID 1, where orphans go, and "runtime" the parent 0 of what the
container runtime starts, which is what the k8s script tells apart. On k8s the
exec's own process is the wrapper shell that waits for the command. A `Create`
that fails may have been carried out, and `fail`'s removal, whose error is
ignored, may fail: what then stays is `lapsed`.

Each run has a cleanup script of its own (`script[k]`), with the steps of its
text in its order: docker removes files, then kills all of the user's processes
at once, other scripts included; k8s takes a list of `/proc` (`scan[k]`), visits
one process after the other, and then removes files. `cleanup` may return before
its script ends - the attach fails after the start, the connection breaks, on
k8s the ten seconds are over - and the script goes on beside later runs. What the
script takes for a parent is the fourth field of `/proc/pid/stat` (poolk8s.go:220),
which is another one when the process's name has a space: such processes (`odd`)
it kills or spares as it happens, the wrapper and the holder not being among
them. The workload forks, exits and renames itself in between. `cleaned`,
`doomed` and `lapsed` are history variables for properties. A holder that `close`
removes under a run is the fault "death". Which files there are is left to
`Capture`. On docker the holder's process is another user's than the workload: a
non-root `Opts.User` is assumed, while the code only asks for one that is not
empty (pool.go:90).

### `Capture.tla`

The files of one pod from run to run. Each run has one command and one process
that the command may leave in the background. `name` says whose file is called
`/tmp/.o` (`/tmp/.e` shares its fate), `out[r]` which file run r's command has
open, `text` whose output a file contains: a file without a name lives on for
who has it open, as in Unix.

| actions | code (poolk8s.go) |
|---|---|
| `Run`, `Streamed`, `Lost` | `run`, 166-204: the stream ends with the wrapper, or before it |
| `Redirect`, `Replay`, `Remove` | the wrapper's script, 178-180 |
| `Cleanup`, `Reaped`, `TenSeconds` | `cleanup`, 212-222, and `checkHolder` |
| `Visit`, `Visited`, `ClearScratch` | cleanup's script, 220 |
| `CommandWrites`, `ChildWrites`, `LeaveFile`, `Fork`, `CommandEnds`, `ChildEnds` | the workload (external) |

A cleanup script that is cut off at its caller goes on in the pod (`cut`), next to
later runs and later scripts. The workload writes to the capture file only through
the descriptor it inherited; a background process that opens or removes
`/tmp/.o` by its name is not modelled.

### `Daemon.tla`

The process around a pool, its requests and their clients. The pool is what
`Pool` shows a caller: a number of free holders, and calls that have one, build
one, wait for one or remove one. `at[c]` is where a request's handler goroutine
is, `got[c]` what its client has seen, `via[c]` its transport; `main` is the main
goroutine.

| actions | code |
|---|---|
| `Submit`, `Leave` | `client.go` 23-93: `submitHTTP`, `submitUnix` and its deadline |
| `Accept`, `Parse`, `Answer` | `server.go` 45-135: `ServeHTTP`, `ServeUnix`, `handleConn`, `handleRun` |
| `Tool`, `StartMCP`, `StopMCP` | `mcp.go`: `runSandbox`, `runScript`, `execute`, `runMCP` |
| `Acquire`, `Build`, `Parked`, `Run`, `TearDown` | `Pool.Run` as a caller sees it |
| `Flags`, `NewPool`, `ListenUnix`, `Chmod`, `ListenHTTP`, `Stop`, `Shutdown`, `Unlisten`, `Exit` | `runServe`, `serve.go` 22-136 |
| `CloseBegin`, `CloseEnd` | the deferred `pool.Close` |
| `ListenerFails`, `Signal`, `Kill`, `Restart` | the environment |

`End` is the end of the process: what the process has not removed (`left`)
stays, and so does the socket file. Removals may fail or come too late - the thirty
seconds of Close are one context for all of them - and their errors are ignored:
`Escape` lets such holders stay, and `escaped` counts them. The pool's reaper is
not in this module, so neither are removals it fails at. `os.Remove` of an old
socket file may fail, and then `Listen` does (`ListenUnix`). `Restart` starts a new one with the same
flags on the file that is there.

## Runs

| run | instance | states | what it shows |
|---|---|---|---|
| `pool_safety` | 3 runs, 3 identities, Min 1, Max 2, all faults, all contexts may end | 0.6 M | type, `LiveWithinMax`, `Custody`, `SlotsAccounted`, `SendNeverBlocks`, `DeadNotReused`, `NoLeak`, `NobodyWaitsInVain` (`WaitersHaveSource`, `LockersProceed`), `OnlyCloseInterrupts`; the pool implements `PoolImpl` |
| `pool_liveness` | 2 runs, 3 identities, failing builds | 0.3 M | the pool implements `HolderLease`; `CloseReturns`, `ExpiringReturns`, `ShrinksToMin` |
| `pool_starvation` | 3 runs, 2 identities, Max 2, no faults, no reaper | 34 k | `WaitersServed` |
| `oneshot` | 2 calls, both backends, 1 chunk from one of them, failing requests, broken output, pod death, cancellation | 1.2 M | `CleanedUp`, `OutputWhole`, `ResultTrue`, `Isolated`, `QuietAfterReturn`, `TimeoutReturns` |
| `holder` | the holder and 3 process identities, 2 runs, both backends, lost creates, failing requests and removals, broken connections, death | 0.4 M | `NothingBuiltInVain`, `HolderSpared`, `OrphansReaped`, `ResultTrue`, `RunReturns`; a holder implements `PoolImpl` |
| `capture` | 2 runs in one pod, lost runs, failing, slow and raced cleanups | 4.2 M | `OutputOwn`, `ScratchKept` |
| `daemon` | 2 requests, one with a timeout of its own, Min = Max = 1, every choice of ports, all faults, restarts | 0.4 M | `ClosesAfterServing`, `NothingLeft`, `SocketRemoved`, `ShutdownEnds`, `AbandonedEnds`; no deadlock |
| `waiter_stranded`, `close_panics`, `reaper_below_min`, `oneshot_lost_create`, `capture_survivors` | the smallest that show it | | a statement of the docs that the code does not keep: see Findings |

Why the bounds are enough. *Pool*: with `Max = 2` and three runs one run parks
while two hold, so hand-over, contention for the last slot and a context that
ends during a hand-over all occur; `Min = 1 < Max` lets the reaper both
keep and drop; identities are recycled
(`Fresh`), and three let a holder that is being torn down outlive its
registration while two new ones are live; the theorems are about any number. `IdleTicks = 1`
distinguishes young from expired; the rotation of young and old holders it shows
only briefly. *One-shot*: calls share only the policy, for
which two suffice; one chunk is what the copier can be late with, and as output is
not shared one call with output and one without show both (`Writers`); the
theorems are about any.
*Holder*: three identities besides the holder make a wrapper, its command and
one orphan on k8s, and a chain of three generations on docker; two runs show
what the first leaves to the second, its cleanup script included. *Capture*: what a run meets was left by
one earlier run; that a chain of runs adds nothing is proved (`OutputOwn`, for any
number of runs). *Daemon*: with one holder the second request parks, which is
what a shutdown and an abandoned call are about; the safety properties are proved
for any number of requests and any `Min` and `Max`. `Runs`, `Holders`,
`Chunks`, `Writers`, `Last`, `Procs`, `Calls` and `IdleTicks` are the only bounds; each
is a constant.

`CHECK_DEADLOCK FALSE` is set everywhere but in `daemon`, as the systems may stop: calls
end, a panic ends the process, and a holder that is gone stays so. That nobody
waits for ever where somebody should go on is the subject of the liveness
properties. Symmetry is used only in runs without liveness properties.

### Fairness

The common assumption is a daemon, or API server, that answers. Most requests
have deadlines, but not all: docker's `ExecInspect` has none (pooldocker.go:143),
nor have the copy of cleanup's output (pooldocker.go:174) and the last inspect
(dockerapi.go:153), and docker's `newImpl` has only the caller's context. A daemon that
hangs there hangs the run, and what waits for it.

- `Pool`: goroutines that can run do; backend calls return, a run's because its
  context ends; the ticker fires; contexts in `Expiring` end. Strong
  fairness only for `StopReaper`: Go's `select` picks at random among ready
  cases, so a reaper that keeps finding `reaperStop` closed takes it
  eventually. Nobody need call `Run` or `Close`; only a `NewPool` that failed calls
  `Close` itself.
- `OneShot`: requests are answered, goroutines run. Commands need not end, pods need
  not start and timers fire when they will: `TimeoutReturns` starts from a
  fired timer.
- `Holder`: requests are answered, `runCtx` (always made by
  `context.WithTimeout`) ends, the script's steps are done. The workload need do
  nothing, connections need not break.
- `Daemon`: the main goroutine and the handlers run, backend requests are
  answered, the unix client has its own (client.go:68). Clients need not send
  anything, and an HTTP body may never end: `Parse` is fair only over unix, where
  the connection has a deadline, or once the client has gone. Holders need not
  die, nobody need signal.

## Findings

1. *Parked calls are stranded* (`waiter_stranded`, pool.go:188). `drop` and a
   failed scale-up free a slot without waking who is parked; a parked call
   without deadline waits for ever on a pool that has room. The reaper's drop
   does the same with `Min = 0`: it takes the last idle holder out of the
   channel, a call finds the channel empty and the pool full and parks, the
   holder is dropped.
2. *Close panics* (`close_panics`, pool.go:347): its snapshot may hold a slot whose
   `impl` is still nil, because `acquire` registers before it builds.
3. *Below Min* (`reaper_below_min`, pool.go:304): the count is stale when the
   reaper drops.
4. *A lost create stays* (`oneshot_lost_create`, dockerapi.go:66, k8sapi.go:139): no
   cleanup is set up when the request fails at the caller, which includes ctrl-C
   during the request.
5. *Survivors mix the next run's output* (`capture_survivors`, poolk8s.go:220):
   after a timeout the wrapper shell and its command are no orphans and are not
   reaped. They share `/tmp/.o` with the next run of the pod: the old command's
   output goes into the new run's answer, or the old wrapper removes the name
   before the new one replays it, and the run returns no error.

Other places where code and docs differ, met while modelling; the models follow
the code:

- "All methods are called with the owning holder's mutex held" (pool.go:21-22)
  holds of `run`, `cleanup`, `checkHolder` and of `close` at the end of a run, not
  of `close` in `Close` (pool.go:347), nor in the reaper's `drop`, which has taken
  the holder out of the channel first. `PoolImpl` lets `close` come at any time.
- A cancelled caller is told it timed out: `TimedOut` is set for every end of the
  context (dockerapi.go:135, pooldocker.go:138, k8sapi.go:154, poolk8s.go:189), while
  `TimedOut` "reports that the run was killed because Opts.Timeout expired"
  (sandbox.go:140).
- "Close it after the Server stops serving" (server.go:38) is kept for HTTP only:
  unix and MCP calls may still run when the deferred `Close` begins.
- An MCP call that ends with an error has neither output nor `timed_out`
  (mcp.go:203), although "both return stdout, stderr, exit code, and the
  timed-out / OOM-killed flags" (README.MD:249).
- Refusing a non-loopback address leaves the socket file that was made before
  (serve.go:98), and a second `serve` on the same path takes away a live one's
  socket (serve.go:73-75).
- A listener's error ends the daemon with status 0 (serve.go:118, 135).
- `submitUnix` looks at its context only while it dials and for its deadline: a
  ctrl-C later is not seen (client.go:68).
- "stdout and stderr receive the command's output" (sandbox.go:155): docker's `Run`
  returns nil although its copier has failed, or is late by two seconds
  (dockerapi.go:146-148), and the output is short. `OutputWhole` names these two cases
  (`cut`) and says that there is no other.
- "that's exactly the orphans" (poolk8s.go:218): the script takes awk's `$4` of
  `/proc/pid/stat` for the parent, which is another field for a process whose name
  has a space. Such an orphan survives, or a process with a parent is killed.
  `OrphansReaped` excepts them (`odd`).
- "the between-run hygiene guarantee (each holder reaps and clears scratch between its
  own runs)" (pool.go:66-68): `cleanup` is "Best-effort" (pool.go:27, README.MD:170), swallows
  its errors (pooldocker.go:167-173, poolk8s.go:221), leaves dotfiles, and on docker
  removes files before it kills who may write new ones. `checkHolder` looks at none of
  this, so a run may be handed a holder that was not cleaned; no property
  says otherwise.
- A docker cleanup whose attach fails after its script has started, or whose
  connection breaks (pooldocker.go:170-175), leaves a script that removes the next
  run's files and kills its workload, which that run reports as exit code 137.
- "close removes the holder" (pool.go:31), "tears down every holder" (pool.go:308): errors
  of `close` are ignored in `release` and `drop`, and `serve` gives all of `Close` one
  context of thirty seconds and ignores its error (serve.go:58-62). Holders may stay;
  the pool does not remember them. A create of `newImpl` that is carried out behind an
  error, or a failing removal in its `fail`, leaves one too (pooldocker.go:59-68,
  poolk8s.go:102-111).
- "remove a stale socket from a previous run" (serve.go:72): the error of `os.Remove` is
  ignored, and `Listen` then fails on the file (serve.go:74-81).
- The ten seconds of docker's `cleanup` do not bound its copy of the attached
  stream (pooldocker.go:174).
- `NewPool` with `Min = 0` accepts an unknown backend; the first `Run` reports it
  (pool.go:105).

`OnlyCloseInterrupts` and `LockersProceed` state what is left of "all methods are
called with the owning holder's mutex held" (pool.go:21): `Close` does interrupt
runs, nothing else does, and who has a mutex that somebody waits for is done with
the holder. `ResultTrue` in `Holder` excepts docker runs whose output
connection broke: `ExecInspect` reports exit code 0 for a command that is still
running, and `run` does not look at `Running`.

## Proofs

Checked with tlapm 1.4.5 (Z3, Zenon, LS4), for all values of the constants that
satisfy the assumption of each module (`PoolAssumption`, `LeaseAssumption`,
`OneShotAssumption`, `HolderAssumption`, `CaptureAssumption`,
`DaemonAssumption`).

- `PoolProofs`: `SafeInvariant`, and from it `TypeCorrect`, `CustodyHolds`,
  `LiveStaysWithinMax`. Neither `Custody` nor `LiveWithinMax` is inductive. A run
  that receives a holder must not have had one (`HeldOK`: the stage tells
  whether a goroutine has a holder); who is handed a holder must be parked,
  and once (`WaitersOK`), or a sender would overwrite a holder another run
  works with; and `NewPool` adds holders without asking `len(p.all)`, so that
  the bound needs its loop counter: while it has not returned nobody else builds and
  `Live` is at most the holders made so far (`LiveOK`, `WarmingOK`). The steps of the
  proof go by groups of actions; lemmas on sequences (`Tail`, `Append`,
  `RemoveAt`) and on `Send` and `Receive` carry the channel's part.
- `PoolLeaseProofs`: `SlotsStayAccounted`, `SendsNeverBlock`,
  `PoolImplementsLease`. Once `Close` has emptied `p.all`, `len(p.all) <= Max` says
  nothing of what still circulates. `SlotInv` says who has each registered slot,
  and that what circulates after the snapshot was in the snapshot; as a
  holder has one custodian (`Custody`), the channel, the senders and the
  owners together have at most `Max`, and a send finds room. For the refinement
  every action is shown to be one step of `HolderLease` or none: only `Build` and
  `CreateHolder` make, receiving leases, releasing frees, and leaving `p.all`
  together with the last custodian removes. `WaitersAlwaysHaveSource`: while
  somebody is parked the buffer is empty (`ChannelStep`: a send buffers only when
  nobody is parked, and parking finds the buffer empty), and with all slots
  registered `SlotsAccounted` names somebody who has a holder or builds one
  (`SourceFound`). It is as much of "runs beyond Max block until a holder frees" as
  holds without fairness, and it holds beside finding 1: whoever is stranded is
  stranded next to a free slot.
- `PoolHygieneProofs`: `DeadNeverReused`, `NothingLeaks`, `OnlyCloseDoes`, from
  `HygieneInv`: a run past `checkHolder` with an error is on its way to `drop`; what was
  built is registered, in the snapshot, or in the hands of who removed it. That a
  holder was cleaned is no theorem, as `cleanup` does not promise it.
- `PoolImplProofs`: `MutexesHeld` and `LockersAlwaysProceed` from `LockInv`: the
  stages in which a run has the mutex of its holder (`MutexOK`) are those in which
  it has custody, and "unlock"; so whoever has custody and no mutex waits for a run in
  "unlock". `PoolImplementsPoolImpl` from `ProtocolInv`. What `HygieneInv` lacks is
  that a holder without an impl is with the run that builds it and nobody else
  (`NilOK`; otherwise the reaper's or a run's `close` would come to a holder that was
  never provided), and that `Close`'s snapshot has all holders in use while the channel
  is drained (`DrainOK`; otherwise draining would forget a holder that is up).
  Every action then moves one holder as `PoolImpl` says, or none (`Follows`): a
  send and a receive change who refers to a holder and not that somebody does
  (`SendLeaves`, `ReceiveLeaves`), and who lets go of a holder closes it or leaves
  it to somebody (`LeftBehind`).
- `OneShotProofs`: `SafeInvariant`, `TypeCorrect`, `NothingLeft` (`CleanedUp` without
  the faults "lost" and "remove"), `IsolatedAlways`, `ResultAlwaysTrue`,
  `OutputAlwaysWhole` and `AlwaysQuiet` (both for all faults). A step
  of one call leaves the others alone but for the policy (`FrameStep`), so the
  invariant is about single calls: the object exists exactly from `Create` on
  and the command only inside it (`LifeOK`); the policy precedes the pod
  (`IsolatedOK`); the copier is never ahead, and unless the
  connection broke it stops only at the end of the output (`CopyOK`), which carries what the
  stages "drain", "oom" and "stream" have seen over to the result (`ResultOK`);
  on k8s every copier sits behind a closed writer after `Stream` (`QuietOK`).

- `HolderProofs`: all of `Holder`'s safety properties, from `HolderInv`: the
  holder's own process is the runtime's child, alive while the container is, and
  has no odd name (`Tree`); a container or pod is there exactly from its creation
  on, and a failed build leaves one only if an answer was lost or a removal failed
  (`Brought`); the exec's exit code is known exactly when its process is gone, and
  docker's `Inspect` is reached without a timeout only after that or after a
  broken connection (`Called`); scripts are of runs so far, with the steps of
  their backend, and only while the holder is up (`Script`); what the script of the present
  run has achieved before each of its steps (`Swept`): on k8s what must still be
  killed is on its list, an orphan, or odd, and an identity that has to go is not
  used again. An earlier script only takes processes away, which is why the
  invariant holds beside it. `HolderImplementsPoolImpl` needs `Brought`: a verdict
  "alive" is then one about a container that is up.
- `CaptureProofs`: `TypeCorrect`, `OutputStaysOwn`, `ScratchStaysKept`. `FileInv` says that, while all
  runs so far ended by themselves, only the present run has a wrapper; the name
  is either free or that run's file; and everybody else has another file open.
  `ScratchKept` is an action property: `ScriptInv` says that a cleanup's script runs
  inside its cleanup unless it was cut off, and only scripts remove files of a run.
- `DaemonProofs`: all of `Daemon`'s safety properties, from `DaemonInv`: what is open,
  listening and reported where the main goroutine is (`Places`, `Reports`), that no
  request is in the pool before there is one and none over HTTP after a
  shutdown in time (`Request`), and that idle holders and those in use never exceed
  `Max` (`Within`). `NothingEverLeft` compares what stays with the removals that were
  tried in vain; that a removal was tried on every way out is its content.

`NobodyWaitsInVain` is a conjunction of two properties; both parts are theorems, and so is
the whole (`NobodyEverWaitsInVain`).

Left to TLC: liveness under fairness, which needs `ENABLED` and which tlapm cannot
expand: `CloseReturns`, `ExpiringReturns`, `ShrinksToMin`, `WaitersServed`,
`TimeoutReturns`, `RunReturns`, `ShutdownEnds`, `AbandonedEnds`.
Every other property of a passing run is a theorem.

## What is not modelled

- Limits, mounts, environment, seccomp, image pull, stdin: data of requests,
  without effect on control flow that a property here looks at.
- Durations: a deadline of a request is "the request fails", and timers fire at any
  time, docker's two seconds for a late copier and the ten seconds of k8s' cleanup
  included.
- Which files there are, in `Holder`: the scripts' removals are steps without
  effect there. `Capture` has the files, without the processes' tree.
- Reuse of process identifiers within one cleanup.
- A library caller or a one-shot `run` being killed: nothing is persisted and no code
  recovers, so everything live at that moment stays behind; this is a hazard
  without a property. For the daemon it is the fault "kill".
- The composition of `Daemon` with `Pool` and of `Pool` with `Holder` as one state
  space: each sees the other by its promises (`free` and the calls' stages;
  `PoolImpl`).
- Seccomp's profile, the probe and the benchmark: tables, output and measurements
  without state. `run`'s rendering and option parsing: formatting.
- The MCP SDK, net/http and client-go: external, as far as `src/` uses them.

## Plan

What could be added: safety halves of the liveness properties of `OneShot` and
`Daemon`, in the manner of `WaitersHaveSource`; a refinement from `Pool`, seen by its callers, to
the pool in `Daemon`; the processes' tree inside `Capture`.
