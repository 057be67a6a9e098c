# TLA+ models of the btmcpool Stratum server

This directory holds TLA+ models of the Go Stratum server under `src/stratum`
(the `btmc` coin). The models cover how its goroutines interact. They are
checked with TLC.

## The system

Each part below is a goroutine or a structure that goroutines share. The
source is the reference; `spec.md` is consulted only where it says what the
code should do.

| Part | Source | Concurrency |
|---|---|---|
| listener | `listener.go` `listen` | One goroutine. It takes a slot of the buffered `inflight` channel (refusing when full), `build`s the session (its `getId`), `registerSession`s it, and starts the dispatch goroutine. |
| sessionIdManager | `sessionid.go` | A mutex-protected FIFO free list, then `nextId % maxSessions`. `getId` is called by the listener; `recycle` is called by every session's `close`. |
| ServerState | `server.go` | `sessionMap` is a lock-free hashmap keyed by session id. `blockTemplate` sits under an RWMutex. `broadcast` signals every session in the map. |
| node syncer | `nodesyncer.go` | A ticker goroutine (every 100 ms): `Pull`, then `updateBlockTemplate`, which installs when the previous-block hash differs, then `broadcast`. |
| TcpSession dispatch | `tcpsession.go` `dispatch` | One goroutine per connection. It reads lines and runs the btmc handlers. Its deferred `close` closes the connection, cancels the scheduler, sets the state to Closed, and recycles the id. The wrapper then runs `removeSession` and releases the slot. |
| TcpSession scheduler | `tcpsession.go` `scheduleJobs` | One goroutine per connection. It waits on cancel, the ticker (disabled when `sched_interval` is 0, the default) or the capacity-1 `jobSignal`. If the session is Authorized, it does GetJob, then Notify, then AddJob. |
| btmc handlers | `btmc/handler.go` | `handleLogin` does a state check, `NewWorker`, `JudgeMiner`, `SetState(Authorized)`, then `spJobReply` (GetJob, Reply, AddJob, Notify). `handleSubmit` does a state check, a worker check and `JudgeMiner`, then checks the share and counts it accepted or as an error. |
| job history | `tcpsession.go` `AddJob`/`FindJob`, `datastruct/ring.go` | An 8-slot `Ring`: `Add` takes a position with `atomic.AddInt32` on an int32 counter and then stores into slot `p % n`; `Do` scans the slots. The login reply and the scheduler both add. `ClearJobs` is empty. |
| share pipeline | `btmc/handler.go` `handleSubmit`, `btmc/verifier.go`, `btmc/blocktemplate.go`, `btmc/nodesyncer.go` `Submit` | After JudgeMiner: job id parse, FindJob, nonce format, a stale check on height only, `Verify`, then the Accepted/Block/Rejected counters. A Block share is sent to the node by a `go Submit` goroutine. |
| session nonce prefix | `btmc/session.go` | `(serverId << 60) \| (sessionId << (60 - ceil(log2 max_conn)))`, computed by `Build` when the listener builds a session; `CreateJob` puts it into every job. |
| connCtrl | `connctl.go` | `minerBanList` is a lock-free hashmap of ban end times. `JudgeMiner` reads the entry and then deletes it (expired) or adds a ban (≥100 submissions with ≥50 % errors). The `scanning` goroutine (hourly) deletes entries that ended more than 30 minutes ago. |

## Modules

### `StratumServer.tla`: listener, ids, registry, pump, sessions

- **Constants.**
  - `Conns` is a set of connections (model values).
  - `MaxConn` is the number of `inflight` slots.
  - `MaxSessions` is the id space.
  - `Templates` is the set of block templates `Pull` may return.
  - `TickerEnabled` is true when `sched_interval` > 0.
  - `MaxInstalls` bounds the number of template installs.
- **State.**
  - Each connection has a `phase`, which is its position in the listener and dispatch code:
    - `idle`: not yet accepted
    - `built`: between build and registerSession
    - `reading`: the dispatch loop
    - `loginJob` / `loginSend`: inside `spJobReply`
    - `removing`: close ran, removeSession not yet
    - `gone`
  - Each connection also has its Go fields `state` (`sstate`) and `id` (`sid`), its scheduler's position (`sched`) and the template it read (`schedTmpl`), the pending `jobSignal` (`signal`), whether its schedule context is cancelled (`canceled`), the template the login reply read (`loginTmpl`), and the template of the last job written to the miner (`sent`).
  - Shared state is `smap` (sessionMap), `freeIds`/`nextId` (sessionIdManager), `inflight`, and `tmpl` (blockTemplate).
  - `pump` is where the syncer loop stands.
- **Actions.** Each action is one step of one goroutine, named after the code it models.
  - Listener: `RefuseConn`, `AcceptConn`, `RegisterSession`.
  - Dispatch and handlers: `Disconnect`, `LoginWrongState`, `LoginBanned`, `LoginAuthorize`, `LoginGetJob`, `LoginSend`, `SubmitUnauthorized`, `SubmitRefused`, `SubmitHandled`, each ending in `CloseSession` (the deferred `close`) when the handler returns an error.
  - The dispatch wrapper: `RemoveSession`, ending in `WrapperReturn` (the slot released, and the errgroup cancelling the session's context, parent of `scheduleCtx`, because the wrapper returns an error). `StartScheduler` in `AcceptConn` is `newTcpSession` starting `scheduleJobs` in that group.
  - Scheduler: `SchedExit`, `SchedWakeOnSignal`, `SchedWakeOnTick`, `SchedSend`.
  - Pump: `PullTemplate`, `Broadcast`.
- **Abstractions.**
  - A job is represented by the template it was created from.
  - `broadcast` is one atomic step.
  - Bytes on the wire, JSON and difficulty are left out.

### `ConnCtrl.tla`: the miner ban list

- **Constants.**
  - `Sessions` and `Miners` are model values; `MinerOf` says which miner each session logs in as.
  - `BanPeriod`, `SweepGrace` and `BanThreshold` are the 20 min, 30 min and 100 submissions of the code, scaled down.
  - `MaxTime` bounds the clock; `MaxCount` bounds submissions per session.
- **State.**
  - `banList` is minerBanList.
  - Per session: `spc` (connected or not), `judge` (a JudgeMiner call between its read and its decision), `seen` (what the read returned), and `acCnt`/`errCnt` (the SessionCtl counters).
  - The sweep's held entry: `sweep`, `sweepSeen`.
  - Two history variables for the properties: `banEnd` is the latest ban end per miner; `readEnd` is that value as of each call's read.
  - `minerBanCnt` is written but never read, so it is left out.
- **Actions.**
  - `StartLogin` and `StartSubmit` are the handler up to `QueryBanMiner`.
  - `JudgeBanned`, `JudgeExpired`, `JudgeAbusive` and `JudgeClean` are the four outcomes of `JudgeMiner`.
  - `SweepRead` and `SweepCheck` are the scanning loop.
  - `Tick` advances the clock.
  - `Disconnect` is the client leaving.

### `IdAllocator.tla`: what sessionIdManager promises

- An abstract allocator: `owner` maps each id to its client or `NoClient`.
- `Acquire` gives a free id to a client that holds none; `Release` frees an id its holder gives back.
- `SessionLifecycle` takes its ids from it. That `sessionIdManager` keeps this contract (no id held twice) is `IdOwnership`, checked on `StratumServer`.

### `JobWindow.tla` and `JobHistory.tla`: the job history ring

- `JobWindow` is the promise of `AddJob`/`FindJob`: `window` holds the last `N` jobs added, oldest first, and `issued` the jobs ever added (job ids are not reused).
- `JobHistory` is the `Ring` itself.
  - `p` is the int32 counter, starting at -1. `Wrap` is two's-complement arithmetic of `Width` bits; `GoRem` is Go's `%`, which keeps the sign.
  - `Claim` is `atomic.AddInt32`; `Store` is `r.s[p%r.n].Store(e)`, and sets `panicked` when the index is negative (a Go runtime panic).
  - `Lookup` is `Do` scanning for a job.
  - `Adders` are the goroutines that add; between `Claim` and `Store` each holds its index in `idx`.
- The refinement mapping `WindowOf` reads the last `min(StoredCount, N)` slots in position order; `WindowRefined == Abstract!Spec` states that the ring implements `JobWindow`.

### `ShareSubmit.tla`: the share pipeline

- One authorized session, after the state, worker and `JudgeMiner` checks (those are in `StratumServer` and `ConnCtrl`).
- **Constants.** `Templates` with their `Height`; `Nonces`; the history capacity `N`; `MaxJobs`, `MaxSubmits` and `MaxInstalls` bound the run.
- **State.** `tmpl` (blockTemplate), `hist`/`issued` (the history, through `INSTANCE JobWindow`), `jobTmpl` (the template each job was created from), `acCnt`/`errCnt` (SessionCtl), `verdict` (Verify's result per job and nonce: Verify is a function of the job header and nonce, so a resubmission gets the same verdict). The history variables `credits`, `found` and `submitted` serve the properties.
- **Actions.**
  - `InstallTemplate` is broadcastBt: `UpdateBlockTemplate` installs when `Replaces` (Compare: the previous-block hash differs).
  - `IssueJob` is GetJob (`CreateJob`), Notify and AddJob.
  - `SubmitBadJobId`, `SubmitJobNotFound`, `SubmitBadNonce`, `SubmitStale` end in `ChargeError` (MinerErrCnt++ and an error reply).
  - `SubmitVerified` is Verify followed by the Accepted, Block (with the `go Submit`) or Rejected branch.
  - `NodeSubmit` is the Submit goroutine posting the block once: `SubmitBlockOk` (BtmcClient.SubmitBlock) decides whether the node receives it, and a failure is only logged.
  - `NodeDown` and `NodeUp` are the environment: the node becomes unreachable (at most `MaxOutages` times) and comes back. While it is down `GetWorkOk` (GetWork over `callImpl`) fails, so the pump's Pull installs nothing.
- The Verify-error branch (handler.go 165-178) is not a step: `btmcVerifier.Verify` always returns nil.

### `NoncePrefix.tla`: the session nonce prefix

- Pure operators. `CeilLog2` (RECURSIVE), `SessionIdOffset`, `ShiftLeft` (a uint64 shift, bits past `Width` lost, via `% 2^Width`) and `NonceOf` (with `|` from Bitwise) translate `NewBtmcSessionDataBuilder` and `Build`. `NonceEnd`, `BlockLo` and `BlockHi` give a session's and a server's ranges.
- `Width` = 16 and `ServerIdOffset` = 12 stand for 64 and 60: the server id keeps the same 4 bits.

### `SessionLifecycle.tla`: admission, nonce prefix and idle timeout

- **Constants.** `Clients`; `Ids`; `ServerIds` and `SessionCounts`, the `stratum.id` and `stratum.max_conn` values a deployment may set; `Timeout`, `session.timeout` in clock ticks; `NoDeadline`.
- **State.** `serverId` and `maxSessions`, chosen in `Init` as `main` reads them; `owner` (ids, through `INSTANCE IdAllocator`); each client's `nonce`, `phase` (`idle`, `open`, `closed`, `refused`), `deadline` (ticks left until the `SetDeadline` deadline, or `NoDeadline`), `authorized`, and `quiet` (the client will send nothing more but keeps the connection up, so keep-alives succeed).
- **Actions.**
  - `RefuseConn` and `AcceptConn`: the listener refuses at `max_conn` open connections, or takes a slot, calls `SetKeepAlive`, gets an id and builds the nonce. No deadline is set.
  - `Receive`: a decoded line; `setDeadline` re-arms the deadline, and a login may authorize.
  - `NotifyJob`: a job written to an authorized session; `setDeadline` again.
  - `Disconnect` (EOF, flood, read/decode/handler error) and `ReadTimeout` (ReadLine fails at the deadline) end in `CloseSession`: `close` recycles the id, and the wrapper frees the slot.
  - `GoQuiet`: the client stops sending. `Tick`: one clock tick for every armed deadline.

### MC modules

- `MC_StratumServer.tla` defines the constant values: two slots, two ids, and three installs. It also defines a symmetry over connections and templates, used only by the safety runs.
- `MC_ConnCtrl.tla` maps every session to the one miner.
- `MC_ShareSubmit.tla` declares three templates: `t1` at height 1, and `t2` and `t3` both at height 2 (two competing tips).

## Runs

| Run | cfg | Expect | What it shows |
|---|---|---|---|
| server_ids | `StratumServer.cfg` | pass | `IdOwnership` holds: no two live sessions share an id, no live id waits in the free list, and no id is in the free list twice. This holds with close and removeSession in either order, and with the listener reissuing ids in between. |
| server_registry | `StratumServer_RegistryConsistent.cfg` | violation | `RegistryConsistent` fails. `close` recycles the id, the listener gives it to a new connection, which registers, and the old `removeSession` then deletes the new session's map entry. From then on `broadcast` never reaches it. |
| server_login_wakeup | `StratumServer_NoLostWakeup.cfg` | violation | `NoLostWakeup` fails. The login reply reads template T1, a broadcast installs T2, the scheduler writes T2, and the login reply writes T1 last. |
| server_live | `StratumServerLive.cfg` | pass | With the ticker on, `JobFreshness` holds: every authorized session eventually gets a job of the current template. `SchedulerStops` holds: every closed session's scheduler returns, cancelled by `close()` or by the errgroup when the wrapper returns. |
| connctl | `ConnCtrl.cfg` | pass | `StaleEntriesSwept` holds: long-expired entries are eventually swept. |
| ring_window | `JobHistory.cfg` | pass | `WindowRefined` holds: with one adder (the scheduler, the only adder once a session is logged in), FindJob finds exactly the last 8 jobs, over 60 adds. |
| share_submit | `ShareSubmit.cfg` | pass | `ShareAccounting` holds: every handled share moves exactly one of the two counters, so JudgeMiner's ratio sees it. The run includes a node outage. |
| share_duplicate | `ShareSubmit_NoDuplicateCredit.cfg` | violation | `NoDuplicateCredit` fails: the same job and nonce submitted twice are both credited (and a block is submitted twice). spec.md lists duplicates as a validation error, but handleSubmit has no duplicate check. |
| share_lost_block | `ShareSubmit_BlocksAccepted.cfg` | violation | `BlocksAccepted` fails: a block is found, the node goes down, the Submit goroutine's one RPC fails and is logged, the node comes back, and the block is never sent again. spec.md says submit failures are retried on the next tick. |
| session_lifecycle | `SessionLifecycle.cfg` | pass | `NoncePartitioned` holds for `stratum.id` 0 and 15 and `max_conn` 1, 2, 3 and 5: open sessions' nonce ranges are disjoint and lie in their server's block, with ids recycled and reissued. `ArmedIdleReleased` holds: a connection that sent a request and then fell silent without logging in is closed by its deadline. |
| session_idle | `SessionLifecycle_Idle.cfg` | violation | `QuietConnectionsReleased` fails: a client connects and never sends, no deadline was ever set, and the connection keeps its slot and id for good. With `max_conn` such clients the listener refuses everyone. |
| connctl_ban | `ConnCtrl_BanRespected.cfg` | violation | `BanRespected` fails. A JudgeMiner call holding an expired entry deletes the fresh ban another session just added. The miner's next login is let in during its ban. The sweep has the same read-then-delete window. |

Every property of a passing run has a mutant in `PROJECT.json`. Each mutant is a plausible bug in the mapped code, and TLC finds the property violated when it is swapped in:

| Mutant | Bug it models |
|---|---|
| `GetIdNextNoWrap` | getId without the modulo |
| `RemoveSessionAlwaysClose` | removeSession closes without checking the state |
| `SchedExitBreak` | the scheduler's `case <-ctx.Done(): break` leaves the select, not the loop |
| `SchedAfterWakeReturn` | the scheduler returns instead of continuing |
| `SweepCheckReversed` | the sweep's comparison is turned round |
| `StoreNoOverwrite` | Ring.Add skips a slot that already holds a job |
| `AddNoEvict` | a job history that never forgets a job |
| `SubmitStaleUncounted` | the stale branch forgets MinerErrCnt++ |
| `FloorLog2` | the logarithm rounded down instead of up |
| `ReadTimeoutRetry` | dispatch takes a timeout as transient and reads again |

## Bounds

- **Server, three connections over two slots and two ids.**
  - The third connection is refused until a slot frees.
  - An id is recycled and reissued while its first owner is still in `removing`, which is the window of the registry race.
  - The id run (`server_ids`) uses one template installed once: templates never touch ids, and the run reaches about 27 K distinct states.
  - The template runs use two templates installed up to three times, which gives a replacement while a login or a scheduler holds a read.
  - The liveness run uses two connections and two installs, which is enough for a replacement during a login and for a close during a wake-up.
- **ConnCtrl, two sessions of one miner.**
  - A ban of 2 units, a grace of 3, a threshold of 2 submissions, and a clock up to 7.
  - The clock reaches a point where an entry is past its grace, so the sweep must act.
  - Two judges and the sweep can each hold a stale read across a ban.

- **Ring.** An 8-slot ring over 60 adds with an 8-bit counter: the ring fills, wraps its slots seven times and evicts on every add. Overflow of the counter is not reached (see the hazard list): any wrap panics, which the refinement cannot express. With a 4-bit counter TLC reaches index -7 after 10 adds.
- **Share pipeline.** A history of 2 and three jobs, so a job is evicted; three submissions, so a share is resubmitted and a job outlives a template change; three installs over three templates, two of the same height; one node outage, so a Pull and a Submit can both fail.
- **Session lifecycle.** Two clients over up to five ids, `max_conn` in {1, 2, 3, 5} (1, a power of two and two non-powers, where ceil and floor of log2 differ), and server ids 0 and 15 at both ends of the 4-bit range. Ids are recycled and reissued, so a new nonce is built from a reused id. `Timeout` = 2 ticks lets a deadline be re-armed before it passes. `stratum.id` of 16 or more loses its high bits in the shift (a hazard note).

## Fairness

- Weak fairness covers only goroutine-internal steps that the Go runtime eventually schedules once enabled:
  - registration after build
  - the rest of `spJobReply`
  - removeSession
  - the scheduler's cancel, signal and ticker cases and its send
  - the pump's broadcast
  - the end of a started `JudgeMiner` call
  - the sweep, which sleeps an hour between passes, a finite delay
- In `ShareSubmit`, each spawned Submit goroutine runs (weak fairness of `NodeSubmit` per share), and a node outage ends (weak fairness of `NodeUp`), as spec.md treats upstream unavailability as transient. The node failing is not fair: it may never happen.
- In `SessionLifecycle`, time passes (weak fairness of `Tick`), and the runtime's poller fails a read whose deadline has passed (weak fairness of `ReadTimeout`). `CHECK_DEADLOCK FALSE`: once every connection is closed or silent with no deadline, the listener waits in `AcceptTCP`.
- Clients and `Pull` results are not fair, and in the other modules neither is the clock: a miner may stop sending and a node may stall.

## Not modelled

- **Shutdown.** `listener.close` and `clearSessions` are never called by the program.
- **Unreachable paths.** The `handlerMap` dispatch path is dead because btmc always sets a decoder.
- **Data.** JSON, the wire format, tensority hashing, difficulty adjustment, the node RPC client, the host provider and logging are I/O and data transformations.
- **IP ban and rate-limit fields of `connCtrl`.** They are never used.
- **Two adders in the ring refinement.** The login reply and the scheduler may add at once; then a job can be visible before an older one, which the ring's comment accepts. The refinement is checked with one adder.
- **Same-height tip replacement.** `Compare` replaces a template whose previous-block hash differs at the same height, and the stale check compares heights only, so a share of the replaced tip is credited. spec.md defines staleness by height, so this is listed as a hazard and not checked.
- **Host pool.** `getHost` builds the epsilon-greedy pool lazily with a double-checked lock; its only caller is the pump's GetWork, and the pool is a library, so the model takes the node as one host that is up or down.
- **Random job ids.** `AllocJobId` is `rand.Uint64`; jobs are numbered instead (a collision has probability 2^-64).
- **Difficulty and workers.** `diffAdjust` returns a constant; `NewWorker` only splits a name.

## Plan for later sittings

1. An authorized session kept open by `Notify` resetting its deadline (intended per the `setDeadline` comment), and the unsynchronized `Encoder` shared by login reply and scheduler.
2. Composing `StratumServer` with `ConnCtrl`, so that stale jobs from the login race count toward a ban.
3. Composing `ShareSubmit` with `JobHistory` and two adders, to bound how long a newer job can stay invisible.
