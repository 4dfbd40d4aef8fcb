# tunnelsmith in TLA+

TLA+ modules, TLC configurations and TLAPS proofs for tunnelsmith, a forward
proxy (HTTP, CONNECT, SOCKS5) that sends every request through one of a pool of
upstream proxies and learns, per destination host, which upstreams work.  Every
definition is read off the Go source under `src/`; paths below are relative to
it.  `PROJECT.json` holds the line-by-line map, the runs, the mutants that each
property is tested against, the findings and the hazards.

Contents: [inventory](#1-inventory) - [modules](#2-modules-and-the-code) -
[runs](#3-runs) - [bounds](#4-bounds) - [fairness](#5-fairness) -
[proofs](#6-proofs) - [divergences found](#7-where-code-and-documentation-differ) -
[what is not modelled](#8-not-modelled) - [plan](#9-plan)

Checking: `tlc -workers 2 -config MCScoreboard_ops.cfg MCScoreboard.tla` for a
run, `tlapm Scoreboard_proofs.tla` for the proofs.

## 1. Inventory

### Scoreboard - `internal/scoreboard/{scoreboard,admin,cascade,probe}.go`
State: under `mu`, the pool with its order and retry cap, the rule set, the
tuning, `entries[host][upstream]` (score, cooldown expiry, last-seen time,
counters), `cascade[host]` and `forces[host]`; under a second mutex
`debounceMu`, the last accepted stamp of each (host, upstream, kind).
Operations: `Pick`, `RecordSuccess`, `RecordFailure`, `TripCascade`, the decay
tick, `Force`/`ClearForce`/`ForcedFor`/`ForceSnapshot`, `Forget`, `Reset`,
`Reload`, `ReplaceRules`, `ReplacePool`.  Called by every request goroutine, the
control listener, the operator UI, the reload goroutine and two tickers.
Hard: operations that drop a lock half way (`RecordFailure` takes a clock
reading, then `debounceMu`, then `mu`; `Forget`, `Reset` and `Prune` empty two
tables under two locks; an expired pin is seen under a read lock and evicted
under the write lock) while everything else runs.
Correct when: no event is charged twice in one debounce window; cooldowns do
not add up, however many failures pile up; a pin always names
an upstream of the live pool and a live one is never lost to an eviction; what
the score says is covered by what was counted.

### DialFor - `scoreboard.go:960-1065`, `internal/upstream/*.go`
State, per request: tried ids, attempt count, the limit computed at the start.
One loop of Pick, Dial, record for each CONNECT and SOCKS5 request; many run
at once for one host and share the scoreboard.  Hard: the caller's context may
end anywhere; another request may trip the cascade; the pool, rules and gate
may be swapped while a dial is in flight.
Correct when: it returns exactly one verdict, never dials an upstream twice,
stays within the cap, charges an upstream only for its own failures, stops soon
after the host goes into cascade and trips the cascade only when it should.

### Persistence and pruning - `internal/scoreboard/persist.go`
State: the snapshot file.  `SaveSnapshot` (temporary file, fsync, rename,
directory fsync), `LoadSnapshot`, `Prune`, the flush loop with a last flush at
shutdown.  Hard: a crash between any two of those; pruning state that still
decides; a tick's flush under way when the signal comes.  Correct when: a restart
finds the last saved snapshot or a newer one (unless it refuses the file), Prune drops nothing a Pick would have
looked at, and the last flush covers what was recorded when the context ended.

### HTTP forward request - `internal/listener/http.go:476-830`, `internal/failure`
State, per request: the same as `DialFor`'s, and the detector, rules and buffer
size read for the attempt.  One loop of Pick, `transportFor`, RoundTrip, status and
body detection, record.  Hard: a response, not only an error, may be a failure; the
client may hang up during the body; SIGHUP swaps retry cap, detector, rules and
gate under it one at a time.  Correct when: it keeps `DialFor`'s contract, a passed
response is final, and a client that hangs up frees its request.

### HTTP forward transports - `internal/listener/http.go`
State: one cached `http.Transport` per upstream id, pinned to the Upstream object
it was built for.  Requests build them on demand; every pool swap drops them.
Hard: a request that holds an object of the old pool across a swap.
Correct when: no cached transport dials through an object of an earlier pool.

### CONNECT tunnels, SOCKS5, shutdown - `internal/listener/{http,socks}.go`, `cmd/tunnelsmith/main.go:380-430`
State: the hijacked tunnels, each with two copiers; tracked SOCKS connections and
their wait group; which servers listen and serve; one 30 s context.  `run` asks
HTTP, SOCKS5, metrics, UI and control servers to stop, one after the other, and
waits for every goroutine.  Hard: a tunnel or connection that is registered after
`Shutdown` looked; a server that uses up the deadline of the others; waits
without a bound.  Correct when: nothing but what was caught in those windows
outlives its server's Shutdown, and the process exits.

### Pool composer, refresh and heal - `cmd/tunnelsmith/main.go:535-859`, `internal/upstream/{webshare,mullvad}`
State: per `[[upstream_pool]]` block the last installed expansion
(`composerBlock.current`), the vendor's cache file, the static upstreams.
Operations: refresh ticks, heals, `ListProxies` with cache fallback,
`poolComposer.Update`.  Hard: refresh and heal of one block fetch concurrently
and answers overtake each other; swaps are refused; fetches and cache writes
fail.  Correct when: the composer's cache is the running pool (it answers "no
change" from that cache alone), and the pool reaches what the vendors serve.

### Webshare client - `internal/upstream/webshare`
State: the API token in memory and its file, the cache file, the request in hand of
the refresh loop and of a heal, which share one client.  Operations: `Snapshot`
(paged list or cached list, status probe, transform), `Heal` (a refresh request
first), `reloadIfRotated` after a 401 with one retry.  Hard: both goroutines get a 401
for the old token at once; list, cache and account show credentials of different
age; any request may be refused or time out.  Correct when: a request the token
file could save does not fail, and the refresh loop comes to hand out the
account's credentials.

### Auth-heal driver - `cmd/tunnelsmith/healdriver.go`
State, per block: event times inside the burst window, `inFlight`, `lastHeal`, the
composer and the parent context, both wired late.  Hard: events arrive before the
wiring, during a heal and in its cooldown; id prefixes may overlap.  Correct when:
one heal at a time and none within a cooldown of the last, never on evidence older
than it, every full burst starts one unless the code means to hold it back, no
heal escapes shutdown, and no block's 407s heal another.

### SIGHUP reload - `cmd/tunnelsmith/main.go:895-1093`
State: the file, one pending signal, the document being installed, the token set,
`runningHasPool`.  Installs tuning, detector and gate, then the pool, then rules,
inspection settings and tokens.  Hard: signals that coalesce, edits between and
during reloads, a pool refresh between a check and its use, a token file that is
gone.  Correct when: the last signalled file runs as a whole, rules name only
upstreams of the pool, and authentication is never dropped by accident.

### The rest
Rules (`internal/upstream/rules.go`), pool order (`pool.go`), failure
classification and Retry-After (`internal/failure`), upstream dialers, the Mullvad
client, control listener, operator UI, configuration, metrics, the provider
registry and the client SDK: `PROJECT.json` lists each with its status.

### How they meet
```
 clients -> HTTP/CONNECT/SOCKS5 listeners -- DialFor / Pick, Record* --> Scoreboard
 SDK     -> control listener ------------- Record* (HasUpstream) -----> Scoreboard
 operator-> UI --------------------------- Force/Forget/Reset --------> Scoreboard
 SIGHUP  -> reload ---- Reload, ReplaceRules, ReplacePool ------------> Scoreboard
 vendor  -> refresh / heal -> poolComposer.Update -- ReplacePool -----> Scoreboard
                                                  \- CloseTransportsExcept -> HTTP listener
 407 failures -- failure hook --> heal driver -- runHeal --> poolComposer.Update
 tickers -> decay, Prune, SaveSnapshot -------------------------------> Scoreboard
```

## 2. Modules and the code

| Module | What it is | Code |
|---|---|---|
| `Scoreboard` | the scoreboard, one action per critical section | `internal/scoreboard` |
| `Scoreboard_proofs` | theorems about it (section 6) | |
| `DialContract` | what a listener relies on: one verdict, distinct upstreams, a cap | |
| `DialFor` | the retry loop of CONNECT and SOCKS5; EXTENDS `Scoreboard`, implements `DialContract` | `scoreboard.go:960-1065` |
| `DialFor_proofs` | theorems about it, with the step half of the refinement | |
| `Forward` | the retry loop of plain HTTP; EXTENDS `DialFor`, implements `DialContract` | `internal/listener/http.go`, `internal/failure` |
| `Forward_proofs` | theorems about it, with its refinement | |
| `HotReload` | SIGHUP; EXTENDS `DialFor` | `main.go:895-1093`, `config.go` |
| `HotReload_proofs` | theorems about it | |
| `Composer` | refresh, heal, cache file, `Update`, static swap | `main.go`, `webshare`, `mullvad` |
| `Transports` | cached transports under the swaps of `Composer` (EXTENDS it) | `internal/listener/http.go` |
| `Composer_proofs` | theorems about `Composer` and `Transports` | |
| `Webshare` | one block's requests to the vendor, tokens and credentials | `internal/upstream/webshare` |
| `Webshare_proofs` | theorems about it | |
| `HealDriver` | bursts of 407s, cooldown, wiring | `healdriver.go` |
| `HealDriver_proofs` | theorems about it | |
| `Persistence` | the flush loop on a disk that may lose power | `persist.go` |
| `Shutdown` | SIGTERM to exit, crash and restart; EXTENDS `Persistence` | `main.go`, `http.go`, `socks.go` |
| `Shutdown_proofs` | theorems about the disk, the last flush and what outlives a shutdown | |
| `MC*` | small instances for TLC | |

**Scoreboard.**  Time is a clock of ticks starting at 1; 0 is Go's zero
`time.Time`.  A missing map entry and a zero entry are the same to every reader,
so both are `Absent`.  Scores are whole numbers.  What an operation carries from
one critical section to the next is state: `call` for `Record*` (with the clock
reading and the Config snapshot), `wipes` for the debounce half of `Forget` and
`Reset`, `pruning` for that of `Prune`, `evicting` for expired pins.  Reading the
clock and snapshotting the Config are one step at the start of `Record*`.  `Pick`
changes nothing except through pin eviction, so it is two operators:
`PinnedPick` and `ScoredPicks`, the set of upstreams it may return (one unless
the probe fires or everything is cooled and ties).  In `SBSpec` the callers report any outcome
about any pool member, which is what the control listener lets a client do.

**DialFor.**  A request is at "attempt", "pin", "rank", "dial", "record" or
"trip".  The cascade check and the pool snapshot before the loop are one step, and
so are `ctx.Err`, Pick's clock reading and its cascade check: nothing that happens
between them changes the outcome other than a later or earlier step would.  A dial
ends in success (even when the caller has left), in a cut (`ctx.Err` set: nothing
is recorded), or in a failure that is scored or, with the `connection_refused`
gate off, not.  The refinement maps `tried`, the attempt counter and the control
point to the contract's `dialled`, `attempts` and `verdict`.

**Composer.**  An expansion is a set of (id, address) entries; an answer with one
id twice, or an empty merge, is what `Update` refuses.  A block's refresh loop and
its heal goroutine are two workers: resting, fetching, saving (the cache file),
fetched (waiting for the composer's mutex).  `swapper` holds that mutex between
`ReplacePool` and the dropping of transports.

**Transports.**  `build` numbers the pools, so that two Upstream objects of one id
are told apart.  A request holds an object between `Pick` and `transportFor`.
`straddled` is history: some request held an older object when the last swap ended.

**Forward.**  The skeleton of the loop is `DialFor`'s; a request is moreover at
"response" while its body is inspected.  An attempt ends in an error (charged if it is a
timeout or, with the gate open, a refusal), in a status or body that counts as a
failure, in a body that cannot be read, or in a response that is passed on.  `knobs`
are the listener's own settings, which SIGHUP swaps in three steps; `view` is what
the attempt read of them.

**HotReload.**  A document is what the configuration file says as far as the reload
tells it apart.  `reloading.pc` walks through `reload`: load, validate, check prefer
ids, scoring, detector and gate, pool, rules, inspection, tokens, with an early
return wherever the code has one.  Edits, signals and refreshes come at any step.

**Webshare.**  Tokens and credentials are numbers in the order they were issued.
Each of the two goroutines is at one request: asking, sent, reloading (after a 401),
failed, or between requests (listed, probed).  The vendor's list may show old
credentials for as long as it likes.  `sound` is history: the file has held the
right token since the request began.

**HealDriver.**  Ids are sequences of their `-`-separated parts.  The failure hook
(`Count`, `Dispatch`) is one section under the driver's `mu`; the heal goroutine
is none, started, calling, updating.  `seen` and `counted` are history.

**Persistence, Shutdown.**  A snapshot is the number of outcomes it covers.  `durable` is
the set of contents a power loss may leave at `persist_path`; a rename adds to it and a
directory fsync makes it one.  A start reads the file (`Loads`) or refuses it and begins empty
(`Refuses`), after which nothing counts as saved.  `main` is the position of `run`; each tunnel has two
ends and a copier per end.  `Start` is a restart after an exit, a kill or a power loss.

## 3. Runs

| Run | Shows | States |
|---|---|---|
| `scoreboard_debounce` | two callers reporting about one pair while time passes, scores decay, Prune runs and SIGHUP swaps a negative status penalty in and out, with a Retry-After twice the configured cooldown: `PenaltiesDebounced`, `BoundedLockout`, `FailuresAccountForScore` | 3.9M |
| `scoreboard_ops` | pins, evictions, Forget, Reset, Prune and all hot swaps interleaved: `PinsInPool`, `LivePinSurvivesEviction`, `PruneKeepsRouting` | 3.1M |
| `dialfor_race` | two requests for one host, callers hanging up, an operator pinning, and one request under a force rule that leaves it a single candidate: refinement of `DialContract` with termination, `OneDialPastCascade`, `OnlyRealFailuresCharged`, `CascadeBlamesUpstreams` | 0.3M |
| `forward_mixed` | a plain-HTTP request beside a CONNECT request, listener settings reloaded: `ForwardImplementsContract`, `OneCutBehindCascade`, `HangUpEndsRequest`; that only real failures are charged here too is proved (`ForwardChargesAreReal`) | 0.4M |
| `forward_hangup` | a client that hangs up during the body may cool the host for everybody (violation) | |
| `hot_reload` | edits, signals, refreshes and a request in its loop: `AttemptsDistinct`, `RulesFitPool`, `LastSignalApplies`, `AuthOffOnlyOnRequest` | 0.7M |
| `composer_blocks` | two blocks and a heal, failing, cached and overtaken answers, swaps refused for an empty merge or a colliding static id: `CacheIsRunningPool`, `PoolCatchesUp` | 0.25M |
| `transports_swap` | both kinds of swap with requests running through them: `StaleOnlyAfterStraddling` | 1.1M |
| `webshare_rotation` | token and credentials rotate under a refresh and a heal: `RotationCostsNoRequest`, `RefreshRecovers` | 0.9M |
| `heal_bursts` | 407s against wiring, a heal in flight, its cooldown and SIGTERM: `EvidenceAfterHeal`, `HealsSpaced`, `NoBurstMissed`, `HealUnderMainContext`, `OwnEventsOnly`, `HealEnds` | 0.4M |
| `shutdown_drain` | SIGTERM against tunnels, SOCKS5 connections, saves and power losses: `SavedStateSurvives`, `LastFlushCoversActivity`, `OnlyUnregisteredOutlive`, `AtMostOneSocksEscapes`, `PromptShutdownExits` | 0.6M |
| `shutdown_hang` | a handler that uses up the deadline leaves a listener open and `run` waiting for ever (violation) | |

The slowest take two to three minutes with two workers.

Each property of a passing run has a mutant: a definition changed the way a bug
would change it (a dropped re-check, an off-by-one, a stacked expiry, a cache that
advances on failure), under which TLC finds the property violated.  The defects
stand next to the definitions they replace and no specification uses them.

What the runs taught about the code, beyond "holds":

- *The ten-window margin of Prune's debounce half is needed.*  It runs with a clock
  reading taken earlier, against stamps other callers write with readings of their
  own.  `PenaltiesDebounced` holds as long as no caller stalls inside
  `RecordFailure` for longer than the margin less one window (`OnePenaltyPerWindow` of
  section 6, for every instance); with a longer stall TLC finds the double charge.
- *Prune is safe for configured cooldowns, not for Retry-After* (section 7).
- *OneDialPastCascade is the exact bound.*  A request may begin one dial after another
  request has tripped the cascade; none begins a second.
- *PoolCatchesUp needs the cache files to be current.*  A cache write may fail for
  ever, and then a fallback may for ever install an older list.  The
  property says so in its premise (`Settled`).
- *PoolCatchesUp does not depend on the vendor's answer changing again after a refused
  swap*, because the composer compares with what it installed, not with what the
  expander last saw.
- *RulesFitPool needs both its exceptions*: the step between the pool swap and the
  rule swap, in which old rules meet the new pool, and refreshes, which may drop a
  preferred upstream at any time.  With a force rule the request then finds no candidate.
- *LastSignalApplies survives coalescing*: a signal that is dropped because one waits
  is not lost, since the waiting one has not yet read the file.
- *RotationCostsNoRequest rests on the comparison with the token the request carried.*
  Without it, the second of two concurrent reloads finds file and memory equal
  and gives up although a retry would succeed (the mutant).
- *RefreshRecovers needs no more than the status probe or the list*: a heal that falls back to
  a cached list installs old credentials again, and the next refresh takes them
  away.
- *A hang-up can cool a host with one attempt at most* (`OneCutBehindCascade`): handleForward
  looks at the client's context before every attempt but the one it leaves the loop after.
- *A lockout is bounded by what was asked for, not by what was configured*: a Retry-After has
  no cap but that of `time.Duration` (`retry_after.go:15`), so `BoundedLockout` speaks of one
  configured cooldown or one Retry-After, and what it excludes is that they add up.
- *A wrong driver may see an id, but none is healed for it* (`OwnEventsOnly` with its
  `Strays`, section 7): what keeps the two apart is that a block without a
  Healer has SOCKS5 members and a 407 is an HTTP upstream's, not the check at startup.
- *At most one SOCKS5 connection may escape* a Shutdown that reports success: the
  one the accept loop holds between Accept and `wg.Add`.
- *A dial or a handler holds shutdown only up to the deadline*, but the deadline is
  one for all servers (section 7).

## 4. Bounds

*Scoreboard, DialFor, Forward, HotReload.*  (The safety properties of the runs are
proved for every size, section 6; what follows is for the runs.)  Two upstreams are the least with a choice;
one host is enough because no operation relates two hosts except `Reset`, `DecayTick`
and `Prune`, which treat hosts alike, and the last two are covered per pair.  Two callers
are the least for every race of `RecordFailure` with itself.  `MaxTime` (1 to 7 ticks)
lets windows of 1-2 ticks, cooldowns of 1-2, pins of 1-2 and `prune_after` of 2 begin
and end; `scoreboard_debounce` sees two full windows and a half (`MaxTime` 6).  It has two
tunings, one of them with a status penalty of -1, and its two callers are symmetric: all
its properties are invariants, none names a caller.  Where time is not the
question (`forward_mixed`, `hot_reload`) the clock stands still.  `MaxStall` bounds
how long a caller stays inside one `Record*` call: one window in the debounce run,
with `StaleWindows` 2 standing for the code's 10, so that Prune's stale stamps
happen inside `MaxTime`.  `MaxFailures` bounds the failures begun about one entry
(9 in the debounce run, more than its clock admits; 1 where failures are not the
question); DialFor does not use it.  One `Forget` of a host and one `Reset` are in
flight at a time.  `Documents` are four: one plain, one that adds an upstream and a rule
that forces it, one whose rule outlives its upstream, one with a pool block.  `Knobs` are two.

`dialfor_race` is two instances under one constraint (`AloneIfForced`): two requests
without rules and the refusal gate on, one request under a force rule with the gate off.
The constraint cuts only hot reloads from one to the other and the second request
beside a force rule, steps no fairness is assumed of.

*Composer, Transports, Webshare.*  `MaxChanges` (2) lets each vendor change and change
back, which is what an overtaken answer needs; `MaxBuilds` (3) is two swaps.  Two tokens,
two credentials and two writes of the token file (the right one and a broken one, in
either order) give one rotation of each; a list has up to two pages.

*HealDriver.*  Threshold 2, window 2, cooldown 4 and a call of up to 2 ticks in 8
ticks: a heal, its cooldown and another burst fit.  `MaxSeen` (4) is twice the
threshold.  Seven deployments, three that start and four that startup refuses; ids have one
to four parts.  Among those that start is a Mullvad block `ws` beside a Webshare block
`ws-se`, with the relay `ws-se-got-1`, that is, `<<"ws", "se", "got", "1">>`.

*Shutdown.*  One HTTP and two SOCKS5 connections, two of the three in the first life
of the process and one in the second (`MaxConns` 2, `MaxStarts` 1), two outcomes:
enough for a save that covers the first and not the second.

`CHECK_DEADLOCK FALSE` stands where the process ends, or where the clock, the builds or
the requests of the instance run out; `composer_blocks` and `webshare_rotation` check deadlock.

## 5. Fairness

- `DialFor`: weak fairness of each request's own steps (`Proceeds`).  A goroutine that
  can run does run.  A dial ends by itself where the code gives it a deadline: the
  dialer's and the CONNECT handshake's `timeout_ms` (`upstream.go:124-140`), which are
  the upstreams in `Deadlined`.  The SOCKS5 handshake ends only when the caller's
  context does, so the runs that check termination are of direct and HTTP
  upstreams.  Nothing is assumed of callers, operators or reloads.
- `Forward`: the same outside RoundTrip and body; these go on by themselves only once the
  client has gone, since the transport has no response deadline.
- `HotReload`: the reload goroutine and the requests run; nobody need edit or signal.
- `HealDriver`: a heal that has been started goes on; the Heal call has a deadline.
  Nothing is assumed of events, wiring or the clock.
- `Webshare`: the refresh goroutine runs, with its timer and the HTTP client's timeout.
  Strong fairness of three answers (a 401, the last page, the status): a vendor
  asked again and again answers again and again.  Nothing is assumed of heals, of the
  operator or of the vendor's rotations; `RefreshRecovers` has their end as its premise.
- `Shutdown`: goroutines that can run do, the deadline passes, a flush is done or fails.
  Strong fairness of the last flush: while the context is done `select` is offered it
  every time, and picks at random.  Nothing is assumed of clients, upstreams,
  handlers or signals.

- `Composer`: weak fairness of a swap's end and of the cache write (straight-line
  code), and of refresh ticks (timers; `RunRefresh` goes on after a failure).
  Strong fairness of `Update`, which waits for the composer's mutex: Go's mutexes
  hand over to a waiter that has starved for a millisecond.  Strong fairness of a vendor's answer: a vendor
  asked again and again answers again and again.  Nothing is assumed of heals.
  Without the last the pool may rightly never catch up.
- `Scoreboard` and `Transports` state safety only.

## 6. Proofs

Every safety property of the passing runs, invariant or action property, is a theorem,
for every value of the constants the assumptions admit: any set of hosts, upstreams,
kinds, pools, rules, tunings, documents, blocks, connections, and clocks of any length.

| Module | Theorem | Statement |
|---|---|---|
| `Scoreboard_proofs` | `SBTypeCorrect` | `SBSpec => []SBTypeOK` |
| | `EvictionSparesLivePins` | `SBSpec => LivePinSurvivesEviction` (action property) |
| | `PinsAlwaysInPool` | `SBSpec => []PinsInPool` |
| | `LockoutBounded` | `SBSpec => []BoundedLockout` |
| | `FailuresCounted` | `SBSpec => []FailuresAccountForScore` |
| | `PruneIsInvisible` | `SBSpec => PruneKeepsRouting` (action property), under a condition |
| | `OnePenaltyPerWindow` | `SBSpec => []PenaltiesDebounced`, under `OneWindow` |
| `DialFor_proofs` | `DialForTypeCorrect` | `Spec => []TypeOK` |
| | `ChargesAreReal` | `Spec => []OnlyRealFailuresCharged` |
| | `CascadeStopsDials` | `Spec => []OneDialPastCascade` |
| | `CascadesAreEarned` | `Spec => []CascadeBlamesUpstreams` |
| | `DialForKeepsContract` | `Spec` implements the safety part of `DialContract` |
| | `RequestsKeepScoreboard` | `Spec => [](PinsInPool /\ BoundedLockout /\ FailuresAccountForScore) /\ LivePinSurvivesEviction` |
| | `RequestsDebounced` | `Spec => []PenaltiesDebounced`, under `OneWindow` |
| | `RequestsDoNotSeePrune` | `Spec => PruneKeepsRouting`, under the condition of `PruneIsInvisible` |
| `Forward_proofs` | `ForwardTypeCorrect` | `ForwardSpec => []ForwardTypeOK` |
| | `ForwardChargesAreReal` | `ForwardSpec => []OnlyRealFailuresCharged` |
| | `ForwardCascadeStopsDials` | `ForwardSpec => []OneDialPastCascade` |
| | `ForwardKeepsContract` | `ForwardSpec => ForwardImplementsContract` |
| | `ForwardKeepsScoreboard` | as `RequestsKeepScoreboard`, of `ForwardSpec` |
| | `OneCutAtMost` | `ForwardSpec => []OneCutBehindCascade` |
| | `ForwardDebounced` | `ForwardSpec => []PenaltiesDebounced`, under `OneWindow` |
| `HotReload_proofs` | `ReloadTypeCorrect` | `ReloadSpec => []ReloadTypeOK` |
| | `AttemptsStayDistinct` | `ReloadSpec => []AttemptsDistinct` |
| | `ReloadChargesAreReal` | `ReloadSpec => []OnlyRealFailuresCharged` |
| | `RulesKeepFitting` | `ReloadSpec => []RulesFitPool` |
| | `AuthStaysOn` | `ReloadSpec => AuthOffOnlyOnRequest` (action property) |
| | `ReloadKeepsScoreboard` | as `RequestsKeepScoreboard`, of `ReloadSpec` |
| `Composer_proofs` | `ComposerTypeCorrect` | `Spec => []TypeOK` |
| | `CacheTellsPool` | `Spec => []CacheIsRunningPool` |
| | `TransportsFollowSwaps` | `TransportsSpec => []StaleOnlyAfterStraddling` |
| | `CacheTellsPoolUnderRequests` | `TransportsSpec => []CacheIsRunningPool` |
| `Webshare_proofs` | `WebshareTypeCorrect` | `Spec => []TypeOK` |
| | `RotationsAreAbsorbed` | `Spec => []RotationCostsNoRequest` |
| `HealDriver_proofs` | `HealTypeCorrect` | `HealSpec => []HealTypeOK` |
| | `HealsUnderMain` | `HealSpec => []HealUnderMainContext` |
| | `HealsAreSpaced` | `HealSpec => HealsSpaced` (action property) |
| | `HealsOnFreshEvidence` | `HealSpec => []EvidenceAfterHeal` |
| | `BurstsAreServed` | `HealSpec => NoBurstMissed` (action property) |
| | `EventsAreOwn` | `HealSpec => []OwnEventsOnly` |
| `Shutdown_proofs` | `SavedStateIsSafe` | `Spec => []SavedStateSurvives` |
| | `LastFlushIsLast` | `Spec => []LastFlushCoversActivity` |
| | `ShutdownTypeCorrect` | `Spec => []ShutdownTypeOK` |
| | `OnlyCaughtTunnelsOutlive` | `Spec => []OnlyUnregisteredOutlive` |
| | `OneSocksEscapes` | `Spec => []AtMostOneSocksEscapes` |

**Assumptions** are those on the constants, named in the modules and evaluated by every
run whose module extends them.  `Scoreboard`: tunings are what validation admits
(nothing negative but the penalty of a status row; the ceilings name the largest `score_cap`,
the largest penalty and the lowest one among the tunings, and are not limits of the code),
Retry-Afters are naturals without a bound, pools are sequences of upstreams, rule sets are
total, "in no call" is not a call.  `DialFor`: finitely many requests, the retry caps have
a ceiling, "no upstream" and "no host" are none.  `Forward`: settings are of the types
the configuration gives them, with a retry cap of at least 1.  `HotReload`: a document that
validates and has no pool blocks describes a pool.  `Composer`: the static list has
distinct ids, "no list" and "nobody" are none.  `Webshare`: there is a first token and a
first set of credentials; a list has pages.  `Persistence`, `Shutdown`: a torn file is no
snapshot, restarts are counted.  `HealDriver`: prefixes are sequences of strings, every
driver belongs to a block of its deployment, the window is no longer than the cooldown.

Two properties need a hypothesis besides, in whichever specification they are stated,
because they are false without it; their runs are instances of it.
- `PruneIsInvisible`: wherever `prune_after` is on, the longest cooldown (Retry-After
  included) plus the longest stall inside `RecordFailure` is at most `prune_after` plus a
  tick.  The defaults leave hours of room; validation does not look (section 7, point 9).
- `OnePenaltyPerWindow` (`OneWindow`): all tunings have the same positive debounce window
  (with a reload to a shorter one "per window" means nothing); operators do not wipe stamps
  (section 7, point 8); a stall plus one window is at most `StaleWindows` windows, ten in
  the code.

### Scoreboard
`SBTypeOK` is inductive; that no score lies below the largest cap is part of it and
rests on the lemmas about `Rewarded`, `Penalised` and `Decayed`.  That none lies above it is
not true (section 7, point 3).  Everything after it is
proved of `AnySpec`, whose steps are `AnySection`: one critical section of anybody's, by
whatever clock reading of the past the caller holds.  `SpecRunsSections` brings it back to
`SBSpec`; the modules built on the scoreboard do the same for theirs.  The other
invariants are not inductive alone.  `EvictionSparesLivePins` and `LockoutBounded`
need `ReadingsInPast`: every clock reading an operation still holds (in `call`,
`evicting`) is not in the future.  With it a cooldown computed from a stale
reading ends no later than one computed now, and an eviction that asks "expired
by my reading" only removes what is expired by the clock.  `PinsAlwaysInPool` is
inductive with the types: `Force` checks membership and `ReplacePool` evicts,
each in one critical section.  `FailuresCounted` rests on one lemma per operator
that writes an entry: a penalty takes at most `PenaltyCeiling`, gives at most `LiftCeiling`
and counts one failure, decay moves towards zero, a reward ends at the cap or below.

`PruneIsInvisible` has two halves.  `SamePicks`: two tables that agree on every score, and
on every expiry except of pairs that are warm in both, give the same picks, for every rule
set, pool and set of tried upstreams.  `CooldownsNearSightings`: an expiry is never more
than a cooldown and a stall after the last-seen time.  The stall is needed: a late penalty
moves `lastSeen` back to its own reading and leaves the later expiry.

`OnePenaltyPerWindow` needs more than the state holds, since an entry counts the failures of
all kinds in one number.  `LedgerInv` says that a ledger exists: a set of
(kind, window) pairs, at least as many as failures counted or admitted and not yet counted,
each `Spent`, that is, out of reach of every further call.  A window is out of reach because
the key's stamp is in it or later, or, once Prune has dropped the stamp, because every
reading still in flight is a window later (`ReadingsRecent`).  A call that passes
`Debounced` therefore has a window of its own to enter; `WindowOf` and `WindowsBefore` do
the division.  At the end the ledger fits into kinds times windows begun.

### DialFor and Forward
`LoopInv` ties a request to its `Record*` call: tried ids are as many as attempts
and inside the limit, the call is about the upstream in hand, and an upstream in hand is
known to have broken exactly while that is being charged.  It is stated for both loops, so
`Forward_proofs` reuses it.  `ChargesAreReal` then compares two counts through
cardinalities: failures counted plus charges in flight (`InFlight`), and dials that
failed.  `LateInv` adds for `OneDialPastCascade` that a request inside `Pick` whose
host is in cascade has begun no dial since.  `CascadesAreEarned` adds that every tried
upstream broke; this is what the second loop does not keep (section 7, point 1), and the
one safety property of `DialFor` that has no theorem under `ForwardSpec`.  `OneCutAtMost`
is what holds there: `CutInv` says that a request past the check at the top of the loop has
no attempt behind it that its client ended, so that only the last can be one.
For the contract, `Progresses` says what a step may change of the three mapped values, one
lemma shows it of each step, and one that it is a step of `DialContract`.

`RequestsRunSections` and `ForwardRunsSections` show that every step, of a request or of an
operator, is an `AnySection` of the scoreboard or leaves it alone.  It takes two facts about
requests: the upstream in hand and the host are real whenever something is recorded or
tripped (`LoopInv`), and the reading of the clock a pick goes by, with which it may send an
expired pin to its eviction, is not of the future (`PicksInPast`).  The scoreboard's
theorems then hold with its real callers in place of the arbitrary ones of `SBSpec`.

### HotReload
`ReloadInv`: past validation the reload works on one valid document, and detector and
inspection settings differ only between their two steps.  `RulesInv` carries the result of
`CheckPreferIDs` along the reload: as long as no refresh has touched the pool since, what
the next rules prefer is in the pool about to be installed, then in the installed one.
`ReloadRunsSections` shows each piece a reload installs to be one section of the scoreboard,
because the document it comes from has passed validation.

### Composer and Transports
`CacheIsRunningPool` is inductive once workers in front of `Update` are known to have a
list.  For the transports, `NothingStale` adds the requests to the transports: between
swaps, if none straddled the last one, nobody holds an object of an earlier pool, so
nobody can put one back.  `TransportsRunComposer` shows that every step of
`TransportsSpec` is one of `Composer` or leaves it alone, so the composer's theorem
carries over.

### Webshare
`Trusted` follows one request while the file has held the right token: it was sent with
the token in memory, or a reload (its own or the other goroutine's) has since put the right
one there, so that its 401 is followed by a retry, and the retry carries the right token.
`CallMoves` shows that a step of one goroutine leaves the other's request so.

### HealDriver
`HealInv` says that the composer is wired after the context and that the cooldown
starts where the last heal ended.  Then a heal is dispatched with the composer, so
under main's context, and a whole cooldown after the last.  `KeptEvents` adds
what `bump` keeps: only timestamps of the window; a window no longer than the cooldown
therefore reaches back no further than the last heal's end.  `EventsAreOwn` needs no
run-time state.  `CommonMember` shows that an id under two prefixes makes one the beginning
of the other, whatever parts follow, and `MemberUnderPrefix` that of two blocks with a
driver startup then refuses one (`ChallengersReachOwn`).  Static ids are compared in full,
so what is left to reach a foreign driver is a block without one, which sends no 407.
`BurstsAreServed` rests on `BufferInv`: the buffer is the end of what the driver saw since
its last dispatch, in order of time, and what is missing in front has left the window,
unless the buffer is full.  A burst among the events seen is then one in the buffer.

### Shutdown
`SavedStateIsSafe` and `LastFlushIsLast` rest on `SaveInv`: nothing a power loss may
leave is older than the last save that succeeded, a save in progress is no older than it
either, and it is synced before it gets its name; only the flush that began after the
context ended may end the loop.  `SaveCases` reduces everything connections, servers and
`run` do to an outcome, the end of the context, or a restart.  `ConnInv` is about the
connections: an end of a tunnel belongs to the handler until it is registered
(`EndsOwned`); once Shutdown has looked no connection arrives, and every tunnel was seen or
caught (`TunnelsKnown`); the accept loop holds one connection at a time, and when the wait
for the counted ones has succeeded it is all there is (`AcceptsOne`).

### What the proofs taught about the models
- The cases of `ForwardContract`'s verdict overlapped for a request that was rejected
  before its loop.  TLC took the first that fits; the refinement could not be proved
  until they excluded each other.
- `SUBSET 1..n \cup x` was read as two different sets by the tools; such types are now
  parenthesised.
- `NoCall`, `NoUpstream`, `NoList` and the like were different from every call, upstream and
  list only because TLC's model values are.  They are assumptions now.
- `PruneKeepsRouting` cannot be had from cooldowns alone; the stall belongs to the condition.

### Model-checked only
Liveness and `ENABLED`, which the prover does not handle: `PoolCatchesUp`, `RefreshRecovers`,
`HangUpEndsRequest`, `LastSignalApplies`, `HealEnds`, `PromptShutdownExits`, and the
termination half of `ImplementsContract`.  The two violations are counterexamples
and stay with TLC.  Induction over data and RECURSIVE operators are out of the prover's
reach too; no module uses either.

## 7. Where code and documentation differ

Shown by a run:

1. **A hang-up that cools the host** (`forward_hangup`).  `scoreboard.go:967`: "Cascade is
   for 'every upstream tried, all failed', not 'the caller bailed'".  When the body of a
   response cannot be read, `handleForward` (`http.go:706-730`) rotates without asking
   whether the client's own context ended the read, as it does after RoundTrip
   (`http.go:602-607`).  On the last attempt it trips the cascade.  It is never more than
   that one attempt, and never while the client waits (`OneCutAtMost`).
2. **One deadline for all servers** (`shutdown_hang`).  `socks.go:190`: "Shutdown closes the
   listener (so Serve returns)".  All servers share one 30 s context; once it is spent, the
   `select` at the start of the next Shutdown may return before anything is closed, and
   `run` waits for that Serve for ever.

Seen while modelling; the properties say exactly how far it goes:

3. **A score above its cap**.  `docs/configuration.md:249`: `score_cap` is
   the "absolute cap on |score|".  Validation of `[[failure.status]]` does not look at the
   sign of a row's penalty (`config.go:712-719`), and `RecordFailure` clamps from below only
   (`scoreboard.go:880-883`): with a negative penalty each failure lifts the score.
   `FailuresAccountForScore` says by how much at most.
4. **An id that reaches a foreign driver**.  `healdriver.go:329-332`: startup is
   refused when any id "would be routed into the wrong auto-heal driver", and `349-356`: "(or
   vice-versa)".  The check compares prefixes in one direction (`384`).  A Mullvad block with
   `id_prefix` `ws` beside a Webshare block with `ws-se` starts, and `ws-se-got-...`
   (`mullvad/pool.go:96`) matches the Webshare driver.  Nothing comes of it today: only the 407
   of an HTTP upstream to CONNECT is counted (`upstream.go:157-171`; neither a report nor a
   status row can name the kind), and Mullvad's members are SOCKS5.  `OwnEventsOnly` is
   checked and proved with such deployments: `Strays`, the upstreams a foreign driver would
   take for its own, all belong to blocks without a Healer, and no 407 of another block is
   counted.  Were Mullvad's members HTTP upstreams, the second half would fail.

Seen while modelling, excluded from the properties by the condition named:

5. **Stale transport after a swap.**  `main.go:1053` and `docs/configuration.md:198` say
   dropping the cache makes new transports dial through the new objects.  A request
   between `Pick` and `transportFor` puts one pinned to the old object back, where it stays
   until the next swap.  `StaleOnlyAfterStraddling` shows that this is the only way.
6. **Cascade with upstreams untried.**  `DialFor` stops after min(`max_retries_per_request`,
   pool size) attempts (the default cap is 5) and trips the cascade whatever is left;
   `docs/integration-guide.md:135` reads as if all had been tried.
7. **A SOCKS5 attempt without a timeout.**  `README.md:281`: `timeout_ms` is the "per-attempt
   connect/read timeout".  For a SOCKS5 upstream it bounds the TCP connect only
   (`upstream.go:197`, `217-220`); the handshake runs in `golang.org/x/net`, which is
   modelled from what it takes a deadline from, the context (`Deadlined`).
8. **Reset and the debounce window.**  `Reset` empties entries under `mu` and stamps under
   `debounceMu` afterwards; a failure between the two keeps its penalty and loses its
   stamp, and the next report in the same window is charged again.  `PenaltiesDebounced` is
   checked without Reset.
9. **Prune and Retry-After.**  `persist.go:265`: Prune drops state that is "no longer
   load-bearing".  Its test looks at score and age; an entry whose cooldown comes from a
   Retry-After longer than `prune_after` goes too.  `PruneKeepsRouting` is checked with
   configured cooldowns; `PruneIsInvisible` (section 6) states the relation that would have
   to hold and that validation does not ask for.
10. **SOCKS5 Accept against Shutdown.**  A connection between Accept and `wg.Add` is missed
    by the wait (`AtMostOneSocksEscapes`); an Add that races the Wait may panic.

## 8. Not modelled

Listed with reasons in `PROJECT.json`.  In short: the provider registry (filled at init,
read-only afterwards) and the client SDK (it runs in other programs).  Parsing (TOML,
relay lists, request bodies, globs and patterns), handshakes, header rewriting, metrics,
pages and formatting are I/O, data or layout whose outcome appears as a
nondeterministic choice where a decision depends on it.  `Pool.DialFor` has no caller
outside tests.  Latencies are recorded for display and no decision reads them.  The
merge of `LoadSnapshot` into the tables happens before anything runs; the snapshot's
contents are abstracted to how much they cover.  The refresh backoff is one pure function.

Abstractions with a consequence: an entry dropped by Prune because its host map
became empty and an `Absent` entry are one; priorities of pool entries are
their position; dials do not take model time of their own (the clock may tick
during one); `Prune` reads its clock together with the lock it takes next.

## 9. Plan

The modules of section 2 are written and checked, and the safety properties of their runs
are proved.  What is left:

1. A composition of `HealDriver`, `Webshare` and `Composer` in which a rotated password leads
   from the first 407 to working credentials.
