# netquality: TLA+ models, model checks and proofs

netquality measures throughput and responsiveness under load. A client library
(`Run`) fetches a configuration document, measures idle latency, then saturates
the link in each direction while probing it; a reference server offers the
endpoints and protects itself with a per-client byte budget and a connection
cap. This directory models the parts whose correctness depends on interleaving,
cancellation, ordering or exact arithmetic. Paths below are relative to `src/`.

## 1. Inventory

| Component | Source | State | Operations | What makes it correct |
|---|---|---|---|---|
| Run orchestration | `run.go` 26-283 | result, caller's and idle contexts, `chainChecked` | discover, idle, one `loadPhase` per direction, `finish`, `observeTLS`, `warn` | the error tells what the result holds; nothing measured is dropped; an idle timeout is not a cancellation; one verdict on interception; the result is the caller's afterwards |
| Load phase | `run.go` 284-653, `load.go`, `result.go` | `phaseState`, two contexts, byte counters, flows, probe slots, samples | `stop`, `flowFailed`, `addSample`, `take`, `addFlow`, the interval loop, `runFlow`, `byteCounter.add`, `probeLoop` and `launch`, teardown | the recorded reason is true and fits the error; samples and bytes are counted once; probes have a transport; nothing outlives the phase; the phase returns |
| Engine | `internal/engine/engine.go`, `stability.go` | goodput and RPM series, ramp, lower bound, steady window | `Interval`, `updateBound`, `Summary` | the ramp is capped and orderly; the bound is that of a real window; stopping needs evidence of one regime; the summary uses the samples there are |
| Latency statistics | `internal/engine/stats.go` | none | percentiles, medians, trimmed means, RPM | they are what their definitions say, for samples in any order |
| Options and defaults | `options.go`, `stability.go` 65-101 | none | `withDefaults`, `WithDefaults`, the upload send buffer | whatever a caller gives, the engine gets parameters it can work with |
| Probes and requests | `probe.go`, `load.go` 114-181 | `probeTimes` under a mutex, the response body | `foreignProbe`, `selfProbe`, `doProbe`, `oneRequest`, httptrace hooks, `AfterFunc` | a response is closed once and cancellation always frees the request; a sample is of one whole exchange on one connection |
| Owned transports | `transport.go` 99-260 | connection map, `closed` latch | dial callbacks, `track`, `forget`, `closeAll`, `Close` | no socket is left open, late dials included; the map does not grow |
| Address set | `transport.go` 31-62 | one atomic pointer | `add`, `list` | nothing lost or doubled; every call returns |
| Request authorisation | `server/server.go` 170-325 | options | `guard`, `authorize`, the four routes | only the entitled get in, the honest are not refused, and each client is charged on a bucket of its own |
| Signed URLs | `server/sign.go` | none | `SignURL`, `verifySignature` | accepted exactly within lifetime and leeway |
| Client budget | `server/server.go` 82-168, 230-323 | bucket map, admissions | `admit`, cleanup, `settle` | concurrency and overshoot bounded; no debt or admission forgotten; `Retry-After` suffices |
| Connection cap | `server/server.go` 327-373 | semaphore channel, `done` | `Accept`, `Close`, `limitedConn.Close` | slots conserved; waiters served |
| Client command | `cmd/nq/main.go` | exit code, output | flags, `Run` under Ctrl-C, printing | the exit code tells what is on stdout; the command ends |
| Server command | `cmd/nqserver/main.go` | exit code, `done` channel | flags, `ServeTLS`, interrupt, `Shutdown`, `sign` | an interrupt ends it, and the exit code tells why it ended |
| Discovery, certificate inspection, clocks, events, link simulator | see `PROJECT.json` | none or local | pure functions and I/O | not modelled, or only where they meet the above |

How they interact. `nq` calls `Run` with a context that Ctrl-C ends. `Run` calls
`loadPhase` once per direction; `loadPhase` starts one goroutine per flow
(`runFlow`, a loop of requests), a probe scheduler and its probes, gives the
engine an observation per tick and obeys its decision. All of them stop through
`phaseState.stop` and the phase context, which the caller's context, the phase's
timer and `stop` end. Flows and probes each dial through an `ownedTransport`;
net/http runs the dial callbacks, the httptrace hooks and the TLS observer
`observeTLS` on goroutines of its own, which fill the address sets and the probe's
times and may outlive the request. `nqserver` serves through `LimitListener` until
Serve fails or an interrupt starts a shutdown; `http.Server` calls the guarded
handlers, which authorise a request, admit it against the budget and settle with
it.

What is hard: five sorts of goroutine race to name the reason a phase ended;
two contexts end one after the other; request errors caused by cancellation
look like failures; counters and samples are read while they are written; hooks
and dials complete after the exchange or the teardown; a callback and a deferred
function both close a response; admissions point into a map that is being
cleaned; the engine latches decisions over a series that may restart; expiry is
judged on two clocks; a shutdown meets transfers that do not end. `PROJECT.json`
lists each as a hazard at its line, with the properties that would catch it.

## 2. Modules

Each module's variables are the fields and program counters named in its
comments; each action is an operation or the part of one between two points at
which another goroutine can act (a lock, a channel operation, an atomic, a
`sync.Once`, a call into net/http). `PROJECT.json` maps every definition to its
lines. A definition that stands just before another and that nothing uses
(`AfterUnchecked`, `EvictableDebt`, `NoAfterFunc`, ...) is a mutant: what a plausible
bug would make of the definition after it. Each property is known to fail when
one of them stands in for its original.

| Module | Models | Built on | Checked by | Proved in |
|---|---|---|---|---|
| `PhaseContract` | what a direction promises (abstract) | | `LoadPhase_download` | |
| `LoadPhase` | one direction, all its goroutines; the engine is an oracle | implements `PhaseContract` | `LoadPhase_*` | `LoadPhaseProofs` |
| `Run` | a whole run | takes its directions from `PhaseContract` | `Client_results`, `Run_frozen` | `RunProofs` |
| `Client` | the `nq` command | extends `Run` | `Client_results` | `RunProofs` |
| `LatencyStats` | statistics as operators | | `Engine_ramp` | `EngineProofs` |
| `Settings` | options and defaults | | `Engine_*` | `EngineProofs` |
| `Engine` | the per-interval algorithm and the summary | extends `LatencyStats`, `Settings` | `Engine_*` | `EngineProofs` |
| `Exchange` | one request or probe | | `Exchange_*` | `ExchangeProofs` |
| `OwnedTransport` | connection tracking and teardown | | `Transport_teardown` | `OwnedTransportProofs` |
| `AddrSet` | the compare-and-swap list | | `Transport_teardown` | `AddrSet`, `OwnedTransportProofs` |
| `Transport` | the dial callbacks | extends `OwnedTransport`, two instances of `AddrSet` | `Transport_teardown` | `OwnedTransportProofs` |
| `SignedURL` | signing and verification | | `Guard_requests` | `ClientBudgetProofs` |
| `ClientBudget` | admission, settlement, cleanup | | `ClientBudget_admissions`, `Guard_requests` | `ClientBudgetProofs` |
| `Guard` | the request path of the server | extends `ClientBudget`, uses `SignedURL` | `Guard_requests` | `ClientBudgetProofs` |
| `ConnectionCap` | what the cap promises (abstract) | | `Server_serving` | `LimitListenerProofs` |
| `LimitListener` | the connection cap | implements `ConnectionCap` | `Server_serving` | `LimitListenerProofs` |
| `Server` | the `nqserver` command | extends `LimitListener` | `Server_serving` | `LimitListenerProofs` |

The `MC*` modules add symmetry sets, command lines, options and observations for
TLC.

**LoadPhase.** `ctx` and `pctx` are the caller's and the phase's contexts;
`Propagate` is the delay between them. `call`, `stopOnce` and `reason` are
`phaseState.stop`, in three steps: win the once and set the reason, cancel, or
wait and lose. A flow goroutine (`flow`) checks its context, connects, moves its
body and ends well, badly or aborted; `FlowReturn` is the second look at the
context. A `mover` is the goroutine that counts a body's bytes: the flow itself
in a download (so the request cannot return in the middle of a Write), the
transport's writer in an upload (so it can). `payload` and `total` are added
separately, and an upload's `Read` looks at the context one step before it adds
(`MoverCheck`). A self probe may find its flow ready before the protocol is
recorded, so it may be skipped on an HTTP/2 server too. Reaching `Limit` runs `onLimit` under `capOnce`. `probe` is indexed by
semaphore slot. `main` is `loadPhase`; `TickStop` and `TickGoesOn` are the two
decisions of an interval, and `Decide` to `Return` the teardown, step by step.
The figures of the result other than bytes, samples, intervals, reason and
error, and the warnings about them, are left to `Engine` or abstracted.

**PhaseContract and Run.** The contract says when a phase may call itself
cancelled or complete and which error it returns; `LoadPhase!PhaseSpec` is the
refinement, and the actions `PhaseEnters`, `PhaseEnds` and `PhaseReturns` of `Run`
are the contract's. `at` is where `runner.run` or the function it called is. `ictx`
is the idle context, with the cause that ended it. `shake` follows the handshakes:
dialled during a probe or phase, observed at any later time. Idle warnings are
named by their kind and interception warnings by their handshake, so two
reports are two elements.

**Client.** A command line is a record of what the code tells apart; `Start` is
everything up to the call of `Run`, whose steps are those of `Run` while `nq` is
"running". A result is printed before the error is looked at.

**LatencyStats and Settings.** Durations are whole numbers, divisions truncate as
the conversion to `time.Duration` does, and `Minute` is a common multiple of the
round trips so that rates are exact. The reference definitions (`NearestRank`,
`HasRank`, `TM`) count instead of sorting. `sortedCopy` puts each value at its
`position`, the number of values that sorting leaves no later; the order among
equal durations, which `sort.Slice` leaves open, cannot be seen in the result.
Fractions are pairs. Copying between
the public and the internal parameter type (`convert.go`) changes nothing.

**Engine.** Moving averages are kept times `Scale`, and a comparison of a standard
deviation with a tolerance is the comparison of the squares, cleared of
denominators. An interval brings bytes and sequences of samples. `goodputs` and
`lastDrop` are history for the properties. `EndPhase` is `Summary` with the
statistics and the fallback of `loadPhase` (`run.go` 497-560).

**Exchange.** `pc` is the goroutine of the request or probe; `tr`, `dial`, `hook`
and `writer` are net/http's, which calls the hooks of a dial in order but
`WroteRequest` at any time after sending. A hook is one step, since it reads the
clock inside the mutex; the two readings of the caller (`Begin`, `ReadEnd`) are
outside it. `cb` is the `AfterFunc` callback: armed, running, done or stopped. A
writer that is "stuck" in flow control does not see a cancellation, as the
comment in `oneRequest` says. An attempt to connect takes at least one tick, so
that the code's test `Connect == 0` means "not yet" (see below).

**OwnedTransport, AddrSet, Transport.** `Wrapped` connections come from
`DialContext`, `Raw` ones from a caller's TLS dialer. A Close by net/http, by
`closeAll` or by a late `track` is two steps, forget and close. `sync.Once` in
`trackedConn.Close` is not a separate state: deleting twice is deleting once. The
address list's pointer is identified with the list behind it, which is sound
because published lists are immutable and ever longer. In `Transport` a callback
adds the remote address, then the local one, then tracks the connection.

**ClientBudget.** Buckets are objects in a `heap`, because an admission's pointer
outlives the map entry. Credit is tokens times `Window`, so refilling is exact
in integers; floating point is not modelled. `moved` and `due` are history.

**Guard and SignedURL.** A request is any route, method, credential and address
with the parameters of a minted URL, on its own route or another one, whole or
with the subject dropped or the expiry moved. Authorisation and admission are
two steps, with the clock running between them. `skew` is the issuer's clock
minus the server's. A header over the limit counts as no credential, and a token
that needs one (`TooLong`) never matches. `UnixTime` adds the epoch in wrapped 64-bit arithmetic, as
`time.Unix` does. A refused request changes nothing (`Refuse` stutters).

**LimitListener and Server.** The acceptor is `http.Server`'s `Serve` loop, which
retries temporary errors and returns on others; its deferred Close of the
listener and `Shutdown`'s are the two closers. `Cap` maps the connections that
hold a slot to the abstract `live`. `ServeEnds` reads whether a shutdown has begun,
as `Serve` does. When the process has exited nothing more happens.

## 3. Runs

Each passing run also has the mutants of its properties.

| Run | Question | Instance |
|---|---|---|
| `LoadPhase_download` | is the reason true, are bytes and errors the phase's own, does the phase keep its contract | 2 flows, cap of 2 bytes, 1 probe, 1 interval |
| `LoadPhase_upload` | samples counted once, transports open, nothing outlives the phase, the phase returns, with a body read by another goroutine | 1 flow, cap of 2 bytes, 2 probe turns for 1 slot, 1 interval; the caller's context ends by cancellation |
| `Client_results` | do result, error, output and exit code agree at every exit, is what was measured kept, does the command end | every command line, 2 directions, 2 idle probes, 2 handshakes |
| `Engine_ramp` | ramp, drain, drop, bound, latch, evidence, the summary's window and its statistics | 5 intervals, windows of 2, defaulted and repaired options, 7 kinds of interval, at most 2 samples of a kind in each |
| `Exchange_request` | response closed once, cancellation frees the request, samples whole and consistent | all four kinds, 2 racing attempts, limit of 1 byte, 3 clock readings |
| `Transport_teardown` | is any socket or address lost or doubled; does every socket close | 2 wrapped and 1 raw dial, equal, different and missing addresses |
| `ClientBudget_admissions` | can the cleanup forget an admission or a debt; overshoot, long-run rate, `Retry-After` | 2 clients, 3 handlers, 2 slots, cleanup at 1, 2 ticks |
| `Guard_requests` | who gets in, who may not be refused, whom a request is charged to | 4 configurations (one with a token too long to match), 2 issuer keys (1 accepted), both edges of the leeway, lifetimes below, at and above the limit, a subject named like an address |
| `Server_serving` | refinement of `ConnectionCap`; waiters are served; an interrupt ends the command and the `Serve` loop; exit codes | every command line, 2 connections, 1 slot, 1 accept error, double Close |

Why the bounds are enough. A race for `stopOnce` or `capOnce` needs a winner and
a loser of different kinds, and one of each kind (main, flow, mover, probe) is
present; two flows make two of a kind. One interval separates "failed before the
first interval" from after, and lets a sample fall in it or in the unfinished
one. The caller's deadline and its cancellation (`Endings`) differ only in the
reason that is recorded, which the download run checks for both. Two probe turns for one slot make the scheduler skip one. Five intervals fit
a ramp of 1, 2, 4, 5 flows, or a stable window, a drop and a second window of two,
and enough samples for the 80th percentile to appear (at 5) and to be withheld
(at 4). In an exchange, three clock readings order start, hook and end
strictly; a body may be empty, at the limit or one byte beyond. In the budget,
the request cap (2 bytes) exceeds the bucket (1), so that a client goes into
debt, two ticks refill an empty bucket, so that a bucket is forgotten and created
anew, the cleanup runs at every new client, and the longest wait exceeds
`MaxRetryWait`. In the guard, two ticks per second make the truncation of an
expiry visible, and the clock crosses the end of the shortest lifetime with its
leeway. Two connections for one slot leave one waiting. Each mutant is found within
the same bounds, and the theorems below remove them for what is proved. The
bounds of the models themselves are `MaxPayload`, `MaxLaunches`, `MaxTicks`,
`MaxIntervals`, `MaxClock`, `MaxTime`, `MaxBuckets`, `MaxURLs` and `MaxErrors`. The
run of the guard is too short for an expiry to wrap the 64-bit clock, or for a
budget hint other than that of an empty bucket to expire; both are proved
(`WindowIsExact`, `RetryAfterSuffices`).
Handlers are symmetric in `ClientBudget` and `Guard`; the other runs check liveness
or are small, and use no symmetry.

Deadlock is checked wherever the end of the system is a state of its own: a
phase or an exchange that has returned (`Finished`) and a command that has exited
(`Gone`) stutter. It is off for `Engine` (a phase that is over), `Transport` (torn
down) and `Run_frozen` (a run that has returned).

### Fairness

* `LoadPhase`: every goroutine that can take a step of its own does; the phase
  timer fires (`MaxDuration` is finite and positive after defaulting); an ended
  context reaches its child; a request or probe whose context has ended returns
  (LIM-9 asks as much of a caller's code, and `Exchange_request` checks it of a
  request). Nothing makes the network answer, and no tick or launch is owed: the
  runtime's `select` chooses among ready branches at random, so the ended context
  is seen.
* `Client` and `Run`: the main goroutine runs; discovery ends (it has
  `ConfigTimeout`); the idle timer fires; a probe whose context has ended returns;
  a direction returns, which `LoadPhase_upload` checks.
* `Exchange`: goroutines run, RoundTrip fails after a cancellation before the
  headers, and the transport aborts a stream whose context has ended unless its
  writer sleeps. Nothing makes the peer answer, send or read.
* `Transport`: a dial returns, its callback runs, and the phase calls `closeIdle`.
* `Server`: the main goroutine, `Serve` and the listener's closers run, and a Close
  that has begun finishes. No client and no handler has to close anything:
  `WaitersAreServed` assumes in its statement that accepted connections close, and
  `InterruptEnds` assumes nothing of them. That the two seconds of the shutdown end
  is assumed only in the second part of `InterruptEnds`. Its first part says what
  happens while they last: the main goroutine does not wait for `Serve` and the
  process may exit before it returns, so a `Serve` loop stuck at the cap would
  otherwise be hidden by the exit.

### What the documents say and the code does not do

Three runs expect a violation: a sentence of a comment or document, stated as a
property, that the code does not keep.

* `Run_frozen` (INV-4, "No work outlives `Run`"): `observeTLS` runs on net/http's
  dial goroutine, so a handshake that completes late writes the result after it
  was returned.
* `Engine_zero` (INV-3): a phase of drain intervals only reports a throughput of
  0 although it moved bytes.
* `Exchange_late` (`clock_other.go:19`, `clock_windows.go:82`, "a must not be earlier
  than b"): a probe reads its end before it takes the mutex; an HTTP/2
  `WroteRequest` hook that runs in between sets a later `wrote`, and the request time
  of the sample is negative.

Other sentences are looser than the code, which the modules follow, and have no
run of their own:

* a drain interval is "neither measured nor used for decisions" (`stability.go:34`),
  but responsiveness is judged on it too and may end the phase;
* `Decision.Stop` is said to need both series stable, but goodput stability is
  latched and may have passed (`EvidenceSinceDrop` is what holds);
* `Summary` is said to use the samples of the interval in progress only when no
  interval completed, but uses them whenever the window is empty;
* a negative `SendBufferBytes` is said to disable drain detection
  (`options.go:124`), but is defaulted to 0 first, which an upload then replaces
  with the default (`PhaseParams`);
* a clock behind the issuer's by more than `MaxSignatureTTL` is said to be refused
  (`sign.go:29`); the limit is on skew and lifetime together
  (`HonestURLsAccepted` and `ServedWereEntitled` are what hold);
* a signature is said to be valid "never for more than 24 h from issue"
  (`docs/product-specs/server.md:112`); the code does not know when a URL was issued
  and bounds the lifetime that remains (`sign.go:93`), so one signed for a later
  expiry becomes valid when 24 h and the leeway are left (`ServedWereEntitled` is
  what holds);
* `LimitListener` is said to cap the open connections, but a slot is released just
  before its connection is closed (`CapSpec` is what holds);
* a percentile of 0 means "too few samples" in a `LatencyStats`, and `Connect == 0`
  "not yet connected" in a probe: on a clock too coarse for the path both are also
  measurements, and a second attempt's connect time may then replace the first's;
* `parseBytes` accepts "nan", which compares false with every bound.

## 4. Proofs

All theorems are for every value of the constants that satisfies the named
assumptions of the modules. They state what the code's defaulting and the
environment give, and nothing about the sizes TLC uses:

* positive caps, windows, concurrency and ticks per second; a finite set of
  handlers, connections, flows;
* the model's horizon is within the longest `time.Duration`
  (`MaxTime <= MaxRetryWait`): no server is up for 292 years, and a `Retry-After`
  beyond that is cut there;
* an interval's elapsed time is an integer, of either sign, and its samples are
  sequences of any length of `LatencySample`s, whose durations are integers of
  either sign (`SamplesAssumption`);
* `GuardAssumption`: prefixing a subject with `sub:` gives different keys for
  different subjects and never the text of an address; clocks, leeway and
  lifetimes are numbers, and the leeway fits 64 bits.

### What is proved

* **LoadPhaseProofs.** Six inductive invariants. `TypeInv` adds to `TypeOK` that
  the flows opened are a prefix of `Flows` and that what main has still to add
  fits under `MaxFlows`; without it `AddFlow` leaves its types. `ReasonInv` proves
  `ReasonJustified`: a caller waiting in `stop` asks for a true reason or comes too
  late (`CallsJustified`); when the phase context has ended, somebody recorded a
  reason, the timer fired or the caller's ended (`PhaseEndExplained`); and who is
  about to stop knows why (`CallersKnow`). What makes a reason true only grows
  (`StepsGrow`), so each is preserved by every step that does not touch it.
  `JoinInv` is the order of the teardown, from which `NothingOutlivesThePhase`
  and `ProbesUseOpenTransports` follow. `SamplesInv` says where the samples
  completed are at each point of main; the result takes the last of them only
  after the probes are joined, which `JoinInv` gives. `BytesInv` is the ledger of
  `byteCounter`: what movers have added to one counter and not yet to the other
  is exactly what the two are apart, and in a download nobody is between the two
  additions once the flows are joined. `FailuresInv` bounds the failures counted
  by the flows past their only count. `ContractInv` relates main's position to the
  result and to the flows begun; with the others it proves the refinement,
  `Spec => PhaseSpec`: entering, handing over the result, returning and the end of
  the caller's context are the contract's steps, and every other step stutters.
* **RunProofs.** `OutcomeInv` says for every place in `run` which directions are
  complete, which absent, and what `phase` and `phaseErr` are worth; `IdleInv`
  relates idle's context to its warnings; `VerdictInv` that nobody has a verdict
  before the first handshake. They give `ErrorTellsResult`, `PartialResultKept`,
  `IdleOutcomeTold` and `InterceptionReportedOnce`. `CommandIsOneRun` carries them to
  `Client`: a step of the command is a step of the run or leaves it alone. With
  it, `CommandInv` (what is on stdout at each place of `main`) gives
  `ExitTellsOutcome`.
* **EngineProofs.** `DefaultsAreRepairs`: defaulting any parameters gives usable
  ones and is idempotent, so that defaulting them in `Options` and again in `New` is
  harmless. From it, the number of flows stays in `0..maxFlows` for every option,
  and every step of the ramp is a legal one (`RampIsOrderly`). `TrackInv` relates
  what `Interval` keeps to the history: `holdIdx` lists exactly the intervals
  measured since the last drop, in order, and `raw` their goodputs. From it
  `StartSound`, and so `EvidenceSinceDrop`: `StableSeries` needs MAD values, each of
  them an interval measured since the drop and not after `steadyFrom`. The
  lower bound needs more: because `holdIdx` is increasing, its last MAD entries span
  MAD intervals only if they are consecutive (`Squeeze`), so `updateBound`, which
  sees the ends only, accepts a window exactly when every interval in it was
  measured (`WindowFound`, `NewWindow`), and windows that ended earlier stay what
  they were unless goodput drops (`EarlierSustained`, `EarlierWindow`).
  `LatestBound` then holds at every moment. The statistics are proved for
  sequences of any length. The library's induction theorems cannot be cited, so
  each induction takes a least counterexample instead: `LeastNumber` is that a set
  of numbers has a least element, from `WFMin` and the order on `Nat`, and
  `LeastSubset` says the same of a family of subsets of a finite set.
  `SortedCopySorts`: positions are a bijection and the copy is in order.
  `RanksCover` is the arithmetic of the percentiles: the rank taken is the least
  that covers, and `percentileMinSamples` is exact; with `OrderStatistic`, `percentile`
  returns the only nearest rank. A sum is looked up in a table defined by its own
  recursion: `TableExists` and `TablesAgree` give the equation of a sum, from which
  its value does not depend on the order (`SumTake`, `SumSame`) and lies between
  bounds (`SumBounds`). Then `TrimmedMeanIsTM`: the prefix up to the first value
  above the percentile is, up to order, what `TM` averages. `Reported` is the
  invariant of the result: its samples are those of some intervals, put together
  without loss (`FlattenFacts`), there are some if an interval had any, and the
  figures are computed from them. It gives `RPMByDefinition`, `PercentilesAreRanks`
  and, with `LatestBound`, `LowerBoundSound`. `SummaryUsesSamples` has a hypothesis,
  `Brings(FreshSamples, FlowSamples)`: the time to connect and the HTTP exchange
  take between one clock unit and a minute, a TLS round trip at most a minute. The
  lower bound is a fact about networks and clocks (a rate is not reported for a
  round trip of zero, see `rpm`); the upper one comes from rates being whole
  numbers in the model, where a round trip longer than a minute has rate 0. Of
  samples that break it the property is false in the code as well: zero
  round trips give no rate. `EngineTypes` follows from all of these and `OthersOK`,
  the types of what no other invariant bounds.
* **ExchangeProofs.** `CloseInv` says at each place of the exchange who has closed
  the response or still will; the deferred function closes it unless the callback
  was started, and then waits for it. `CopyInv` says what is known of the response
  once a copy is judged good, which gives `ProbeWasWhole`. `TimesInv` orders the
  instants the hooks leave behind: `Marks` and `Written` say which of them lie between
  the start and the clock at each stage of the transport, for attempts that
  connect in any number and order. The clock only moves forward; `Exchange_late`
  shows what remains possible for the request time.
* **OwnedTransportProofs.** Only connections that arrived are tracked, a wrapped one
  past `forget` is out of the map, and after the snapshot every open socket is
  listed or being closed. The safety invariants and the action property follow;
  `CallbacksAreTracked` carries them to `Transport`. `ListSound`, proved of one
  `AddrSet` for any adders (in `AddrSet`) and cited for its two instances, says that
  a list has no address twice and that a call whose compare-and-swap succeeded,
  or that found its address, has it listed for good; a callback hands its
  connection over after both calls have returned, hence `AddressesListed`.
* **ClientBudgetProofs.** Keys have buckets of their own, admissions keep theirs,
  active counts are the handlers served, and a bucket charged with the full cap
  of every outstanding request is above `-Concurrency * R`. The last is
  inductive because an admission needs a positive balance and a free slot.
  `ConformanceInv` adds the past: what a key has moved is paid for by the refill
  since the start, the full bucket and the debt (forgetting a bucket loses no
  debt, since only a full one is forgotten), and a bucket that was refused has
  enough refill coming by the time the client was told. The request path in
  front of it: `GuardInv` says that every URL was minted at some earlier tick and
  that every call waiting for admission carries the key of its client. It gives
  the refinement (`GuardKeepsBudget`), `BucketsAreNotShared`, and, with the analysis
  of the wrapped conversion of an expiry (`WindowIsExact`), `ServedWereEntitled` and
  `HonestURLsAccepted`.
* **LimitListenerProofs.** `SlotsAccounted` with types and the relation of
  releases to Close calls; the refinement `ImplementsCap` maps each step to a step
  or a stutter of `ConnectionCap`, using that a slot is free when one is taken. The
  command is a listener (`CommandIsListener`), so it keeps the cap
  (`ServerKeepsCap`), and `ServerInv` with `CloserSound` (a Close past its first step
  has latched `done`) gives `ExitTold`, which is about the step that ends a server:
  the listener is closed by then, while the return of `Serve` is `InterruptEnds`.

The type invariants of `LoadPhase`, `Run`, `Engine`, `OwnedTransport`, `ClientBudget`
and `LimitListener`, and that a reason is recorded once, late dials arrive closed, open
sockets are tracked, concurrency is bounded and slots are accounted for, are
proved for every instance, so no run repeats them. The inductive invariants were
checked with TLC on the instances of the runs before they were proved.

### What is only model-checked, and why

* Liveness (`PhaseReturns`, `WaitersAreServed`, `InterruptEnds`, ...): fairness and
  `ENABLED` are outside the prover's reach. The refinements above are of the safety
  part.

Every other property of a passing run is stated by a theorem. Liveness apart,
what has no theorem is what the runs that expect a violation refute.

## 5. Not modelled

* Discovery (`target.go`): parsing and validation of one JSON document, no state;
  it is a step of `Run` that succeeds or fails.
* `ProbeGap` and the confidence labels of the engine: formulas on values the model
  has, which decide nothing but pacing and wording. Floating point everywhere.
* Certificate inspection: a predicate on names; when its verdict is reported is
  in `Run`.
* `ParseSigningKey`, the base64 spellings of a signature and `parseBytes`: parsing.
* Events, logging, JSON and the printed report: output.
* The clocks' platform calls, and the link simulator, which is a test double.
* A custom `RoundTripper` owns no transport, and a disabled budget or connection
  cap meters nothing: those configurations remove a component and are left out.

## 6. Plan

Every part of the plan's models is in place: the seven core modules, then
`PhaseContract` with its refinement, the commands composed with `Run` and
`LimitListener`, the dial callbacks composed with their address sets, the guard
composed with budget and signatures, the exchange, the statistics and the
defaults. What is left is to compose `LoadPhase` with `Engine` in place of the
oracle, once an abstraction of the engine's decisions keeps the product small
enough, and to model `ProbeGap`.
