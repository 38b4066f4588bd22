# A TLA+ model of pgcopilot

pgcopilot is a command-line program (Go, under `src/`) that lets a language
model diagnose PostgreSQL databases monitored by pgwatch. This directory holds
TLA+ modules translated from its source, TLC configurations that check them on
small instances, and theorems checked by TLAPS for instances of every size.

Contents: [inventory](#inventory) · [modules](#modules-and-the-code) ·
[runs](#runs-and-bounds) · [fairness](#fairness) · [proofs](#proofs) ·
[findings](#findings) · [what is not modelled](#what-is-not-modelled) ·
[plan](#plan) · [how to run](#how-to-run)

## Inventory

The program has one process and three commands. `ask` runs one agent on one
prompt. `watch` is a daemon: a threshold gate, an agent and a webhook per tick.
`mcp` serves the same tools to an external client, whose requests it handles
concurrently. All commands read two databases that pgwatch owns, the metrics
sink and the configuration database, and open short-lived pools to the
monitored databases. A separate program, `setup_env`, provisions test tenants.

| Component | State | Operations | What makes it correct |
|---|---|---|---|
| Agentic loop (`internal/agent`) | the conversation, which outlives a run; the loop counter | `Run`, `handleToolCalls`, `executeSingleTool` | every request carries a conversation in which all calls are answered, in order; effects and answers agree; at most `maxIterations` turns; a cancelled run returns |
| Sandbox (`internal/sandbox`, permissions of `internal/tool`) | its mode | `Execute` | a tool that is not read-only never runs |
| Watch daemon (`cmd/pgcopilot/watch.go`) | ticker channel, context, cycle | main loop, `runAnalysis`, `sendWebhookAlert` | alerts come from dispatched, answered cycles, once each; a signal stops it; neither webhook nor failing cycle does |
| Metric baselines (`internal/db/query.go`, `metrics/trends.go`) | none of its own; the metric tables | `FetchMetricBaseline`, `get_metric_trends`, the gate | tenants do not see each other; the gate and the tool judge a reading alike; silence reads as a drop while the day has an average |
| Live tools (`diagnostics/*`, `metrics/hypopg.go`, `internal/db/metadata.go`) | per call: pool, connection, hypothetical index; shared: config pool, server slots | the three `Execute`s | nothing is left behind; both plans come from one backend, the first without a hypothetical index; no call waits for itself or holds one connection while it awaits another |
| Commands and client (`cmd/pgcopilot/*`, `internal/db/db.go`) | pools, deferred calls, signal disposition | `RunE`, `NewClient`, `Close` | pools are closed on every way out, none under a call; a signal is handled until then |
| Provisioner (`cmd/setup_env`) | databases, extensions, `pgwatch.source` | three loops, meant to be rerun | what is registered is ready; reruns succeed and undo no one's choice |
| MCP server (`cmd/pgcopilot/mcp.go`) | the handlers at work over the shared pools | `makeMCPHandler`, shutdown | handlers use the pools while main serves only; a signal ends the process whatever its calls do; without one it ends after its client, once no call waits |
| Registries (`internal/provider/registry.go`, `internal/tool/tool.go`) | two maps with locks | `Register`, `New`, `Get`, `All` | both are atomic maps; a panic leaves no lock behind |
| Codecs (`internal/provider/gemini`, `groq`) | none | `buildRequest`, `parseResponse` | what a model answered can be sent back, says what it said, and is followed by the answers to its calls |
| Load verifier (`cmd/verify_load`) | none; the metric tables | its verdict | a confirmed spike is a load of the window |
| Catalogue queries (`internal/db/metadata.go`), cobra and viper wiring | none | | not modelled |

How they interact: a command builds the clients, the sandbox, the tools and,
but for `mcp`, an agent. The agent calls the provider and, through the sandbox,
the tools; the tools call the clients. The context is shared by all of them
and is the only way to interrupt one. The provider is made by the registry, for
a name under which the package of the provider registered itself at start-up.
The commands import and ask for `groq` only; a build that imports the `gemini`
package can ask for that one as well.
`watch` also calls `FetchMetricBaseline` itself, and makes a fresh agent in each
cycle.

What is hard to test here: cancellation at any point of a loop that keeps its
conversation; failures in the middle of a turn; the order of deferred calls on
every path; concurrent handlers that share a pool; a webhook request whose
answer is late; a tick and a signal at the same moment; averages whose windows
overlap, are empty or sum to zero; reruns after a failure anywhere; map
accesses that overlap; conversations that pass through a format twice, once as
an answer and then in every later request; an external service whose success is not
what the code takes it for; a server whose client is gone while a call waits.
PROJECT.json lists each at its line, with the properties that cover it.

## Modules and the code

| Module | Models | Notes |
|---|---|---|
| `Sandbox` | `sandbox.go`, the permission levels | one operator, `Permits`; the switch without a default is kept |
| `Agent` | `agent.go`: `Run` and all below it | one action per point at which something else can happen: the call of the model, its error or reply, each tool call, the next iteration |
| `ToolLoop` | abstract | what an agent promises: turns, calls opened and closed |
| `AgentProofs` | | theorems about `Agent` |
| `Gate` | the deviation in `watch.go:184-216` and in `trends.go:84-110` | averages are fractions, compared by cross-multiplication |
| `Baseline` | `FetchMetricBaseline` | the WHERE, FILTER, COALESCE and cast of its query over a sequence of rows |
| `MetricsSink` | the metric tables over time | collectors and the clock are the environment; the readings are state functions |
| `MetricsSinkProofs` | | theorems about `MetricsSink`, and about sums |
| `Watch` | `watch.go:126-272` | extends `Gate`; the ticker's channel of capacity one, the signal, the sink, the model and the endpoint are environments; the endpoint may accept, refuse, redirect or never answer |
| `WatchAgent` | `Watch` with the `Agent` of `NewAgent` and `Run` in each cycle | extends `Watch`; the agent is an instance, its `pc` is `agPc` |
| `WatchProofs` | | theorems about the daemon, alone and with its agent |
| `GeminiProvider` | `gemini.go` under the agent | extends `Agent`; `Send` builds a request, `Receive` parses a response into the reply `Run` appends |
| `GroqProvider` | `groq.go` under the agent | likewise |
| `Providers` | the agent on either | extends `GeminiProvider`, with an instance of `GroqProvider` |
| `ProvidersProofs` | | theorems about `Providers`; extends `AgentProofs` |
| `Registry` | `registry.go`, `Registry` of `tool.go` | one action per lock operation and map access; a `sync.RWMutex` with its two stages of `Lock` |
| `NameMap` | abstract | a map whose calls take effect at one moment |
| `RegistryProofs` | | theorems about `Registry` |
| `LiveTools` | the three tools and `GetMonitoredDBConnStr` | a `pc` per concurrent call; one action per driver call and per deferred call |
| `Commands` | `RunE` of `ask`, `watch`, `mcp`; `NewClient`, `Close` | the stack of deferred calls is a sequence; the end of `mcp`'s work waits for its handlers, and `Close` for connections |
| `CommandsProofs` | | theorems about `Commands` |
| `McpServer` | `mcp.go`: `LiveTools` and `Commands` in one process | extends `LiveTools`; `Using` derives what `Commands` sees of the handlers from the connections they hold; `InputEnds` and `ServeStdioReturns` are the two stages in which `ServeStdio` ends |
| `McpServerProofs` | | theorems about `LiveTools` and `McpServer` |
| `LoadVerifier` | the verdict of `verify_load/main.go` | load tests, scrapes, resets and time are the environment |
| `SetupEnv` | `setup_env/main.go` | `phase` and `tenant` are the place in the three loops |
| `SetupEnvProofs` | | theorems about `SetupEnv` |
| `MC*` | | constants for TLC |

Abstractions that are worth knowing:

* Texts. In `Agent` the content of a tool message is the branch of
  `executeSingleTool` that made it. In `Watch` an answer is "ok" if it contains
  `STATUS: OK`, else "anomaly" or "empty": the code alerts on both.
* Formats. In the codecs a content is a sequence of parts and a request a
  sequence of records. Texts are strings only where the code concatenates them.
  Argument objects are opaque; `JSON` gives their texts, and the texts the code
  treats specially ("", "{}", "null") are members of `Arguments`.
* Map accesses. In `Registry` an access lasts from the arrival at it to the
  step that leaves it. Two overlap when two goroutines are at theirs, and then
  Go's runtime may or may not stop the process (`Throw`).
* Numbers. An average is a sum and a count, so the model does not round;
  PostgreSQL's `numeric` and Go's `float64` do. Thresholds are whole percents
  (0 means always dispatch). `math.MaxFloat64`, which no threshold exceeds, is
  the second disjunct of `Skips`.
* A driver call whose context is done fails. A driver call or model call that
  is not cancelled may succeed, fail or never return.
* `Watch` counts cycles only up to the signal (bound `MaxCycles`); every cycle
  begun after it is cycle 0, as often as the `select` chooses.
* In `LiveTools` the two listing tools are one path: they differ in what they
  read. Rows are abstracted to "all could be read" or not; a plan to whether the
  backend had the hypothetical index; an index statement to whether it is a
  `CREATE INDEX`. For another one hypopg warns and makes no index, which
  `hypopg.go:104` does not notice: the call succeeds and the index is absent.
* In `Watch` the client follows a redirect as `http.DefaultClient` does: after
  301, 302 or 303 by a GET without a body, whose response is the one the daemon
  sees (`EndpointRedirects`); after 307 or 308 by the POST again, which is then
  still on the wire.
* In `Commands` a handler holds at most one connection; how it gets there is
  the business of `LiveTools`, and `McpServer` puts the two together.
* `ServeStdio` is the library's. As of the version in `go.mod:8`, mcp-go v0.46.0,
  it reads requests until its input ends or a signal cancels its context, and
  then waits for the tool calls it has begun before it returns. Only the signal
  cancels the calls; the end of the input does not.
* In `SetupEnv` a statement that fails may have been executed by the server.
  Operators switch sources but delete nothing while the program runs.

History variables (`executed`, `history`, `received`, `redirected`, `reported`,
`reachable`, `added`, `said`, and `load` of `LoadVerifier`) record what happened for the
properties; no guard reads them.

Each module has its mutants: next to an operator, a variant with a plausible
bug (a dropped guard, a limit off by one, a missing predicate, a wrong order)
that makes one property fail. They are used by no specification.

## Runs and bounds

| Run | Instance | Distinct states | Shows |
|---|---|---|---|
| `agent` | 2 runs of at most 2 turns; a reading and a writing tool; replies with 0 to 3 calls, unknown names, repeated and empty ids | 53 000 | requests are complete conversations also after a failed run; effects match answers; cancellation ends a run; `Agent` implements `ToolLoop` |
| `sink` | 3 rows, 2 databases in 2 clusters, values 0, 3, -1, missing, not a number; windows of 1 and 2 hours over 3 hours; five thresholds | 288 000 | tenants are isolated, also from each other's bad values; gate and tool agree; silence reads as zero |
| `sink_nodata` | the same | | violation, see findings |
| `watch` | `WatchAgent`: 3 cycles before the signal, any number after it; agents of 2 turns; answers of each kind, the empty one included, a tool that runs and one that is blocked | 563 000 | alerts are justified and exact; the daemon stops on a signal, does not wait for the endpoint, survives failures; no cycle sees another's conversation; `WatchAgent` implements `Watch` |
| `live_tools` | 2 calls, 2 databases, 1 config connection, 1 slot per server, statements that make an index and that make none | 792 000 | nothing leaks; costs are comparable; disabled sources are not contacted; no hold-and-wait; cancelled calls end |
| `commands` | the 3 commands, 2 handlers | 108 | all start-up failures, panics and signals, at every point |
| `mcp_server` | `McpServer`: 2 handlers, one that evaluates indexes and one that lists locks, both also asked for trends; 1 database, 1 config connection | 57 000 | its handlers implement those of `Commands`; a signalled server exits, and an abandoned one when no call hangs |
| `providers` | 2 runs of at most 2 turns on either provider; 6 responses each: without candidates, empty, with text around calls, without ids, with repeated ids, with arguments of each kind | 71 000 | requests can be built, repeat what the model said and answer its calls |
| `registry` | 3 goroutines that register, look up and copy 2 names | 14 000 | both registries implement `NameMap`; calls return; only the listing of names is unprotected |
| `load_verifier` | window of 1 minute, 3 scrapes, loads of 1 and 3 commits over 3 minutes, threshold 2 | | violation, see findings |
| `setup_env` | 3 tenants, 2 early ends, any initial state | 84 000 | readiness, completeness, the operator's choice, completion |
| `setup_env_banner` | 2 tenants, 1 early end | | violation, see findings |

Why these bounds are enough for the cases that matter. *agent*: two turns give
a first, a last and a limit; two runs give a run on what a failed one left; a
reply with three calls has a first, a middle and a last. The theorems lift them
all. *sink*: an isolation failure needs two tenants with a row each and a
third row to differ in name or cluster only; a row leaves the hour after one
step and the day after two. *watch*: a late request needs a cycle to be sent in
and another to overtake it; a third lets them cross. *live_tools*: contention
needs more calls than connections, and two calls over one connection are the
least such instance. *setup_env*: three tenants give every loop a middle; two
early ends let a rerun fail as well. *providers*: a call of the first turn
is sent back in the second one and, after a second `Run`, twice more.
*registry*: a copy may straddle two registrations. *mcp_server*: one handler can
wait on the monitored server while the other one queries a shared pool or queues
for its only connection, as the client leaves or a signal comes; a second
database would add no contention for the shared pools.

No symmetry is used: most runs check liveness, where it would be unsound.

Deadlock is checked where the system never stops (`live_tools`,
`setup_env`, `setup_env_banner`). It is off where it may stop: a
process exits (`watch`, `commands`, `mcp_server`), the runtime stops it
(`registry`), or a bound on runs, rows or time is reached (`agent`, `providers`,
`sink`, `load_verifier`).

What the properties say:

* `EveryCallAnswered` holds when the model is called. Inside a turn it does not
  hold, which is why the proof needs more (below).
* `EffectsAccounted` ties the tools that ran to the answers in the
  conversation: in order, once, and only read-only ones.
* `GateMatchesTool` is about two pieces of code that treat a zero baseline
  differently. For values that are not negative they agree all the same, since
  the baseline window contains the current one: a zero day has a zero hour. The
  branch `watch.go:195` for a spike from a zero baseline is thus not reached
  with such values. A metric that was zero until an hour ago gives a finite
  deviation, large when the day has many rows and small when it has few; a high
  threshold may skip it. For negative values the two may differ.
* A threshold of 0 never skips, not even a reading of two zeros, which
  `src/README.md:267` says is skipped; at any positive threshold it is.
* `SilenceReadsAsZero`: an empty hour averages to 0. While the day has an average
  that is a deviation of 100%, dispatched at every threshold up to 100. For a
  metric that averaged 0 all day, and for one silent for the whole day, it is
  no deviation, and every positive threshold skips it: a collector that died is
  reported for a day at most.
* `AlertsJustified` covers the cycle that a `select` may begin after the signal:
  its query fails, the gate lets it through, its agent fails at once, nothing is
  sent.
* `AlertsExact` also says what the log may claim: an alert it calls dispatched was
  received, or its request was redirected and lost its body. `http.DefaultClient`
  follows a 301, 302 or 303 with a GET that has none, and `watch.go:270` logs
  the success of that one. The converse is false and not claimed: a request
  that timed out may have been received.
* `TicksServed` assumes that no query and no model call hangs, but nothing of the
  endpoint: there the five-second timeout has to do.
* `ContextOfThisCycle` says what `src/README.md:272` promises. `ImplementsWatch`
  makes every property of `Watch` one of the daemon with its agent; the most
  important ones are checked there directly as well.
* `HistoryKept` holds word for word on Groq. On Gemini a turn's text is moved
  before its calls, and missing and empty arguments become the same.
* `AnswersFollowOnWire` is weaker than `provider.go:42` ("ToolCallID links a
  tool-result message back to the ToolCall it answers") for Gemini: when the
  API gives no ids, the codec sends none, and the name it leaves empty for plain
  text does not tell the calls apart either. Their order does.
* `RacesOnlyInListing` is what is left of "thread-safe" (`src/README.md:115`):
  `New` lists the names for its error text after it released the lock
  (`registry.go:41-44`, `51-57`). The commands register in package
  initialisation only, before any `New`.
* `CostsComparable` covers both kinds of index statement. For one that makes no
  index both plans are plain, and the report (`hypopg.go:134`, "Hypothetical
  index evaluated") compares a plan with itself.
* `SignalledServerExits` and `AbandonedServerExits` are the two ways in which
  `mcp` ends. The first needs nothing of any database. The second has as its
  hypothesis that no database keeps a call waiting for ever: `ServeStdio` waits
  for its calls, and after the client has gone nothing cancels them, so a call
  that hangs on a lock does keep the process.
* `ImplementsCommands`: the tools use the shared pools while `RunE` works and
  have given back what they took when `ServeStdio` returns. No pool is then
  closed under a call (`ServerPoolsOutliveCalls`).
* `DisabledNotContacted` bounds how stale the lookup may be, by the call: a source
  that is disabled between the lookup and the connection is contacted.
* `NoHoldAndWait` and `CancelledCallEnds` are the two sides of the deferred
  calls' order.
* `ClosingNotKilled`: `stop` is deferred first and so runs last.
* `SwitchesKept` is an action property over the program's steps.

## Fairness

* `Agent`: Go schedules the goroutine and tools return; a cancelled `Complete`
  returns (`provider.go:87-89`). Nothing is assumed of a model that is not
  cancelled.
* `Watch`: the goroutine runs, the five-second timeout expires, and a query or
  a model call whose context is done returns. Nothing makes the sink, the model
  or the endpoint answer, and no tick need fire. `Stop` has strong fairness:
  `select` picks among ready channels at random, and the `Done` channel stays
  ready. `TicksServed` has as its hypothesis that no query or model call hangs
  for ever, because the code sets them no timeout.
* `LiveTools`: goroutines run and a cancelled driver call returns. A server may
  keep a statement waiting for ever, `hypopg_reset` included: no timeout is set,
  and nothing is claimed of a call that is not cancelled.
* `WatchAgent`: that of `Watch` for the daemon and that of `Agent` for the agent;
  the refinement shows that they add up to the fairness of `Watch`.
* `Commands`: fair only for `watch`, where the work reacts to the signal. The
  handlers of `mcp` may keep a connection for ever, and then its work does not
  end.
* `McpServer`: the main goroutine returns from `ServeStdio` when it can and runs
  its deferred calls; a signal ends the input and cancels the calls; a call that
  can go on by itself does, and one that is cancelled ends as in `LiveTools`. A
  lookup gets its connection when one is free. No database need answer, no
  client close its input, and no signal come.
* `Registry`: goroutines run, and the lock is strongly fair, since
  `sync.RWMutex` starves neither side.
* `SetupEnv`: statements end because of the 60-second context, and the operator
  reruns the program. The number of early ends is bounded by `MaxFailures`.

## Proofs

Everything here is proved for every value of the constants that the named
assumptions allow, which TLC evaluates in the runs. The assumptions type the
constants and ask for what the code has anyway: limits are positive, a database
is monitored at all (`LiveToolsAssumption`), the tools and replies of the
daemon's agent are those of an agent (`WatchAgentAssumption`), values and
thresholds are integers (`SinkAssumption`), what an API may answer is well-typed
and is parsed into a reply (`GeminiAssumption`, `ProvidersAssumption`). Two
assumptions are about data the model leaves opaque: different argument objects
have different texts, none of them a text the code treats specially, and the
empty text is neutral in a concatenation. No set of handlers, goroutines or
cycles is assumed finite, and no table, response or conversation bounded.

| Module | Theorem | States |
|---|---|---|
| `AgentProofs` | `TypeCorrect`, `CallsAnswered`, `EffectsCorrect`, `AgentRefinesToolLoop` | `TypeOK`, `EveryCallAnswered`, `EffectsAccounted`, `ImplementsToolLoop` |
| `WatchProofs` | `TypeCorrect`, `AlertsAreJustified`, `AlertsAreExact` | `TypeOK`, `AlertsJustified`, `AlertsExact` of `Watch` |
| | `DaemonIsWatch`, `WholeAlertsAreJustified`, `WholeAlertsAreExact`, `ContextIsOfThisCycle`, `CycleEffectsCorrect` | the daemon with its agent takes steps of `Watch`, and so has its safety properties; `ContextOfThisCycle`; `EffectsAccounted` of each cycle's agent |
| `MetricsSinkProofs` | `GateAgreesWithTool`, `SilenceIsReadAsZero`, `TenantsAreIsolated` | `GateMatchesTool`, `SilenceReadsAsZero`, `TenantsIsolated` |
| `ProvidersProofs` | `ProviderRunsAgent`, `RequestsAreBuildable`, `HistoryIsKept`, `AnswersDoFollowOnWire` | the agent on a provider is an `Agent`; `RequestsBuildable`, `HistoryKept`, `AnswersFollowOnWire` |
| `CommandsProofs` | `TypeCorrect`, `PoolsAreClosedAtExit`, `ClosingIsNotKilled` | `TypeOK`, `PoolsClosedAtExit`, `ClosingNotKilled` |
| `McpServerProofs` | `TypeCorrect`, `NothingIsLeftBehind`, `CostsAreComparable`, `DisabledIsNotContacted`, `NeverHoldsAndWaits` | `TypeOK`, `NothingLeftBehind`, `CostsComparable`, `DisabledNotContacted`, `NoHoldAndWait` of `LiveTools` |
| | `ServerRunsTools`, `ServerLeavesNothing`, `ServerNeverHoldsAndWaits`, `ServerImplementsCommands`, `ServerPoolsOutliveCalls`, `ServerPoolsClosedAtExit` | the server's handlers are those of `LiveTools`, its use of pools is that of `Commands` (`ImplementsCommands`), and what follows from both |
| `RegistryProofs` | `TypeCorrect`, `OnlyListingRaces`, `RegistryImplementsNameMap` | `TypeOK`, `RacesOnlyInListing`, `ImplementsNameMap` |
| `SetupEnvProofs` | `TypeCorrect`, `AddedSourcesReady`, `CompletedRunsCover`, `OperatorsChoiceKept` | `TypeOK`, `SourcesReady`, `CompleteCoversAll`, `SwitchesKept` |

### The inductive invariants, and why they are needed

*Agent.* `EveryCallAnswered` is about the moment of the request and is not
inductive. The invariant `IInv` holds at every moment: what follows a message
with calls answers them in order (`Paired`); all of them are there, except for
the message being handled (`Complete`); a tool message stands in such a block
(`Backed`); and while a turn is handled the conversation ends exactly with the
answers to the calls before the current one (`TurnInv`). The proof has one lemma
for appending a message outside a turn (`OpenMessage`) and one for appending an
answer (`AnswerKeeps`); the actions cite them. The refinement maps the `pc` to
the phase, the calls still unanswered to `open`, and the iterations left to
`turns`; `StepRefines` shows per action which abstract step it is.
`EffectsInv` says that tools run for later and later places of the conversation
(`Ordered`); that each place already holds its answer, except that of the
running tool, which is the next position (`Placed`); that a message is the
answer of a tool exactly if a tool ran for it (`Matched`); and that the running
tool is permitted (`Permitted`). The middle two are what `EffectsAccounted`
lacks: without them nothing keeps the answer of a running tool from landing
where a later message goes.

*Watch.* The two alert properties speak of the wire and the endpoint, and a
request may arrive cycles after its own. `AlertsInv` links both to the current
cycle: what its history says at each `pc` (`CycleSoFar`), that a cycle begun
after the signal sends nothing (`AfterSignal`), that no request is of a later
cycle, nor of this one before its turn to post (`SentSoFar`), which is why the
next request is a new one, and that a response below 300 means the request was
received or redirected (`SuccessAccepted`).

*WatchAgent.* `Linked` ties the agent's `pc` and iteration to the daemon's `pc`
and `turns`; with it every step of the whole is a step of `Watch` or happens
within a turn. What is proved of `Watch` then applies as it is, and so does `AgentProofs`,
through an instance in which the agent makes one run. That the conversation is
this cycle's (`OfThisCycle`) counts its assistant messages: one per answered
turn, which is `Linked` to the daemon's turns.

*MetricsSink.* The invariant only types the table; the work is in the averages.
Their sums are recursive functions over the rows, and what they yield is shown
by induction on the row number (next section). Two facts carry the theorems:
rows that are not negative with a sum of zero are all zero, so a zero day has a
zero hour (`ZeroDayHasZeroHour`), which is the one case the gate and the tool
treat differently; and a sum over rows that did not change does not change,
which isolates the tenants.

*Providers.* `WireInv` says, at every moment, that the assistant messages of the
conversation are what the responses were parsed into, one for one and in order:
the `Ordinal` of a message counts the assistant messages up to it, and there are
as many as responses. Only assistant messages have calls. All three properties
follow: arguments of a call were written by `Marshal`, and `RoundTrip` says what
reading them back gives; `SaysTheSame` compares a turn with its response; and
that answers follow is `EveryCallAnswered` of the agent, carried over to the
wire, where on Groq everything stands one place further on (`Shifted`).

*Commands.* The properties are about the end, when deferred calls run; the
invariant is about the stack they are in. Each open pool has its `Close` there,
`stop` is at its bottom (`StopLast`), a pool that is needed is open while `RunE`
works (`Started`), handlers use pools only then (`UsedWhileWorking`) and only in
`mcp` (`OnlyMcp`), so that no signal kills a process that has one at work, and a
process that was not killed leaves only with an empty stack (`Ended`). Lemmas about
pushing and popping a deferred call carry the proof. It needs no assumption.

*LiveTools.* `CallInv` says for each call what it holds at each `pc` (`Holds`), what
index its backend may have (`Indexed`), what its costs so far mean (`Explained`)
and that the source it works with was enabled (`Reachable`). Calls meet only at
the config pool and the servers; the limits are about cardinalities, so the
induction carries that the sets are finite, and nothing is asked of `Handlers`.

*McpServer.* A step of the server is one of `LiveTools` (`StepIsCall`) and, seen
through `Using`, one of `Commands`; `TrendsAlone` says that a handler has one
request at a time. `CommandsProofs` is instantiated for the main goroutine, and
the two invariants together give `ServerPoolsOutliveCalls` and
`ServerPoolsClosedAtExit`.

*Registry.* `TypeOK` states the exclusion of the lock. To be atomic, a call must
still find true what it looked up under the lock: `StillTrue` says so of the
free name and of the entries copied so far, `Decided` that an outcome is open
until its map access. The refinement maps each call to the abstract one, which
takes effect at that access; `New` lists the names only after its outcome is
decided.

*SetupEnv.* `IInv` adds to the type invariant how far the loops have come
(`Progress`): what the tenants before the current one have, and what all tenants
have once a loop is over. `SourcesReady` alone is not inductive, since nothing in
it says that the loop that registers comes after the loop that installs.

### Induction over data

Sums, filters (`Keep`) and joins (`TextOf`) are recursive functions. The
induction theorems of the library take an operator as a parameter, which the
provers cannot instantiate, so `MetricsSinkProofs` and `ProvidersProofs` derive
induction for a set of numbers instead (`NatSetInduction`): 0 is in it, and with
n also n + 1. It follows from `WFMin` of the library, that a set of numbers has a
least element. Each recursive function is then shown to exist and to satisfy its
equation (`SumIsRecursive`, `KeepIsRecursive`, `TextOfIsRecursive`), and the
lemmas about it cite that equation.

### Only model-checked

* Liveness, and with it fairness and ENABLED, which are beyond the prover:
  `CancelStopsRun`, `SignalStops`, `TicksServed`, `CallsReturn`,
  `CancelledCallEnds`, `SignalledWatchExits`, `EventuallyComplete`,
  `SignalledServerExits`, `AbandonedServerExits`, and of `ImplementsWatch` the
  fairness (its steps are `DaemonIsWatch`).
* The three runs that show a violation.

## Findings

* `sink_nodata`: `get_metric_trends` answers "No data found in the last 24
  hours" (`trends.go:93`) for a metric that was measured and is 0, because an
  empty window and a window of zeros have the same average.
* `setup_env_banner`: the closing message of `setup_env` (`main.go:122`) says
  that hypopg is enabled also when its creation failed with a warning
  (`main.go:88-90`).
* `load_verifier`: `verify_load` says "SPIKE CONFIRMED — pgwatch captured the
  load generation event" (`main.go:82`) of a window without any load: it compares
  the level of a counter with the threshold and not its growth, which it prints.

## What is not modelled

* `FetchMetricData`, `GetAvailableMetrics`, `GetMonitoredDBs`, `Client.Pool` and
  `Client.Ping`: no command calls them, and they change nothing.
* In the codecs: tool definitions, temperature, token limits and usage. They are
  copied, and no property tells them apart.
* In `verify_load`: the other figures it prints, and its connection.
* cobra, viper and flag parsing beyond "it may fail"; the MCP protocol and the
  HTTP, PostgreSQL and model libraries, of which only what the code relies on
  is modelled, as environment actions.
* Formatting, truncation and log output.
* Validation of identifiers in `query.go`: it is a regular expression.

## Plan

Every component that has behaviour of its own is modelled, those that interact
are composed (`WatchAgent`, `Providers`, `McpServer`), and every safety property that
a passing run checks, invariant, action property or the steps of a refinement,
is proved for all constants. What is left:

1. The safety that liveness rests on, as far as it can be said without ENABLED:
   variants that decrease in `Commands` and `SetupEnv`, so that only fairness is
   left to the model checker.
2. The properties of `Watch`'s alerts together with those of the gate: that an
   alert means a deviation `get_metric_trends` would have reported.

## How to run

    tlc -config MCAgent.cfg MCAgent        # likewise the other MC modules
    tlapm AgentProofs.tla                  # likewise the other *Proofs modules
