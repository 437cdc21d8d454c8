# NetObs verification

TLA+ models of NetObs, the passive network threat detector, checked with TLC
and in part proved with TLAPS. Paths below are relative to the repository
(`src/src/...` is the detection engine, `src/dashboard/...` the web console).

## 1. The system

Zeek turns traffic into JSON logs (`conn.log`, `dns.log`, `ssl.log`). A pipeline
process tails and merges them, runs six detectors over the records, writes the
alerts to SQLite and folds them into incidents. The dashboard process feeds
captures to such a pipeline ("replay") and pushes the incidents to a web page.

    replay thread --writes--> log files + .done markers
                                   |
        follow() per log           v            (LogFollower)
                                   |
        merged(), by timestamp     v            (Merge)
                                   |
        on_conn / on_dns / on_ssl  v            (Handlers = ConnPath, DnsPath, TlsPath)
                                   |
        _emit(): store, aggregator v            (EmitPath = Aggregator + AlertStore)
                                   |
                              SQLite file
                                   |
        dashboard socket, page     v            (Dashboard)

### Inventory

| component | state it keeps | operations | what is hard | what makes it correct |
|---|---|---|---|---|
| log follower, `ingest/log_stream.py` | the open file and position, `waited`, `quiet_since` | one `follow()` generator: wait for the file, read, check marker, time out | the writer acts between any two of its filesystem calls; flushes split lines; the log or its marker may never come | every whole record once and in order; ends only after everything was read; always ends where it promises to |
| log merge, `pipeline.py` `merged()` | a generator and at most one record per log, `idle_since`, `last_record` | top-up pass, bounded wait, release of the oldest | a log that goes quiet; a feeder that dies; timestamps in no order | order is only broken when a log spoke late; nothing waits forever; it returns |
| connection path, `pipeline.py`, `features/window.py`, `detectors/{port_scan,exfiltration,ddos,beaconing}.py` | per-source windows, flood and beacon tracks, the baseline of each flooded target, last-fired times, record count | `on_conn()`, `_final_sweep()` | timestamps go back; sampled checks; a baseline that learns from what it is compared with; eviction; cooldowns on two clocks | nothing fresh is lost from a window; the sweep misses nothing; no report is repeated; no spike without a history |
| DNS path, `pipeline.py`, `detectors/dns_threat.py` | score cache, domains alerted on, tunnel window per source, last-fired times | `on_dns()` | names, sources and queries of a domain share one verdict; tunnels are looked for at some queries only | a suspicious domain is reported exactly once, at its first query |
| TLS path, `pipeline.py`, `detectors/encrypted_threat.py` | learning window, fingerprint counters, last-fired times | `on_ssl()` | the verdict on a session depends on all before it | a client is rare exactly as often as configured |
| incident aggregator, `alerts/aggregator.py` | open table, closed list, traffic clock, last report of each incident | `add()`, `expire()` | alerts out of order; close, resume, close again | an incident keeps its whole history; severity is that of the peak; reports are timely |
| alert store, `alerts/store.py` | the open transaction, writes since the last commit | `write_alert`, `upsert_incident`, `flush`, reset on open | the commit boundary falls anywhere; the process dies | the file is always consistent, and final after a clean end |
| replay controller, `dashboard/replay.py` | one shared object: `state`, `thread`, `proc`, `zeek`, `stop_flag` | `start()`, `stop()`, the replay thread | no lock; two subprocesses; a join that times out | what is stopped is quiet; no process outlives its run; a stopped feed is not marked complete |
| dashboard feed, `dashboard/api.py`, `dashboard/index.html` | newest alert id the socket has seen; the page's incidents and socket | poll, query, push; load; reconnect | the file is deleted and refilled; changes that come without an alert | pages do not go back in time; alerts reach the page |
| feeder and measuring scripts, `scripts/throughput.py`, `scripts/latency.py` | the feed trace | join alerts to the trace; drive a pipeline | two clocks; records fed in the order they close in | each alert has its moment in the trace, and none is later than the stamp of the record that raised it |
| CIC adapter, feature dump, training, Zeek and traffic tooling | none that is shared | offline conversions | none a model checker reaches | not modelled |

## 2. Modules and the code

Every definition names its code in `PROJECT.json` ("map"). Operators whose names
carry a suffix (`Consume_rereadsFragment`, `StopJoin_skips`, ...) are faulty
variants of the operator that follows them, kept to show that each property can
fail; no specification uses them.

**LogChannel** is the abstract promise of a log reader: a log that grows, a
reader that has been handed a growing part of it, and that says "finished" only
once it has all of it. LogFollower and Merge are shown to implement it.

**Subsequence** is what the refinement mappings of those two are written with: the members of a
set of numbers in order (`Ascending`) and what a sequence has at them (`Kept`). `SelectSeq` says the
same by recursion, which the prover cannot reason about.

**LogFollower** is `follow()` next to the writer of its log. Each filesystem call
(`exists`, `marker.exists`, `open`, `readline`) is a step, so the writer comes
between any two: `CheckExists`/`CheckAbsent`/`OpenLog`, `ReadLine`/`ReadNothing`,
`CheckMarker`, `ReReadLine`/`ReReadNothing`, `CheckQuiet`. The writer may write
whole lines, half lines that it completes later, noise (headers, malformed JSON)
and the marker. `IDLE` yields hand control to the caller (`Resume`); sleeps are
ended by `Tick`. The calls are the pipeline's (non-blocking, from the start, with a
marker), the tools' (blocking, ended by silence), and one that starts at the end of the log.

**Merge** is `merged()` for numbered logs, one `next()` of a follower per step
(`TakeRecord`, `FindIdle`, `FindEnd`), then `Decide`: quiet timeout, hold back, or
`Release` the oldest. `Later` ages the clocks the code compares, and each age stops
at the largest threshold it is compared with, so time has no bound.

**Window** has what the detectors share: trimming a queue at its head, dictionary updates, sampling,
cooldowns.

**ConnPath** is `on_conn()` and `_final_sweep()` as whole handlers: window, flood
and beacon tracks, the sampled and the forced checks (`Called`), cooldowns (`Emit`),
eviction (`Dead`). A target's `baseline` is sampled from its own flood track
(`SampleDue`, `Baseline`) and a flood is one because its flows fail or because it is a
spike over that baseline (`Flooded`). `arrived` (every flow of a source since it was last
evicted), `grounds` (what each alert was raised on) and `met` (when a target was first
contacted) are history. Detectors keep their counts; the ratios they ask for besides are
taken as met, except that targets are told apart by whether their flows fail (`HalfOpen`) and by
whether they are contacted at a port of `INFRA_PORTS` (`Infra`), which no beacon track follows.

**DnsPath** is `on_dns()`: `check_domain` with its cache and its set of domains alerted on,
`add_query` and `check_tunnel` with the window and cooldowns. A name is the sequence of its
labels, the classifier a table of verdicts over labels (`Verdict`), which includes labels that
are too short to be scored by leaving them out.

**TlsPath** is `on_ssl()`: `observe`, then the score of the session from the standing of its
client (`Identity`) and its flags (`Weight`), the band, and the cooldown of its `Key`.
Scores are in hundredths; `FallsShort` names the two sums that binary fractions put below
the threshold they equal.

**Latency** is the join of `scripts/latency.py`: `load_trace` finds the records of a log that moved
its clock, `fed_at` the one that brought it to the time of an alert.

**Handlers** composes the three paths on one stream, as `run()` does, and keeps the trace the feeder
keeps of it. `HandleConn`, `HandleDns`, `HandleSsl` and `EndOfStream` each handle one record,
or the end, whole; `HandleBlank` is a connection without a source, which is fed and traced but
from which `on_conn()` returns at once. The feeder flushes a record and stamps it afterwards
(`replay.py:238`, `249`): `Stamp` may come before or after the record is handled, and `stamps` counts
the records stamped. `raised` is a history of alerts for the join, each with the record that raised it
(`by`) and the stamps there were (`at`).

**Aggregator** is `IncidentAggregator`: `Add` with its cases (`AddNew`, `Reopen`,
`AddToOpen`) and `Expire`. `hist` is a history variable: the alerts of each key.

**AlertStore** is the database: `disk` is the last commit, `work` the connection's
view, `pending` the writes in between.

**EmitPath** composes both: `WriteAlert`, `FoldAlert`, `StoreChange` are the three steps
of `_emit()`, then the periodic expiry, the final write-out of `run()`, crashes between
any two steps, and restarts with or without `--keep-db`. Any alert may come next.

**Replay** is the `Replay` object at the grain of its accesses, called by any number of pages at
once: `start()` (`StartCheck`...`StartThread`), `stop()` (`StopFlag`...`StopDone`), the thread with its
conversion, spawn, feed, drain and clean-up, and both subprocesses, which may end or hang. Any file
operation, spawn or wait may raise (`Fail`): an OSError is caught and shown as the phase, any other
exception goes through the `finally` with the phase as it was; closing the pipeline's log may raise in the
`finally` itself (`ReleaseFails`). The histories `overlapped` (a `start()` met another call) and `outlived`
(a `join` returned with its thread at work) record the two disturbances the code has no lock against.

**Dashboard** is the socket handler's poll, query and push, the page's own load and its
reconnects, over a database that is committed to, deleted and refilled. A message has two
parts, queried one after the other (`Query`), and the file may change in between. Each query is
answered or fails (`query`; `api.py:41-42` turns any SQLite error into an empty answer). What two
queries saw is ordered by a number each change of the file gets; `reached` is the number up to which
pushes have brought the page.

`MC*` modules only give constants their values for TLC.

## 3. What is checked

| run | instance | distinct states | what it shows |
|---|---|---|---|
| LogFollower_main | every call, 3 lines | 113 282 | `OnceInOrder`, `UntornDelivered`, `FinishedReadAll`; it delivers every record and returns, on the marker or when told to give up (`FollowReturns`); implements LogChannel |
| Merge_main | 2 logs, 3 records, stamps {1,2}, lag 1, quiet 2 | 1 012 240 | an inversion in the output means a record that came late (`InversionExplained`); a wait never exceeds lag; nothing in hand stays there and it returns (`NobodyWaitsForever`); each log implements LogChannel |
| Aggregator_main | 4 alerts, times {1,2,3,5}, 3 confidences | 64 380 | `TablesAgree`, `HistoryKept`, `SeverityOfPeak`, `ReportedInTime`, `NeverShrinks` |
| EmitPath_main | 3 alerts, commit every 2 writes, 2 starts | 928 240 | incidents in the file have their alerts, rows are at most an update behind, the final state is stored, the file only grows |
| Handlers_main | 4 connections of 2 sources to 2 targets, or 3 and one without a source, or 4 queries, or 4 sessions, or one of each; 3 or 4 times | 3 447 156 | nothing fresh lost, sweep complete, beacons seen at once, no scan reported twice, no spike without a history; suspicious domains reported once; clients rare as often as configured; every latency measurable and counted from the right record |
| Replay_main | 2 clients, 2 runs, 2 records | 665 571 | two replays at once only after an overlapping start or a timed-out join (`TwoReplaysExplained`); until then nothing outlives its run, drained is complete and every run ends |
| Dashboard_main | 2 pipelines, 1 commit each besides the final one, 1 failing query, room for 2 messages, any number of sockets | 1 641 855 | pushes and their parts go forward; alerts reach an open socket |

Five runs end in a counterexample (section 4).

**Why the bounds are enough.** Three lines let a torn line stand before, between and
after whole ones, and let lines land between the empty `readline` and the marker check.
Two logs and three records give a log that speaks late, one that speaks twice while
the other is silent, and one that never speaks or is never marked. Four alerts open, close, resume and close an
incident. Four flows exceed every threshold (2 hosts, 2 flows, 3 contacts, `Keep` = 3)
and the four times include a jump past every span, in any order. Spans, idle limit and cooldowns stand to each other as in the code (the window's
span is the idle limit and longer than the scan and exfiltration cooldowns, the flood's span is
shorter than its cooldown, the beacon's is the longest and longer than its own) at the smallest
sizes that tell them apart. Two runs let one start while the other's processes are
still about, and two pages let any step of a call fall between two steps of another; a third page would
add calls, not kinds of overlap. In ConnPath `FeatureEvery` is shorter than `FloodEvery` and `EvictEvery`, so a connection is
handled unsampled, sampled, and sampled with flood check and eviction; a flood check at the fourth
connection leaves room for the two baseline samples a spike needs. One failing query may be the poll, either part of a
message or the page's load. The handlers share no state, so
Handlers gives each kind a stream of its own, and one stream to all three for the trace. Four
queries are two tunnel checks and a domain asked for again by another name and another host; four
sessions are two within the learning window and two after it, more than `RareLimit` of one client.
The two sources of connections are interchangeable and declared symmetric.

**Fairness.** LogFollower: the follower, its caller and the clock go on; nothing is
assumed of the writer, which may stop in mid-line. Merge: loop, caller and clock go on;
nothing is assumed of the feeder. Replay: each thread goes on, Zeek ends, clients finish their calls;
nothing is assumed of the pipeline, which may hang, nor that anybody calls `stop()`. With `Aftermath` =
FALSE (Replay_main) the exploration ends at a disturbance, and `RunEnds` claims nothing past it; Replay_one
sets it TRUE and goes on. Dashboard: the handler goes on, polls do not fail for ever, and the page handles
what reaches it; nothing is assumed of the other queries, the network or the pipeline. The other
modules claim no liveness.

**Deadlock** is not checked: followers return, feeds are finite and the bounds on input are
guards, so every one of these systems really stops.

## 4. Where the code and its words disagree

1. `NothingLost` (LogFollower_split_line). `readline()` at `log_stream.py:75` takes a half-written
   line for a whole one; both halves fail to parse and the record is lost, though
   `throughput.py:5-6` says nothing is. `UntornDelivered` is what does hold.
2. `LatencyBoundedByLag` (Merge_latency). A log that has yielded gets lag anew
   (`pipeline.py:101`), so a record waits once for each older one, not lag as
   `pipeline.py:41` says. `LagBoundsTheHold` is what does hold: no single wait exceeds it.
3. `NoExfilTwice` (ConnPath_refire). The sweep uses the pipeline's clock over a window nobody
   trims any more (`pipeline.py:230`) and reports the same flows again; `pipeline.py:252-253` says
   cooldowns prevent it. For scans they do (`NoScanTwice`).
4. `OneReplay` (Replay_one). `stop()` declares the replay over when its join has timed out
   (`replay.py:77`), and the next start runs beside the old thread.
5. `ChangesReachTheSocket` (Dashboard_final). The final states are stored without an alert, and the
   handler pushes on new alerts only (`api.py:139`).

Seen while modelling and not given a run of their own:

- `log_stream.py:43-45` and `55-57`: a log created and marked between the two checks is taken
  for absent. `58-64`: a non-blocking follower of a log that never comes is never told to give up;
  the pipeline's own quiet timeout covers it.
- `aggregator.py:133`, `165`: `last_seen` goes back with an older alert, so an incident may be closed
  while its newest alert is not idle. `145-160`: a severity that rises by less than the jump is
  stored with the next update only. `93-110`: the alert that reopens an incident is not weighed against its
  severity.
- `window.py:27` says the window is trimmed to a time span; stale flows stay behind a fresh head.
  `window.py:51-53`: a source whose last flow was a late one is evicted though it is busy.
- `exfiltration.py:49`: a target whose cooldown runs hides the other targets of its source.
- `pipeline.py:288`: with `--keep-db` the counts start again and overwrite the older, larger ones.
- `dns_features.py:29` steps over suffixes like `co.uk`, but `dns_threat.py:89` hands it two labels: every
  domain below `co.uk` shares the label `co`, which is too short to be scored, so none is judged.
- `dns_threat.py:97`: a second host that asks for a domain already reported is not.
- `pipeline.py:198`: tunnels are looked for at every tenth query of the network, for its source only, and
  never at the end of the stream.
- `encrypted_threat.py:150`: both bands share a cooldown, so an "observe" session silences an "alert" one.
  Line 146: 0.30 + 0.15 and 0.10 + 0.25 + 0.10 are an ulp below 0.45, which
  `docs/tls_dataset_notes.md:66` gives as the threshold.
- `ddos.py:4-5` says the detector fires on deviation from a baseline; its volumetric branch does not.
- `latency.py:18-20` says every detector dates an alert by its clock. Generated domains
  (`dns_threat.py:103`), TLS sessions and scans are dated by records, so when an earlier record had
  moved the clock there already, their latency counts from that one and is too long.
- `latency.py` may report a negative latency: the feeder stamps a record after its flush (`replay.py:238`,
  `249`), and the alert may be raised in between. A record without a source is in the trace though it moves
  no detector's clock (`pipeline.py:155-156`), so an alert may be counted from it.
- `replay.py:284-287`: if closing the pipeline's log raises, `running` stays set with no thread, and only a
  `stop()` resets it. `81-88`: two overlapping starts both pass, and two replays run.
- `api.py:41-42`: a query that fails on a live database empties the page until the next push; if it failed
  after the poll (line 140), that push is lost until the next alert. A poll that fails counts as a change,
  and the next one as another, so the same state is pushed again.
- `api.py:144` pushes 100 incidents where the page loads up to 200 (`api.py:87`): the first push shortens the list.
- `index.html:1129`: the first load may answer after the first push and undo it.

## 5. What is proved

Every safety invariant, every action property and every refinement that a passing run checks is a
theorem as well; TLC checks them on the instances of section 3, TLAPS proves them for all values of
the constants, under the named assumptions of the modules (`FollowerAssumption`,
`AggregatorAssumption`, `EmitAssumption`, `MergeAssumption`, `ConnAssumption`, `DnsAssumption`,
`TlsAssumption`, `HandlersAssumption`, `ReplayAssumption`, `DashboardAssumption`). These only say that the
constants are numbers and sets of the right kind and that intervals, thresholds and cooldowns are not zero.
The constants called "bound" there stay bounds, but of any size. No theorem has a hypothesis beyond these.

Each theorem is `Spec => []Inv` from an inductive invariant; the proof that a step keeps it has one
step per action, and under it one per conjunct the action disturbs.

**LogFollowerProofs**: `TypeCorrect`, `OnceInOrderCorrect`, `UntornDeliveredCorrect`,
`FinishedReadAllCorrect`, for any set of calls and any number of lines. The inductive invariant
`IInv` adds to the types that what was delivered lies before the read position and is
strictly increasing, that every whole record between the start and the position was
delivered, that a fragment that has been read belongs to a torn line, and that when the
follower is past its marker check the marker is there and the writer therefore silent.
Without the last part `FinishedReadAll` is not inductive: it is what the second `readline`
is for. `ImplementsChannelCorrect` is the refinement of LogChannel. `ChannelInv` says that what was
delivered from untorn lines is, as a sequence, the whole lines read; a line that is completed, a
line that is yielded and the end are steps of the channel, everything else stutters.

**MergeProofs**: `LagBoundsTheHoldCorrect` rests on `SleepInv`: a log that a sleep was spent on has been
silent since before that sleep, so its silence is never shorter than what was slept, and the code's
test of each log's silence against `lag` bounds the sum of the sleeps. `InversionExplainedCorrect` rests
on `OrderInv`: a record released early is `Settled` with every other log, because that log had nothing
newer on disk when last looked at, or has a record in hand that is no older. `ChannelsCorrect` is the
refinement of LogChannel for each log; `YieldInv` numbers the records of one log among those of all.

**AggregatorProofs**: `AggTypeCorrect`, `TablesAgreeCorrect`, `HistoryKeptCorrect`,
`SeverityOfPeakCorrect`, `ReportedInTimeCorrect` and the action property `NeverShrinksCorrect`, for
any subjects, times and confidences. `IInv` joins the five invariants, which need each other:
an alert's case (new, closed, open) is decided by the tables, and only their agreement says
the incident it is folded into is the one with the key's history.

**EmitPathProofs** composes that with the store. `EmitInv` adds to the aggregator's `IInv` four parts.
`WrittenInv`: the alert is in the transaction before it is in the incident, so at every point between two
writes, thus also wherever a commit or a crash falls, the rows count no more alerts than there are
(`IncidentsHaveAlertsCorrect`). `ReportInv`: between alerts the store has what `add()` last reported
(`RowsAreRecentCorrect`). `FinalInv`: during the write-out the incidents not left to write are stored as
they are (`FinalStateStoredCorrect`). `GrowInv`: on a new database the file is behind the transaction and
the transaction behind the aggregator (`FileOnlyGrowsCorrect`).

**ConnPathProofs**, for connections with timestamps in any order, any spans, thresholds, cooldowns and
sampling. `IInv` has five parts. `WindowInv` says that a window is an end of what arrived and that all before
it is stale (`NothingFreshIsLostCorrect`); it is kept because `Trimmed` drops a stale head only
(`TrimmedLosesStale`) and the clock never goes back. That a set of numbers has a least element, which
`Trimmed` relies on (`MinOfNat`), follows from the well-foundedness of strict inclusion between finite
sets. `SampleInv` says that the samples of a baseline lie `SampleEvery` apart since the target was first
contacted, so that `n` of them take `n * SampleEvery`; `SpikeInv` adds that a report of a target whose
flows complete had enough of them (`SpikeHasHistoryCorrect`). `GroundsInv` says that a scan was dated by
the newest of the flows it was raised on: the same flows give the same date, which a cooldown that is not
zero rejects (`NoScanTwiceCorrect`). `SweepLeavesNothing` is inductive, since nothing follows the sweep.
`BeaconSeenAtOnceCorrect` compares the two states of one step, in types that `TypeInv` keeps
(a track has no more flows than there were connections).

**HandlersProofs**: `HandlersImplementConnections` says that Handlers implements ConnPath, queries and TLS
sessions being stutters, so all of the above holds in the stream of all three logs (`...InStream`). Then
what belongs to the other two paths. `TlsInv` ties the counters of
`observe` to the sessions judged: a fingerprint's counter is the number of its sessions, which turns the
threshold of the code into the count `RareFewTimes` speaks of. `DomainInv` says that the cache holds what
the classifier would say, and that a domain is in the set of those alerted on exactly when a public query
for a suspicious one was made, and then has one report, to its first query (`DomainsReportedOnceCorrect`);
the types of `DnsTypeOK` need that the choice of the most common domain (`TopParentOf`) is defined, by
counting. `TraceInv` says of each path that its clock is the time of its newest record in the trace that has
a source (`Clocked`), and of each alert that its log had reached its time when it was raised, and no further
if a clock dated it, with all but the newest record stamped (`Sound`). Later records, stamps and records
without a source cannot change this, which gives `LatencyIsSoundCorrect`: the moment the join finds is not
after the stamps there were, unless it is that of the very record that raised the alert, and of an alert
dated by a clock it is the clock's last move or an earlier connection without a source.

**ReplayProofs**, for any number of callers, captures, failures and hangs. `ReplayTypeCorrect` holds
without restriction, from `FeedInv`. The other three say what the code relies on in place of a lock, as
conclusion or as condition, and both disturbances can happen in the model: `TwoReplaysExplainedCorrect` says
that two replays at once, or one that `start()` does not see, mean that a `start()` overlapped another call
or that a join timed out; `NothingOutlivesItsRunCorrect` and `DrainedIsCompleteCorrect` hold in every
state no such disturbance came before. The inductive invariant is `GuardedInv`: until a disturbance,
`ReplayInv`, which joins `ThreadInv` (only the newest run can be at work, and then `running` is set),
`CallInv` (between its check and its thread a `start()` is alone, and a `stop()` that has joined has no thread
to wait for) and `RunInv` (which process may live and which marker may stand at each point of `_run()`).
Stops may overlap each other throughout. Run Replay_one shows the timed-out join really breaks `OneReplay`.

**DashboardProofs**: `DashboardTypeCorrect` and `PushesGoForwardCorrect`. Every change of the file gets a
number; `OrderInv` says that what is on the wire, what is being put together and the file are ordered by it,
as far as queries did not fail (`InOrder`, `NotBehind`), `ReachedInv` that nothing on its way is behind what a
push has shown.

**Only model-checked**: liveness (`FollowReturns`, `EveryRecordDelivered`, `NobodyWaitsForever`, `RunEnds`,
`AlertsReachTheSocket`), which is out of the prover's reach, and the five properties of section 4, which are
false as stated.

## 6. Not modelled

Features, classifier scores and thresholds on ratios (numeric); `throughput.py`, whose probe and
high-water mark measure a machine (what its batches do to a reader is `TearLine` of
LogFollower); percentiles and plots of `latency.py`; what SQLite does with a journal left by a
killed process; filters and orderings of the dashboard's queries (without state); rendering;
training, dataset and capture scripts (offline, or pure I/O). Pacing in Replay and the number of
seconds anywhere are left out: they decide when, not whether.

## 7. Plan

Done, in this order of importance: LogFollower, Aggregator, EmitPath, Merge, ConnPath, Replay,
Dashboard, then the flood baseline, DnsPath, TlsPath, Latency and their composition in Handlers.

Then the theorems, in the order of section 5; none of the safety properties is left without one.

Next, models: the connections of the dashboard's other pages, which share nothing but the file.

Next, theorems:
1. Replay after a disturbance: what of its invariants holds again once every thread has ended.
2. ConnPath: what remains of `NoExfilTwice` without the sweep, where the clock that trims the window is the
   one that runs the cooldown.
3. TlsPath: that no session of a key is reported twice within a cooldown, in either band.
4. Window: that a queue keeps only a stale flow that stands behind a fresh one.
