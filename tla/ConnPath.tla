------------------------------ MODULE ConnPath ------------------------------
(***************************************************************************)
(* Pipeline.on_conn() and Pipeline._final_sweep() of src/pipeline.py: what *)
(* one connection does to the per-source window (features/window.py), to   *)
(* the flood and beacon tracks, the floods' baselines and the cooldowns of *)
(* the four detectors over connections (src/detectors).                    *)
(*                                                                         *)
(* Zeek logs a connection when it closes, so timestamps come in any order. *)
(* The clocks of the window and of the detectors all follow the newest     *)
(* timestamp of any connection, so they are one clock here.                *)
(*                                                                         *)
(* Of a flow the model keeps who talked to whom and when. The ratios of    *)
(* failed, small and lopsided flows that the detectors ask for besides     *)
(* their counts are taken as met: every flow speaks for every threat, but  *)
(* that flows to some targets fail and those to others complete, which     *)
(* decides what makes them a flood.                                        *)
(***************************************************************************)
EXTENDS Window

CONSTANTS
    Sources, Targets, Times,  \* who talks to whom, and when
    Span, MaxIdle,            \* of the window (both 300 s in the pipeline)
    FloodSpan, BeaconSpan,    \* of the flood and the beacon tracks
    Keep,                     \* contacts a beacon track holds
    ScanHosts,                \* distinct targets that make a scan
    ExfilFlows,               \* flows to one target that make an exfiltration
    FloodSources,             \* distinct sources that make a flood
    HalfOpen,                 \* targets that flows do not complete with
    SampleEvery, KeepSamples, \* of a target's baseline
    MinSamples, Spike,        \* samples it takes, and times it a spike takes
    BeaconHits,               \* contacts that make a beacon
    Infra,                    \* targets contacted at INFRA_PORTS, which are
                              \* periodic by design
    Cooldown,                 \* [class -> cooldown of its detector]
    FeatureEvery, FloodEvery, EvictEvery,  \* connections per sampled check
    MaxFlows                  \* bound: connections read

Classes == {"port_scan", "exfiltration", "ddos", "c2_beacon"}
Flow == [src : Sources, dst : Targets, ts : Times]
Pairs == Sources \X Targets

ASSUME ConnAssumption ==
    /\ Times \subseteq Nat
    /\ {Span, MaxIdle, FloodSpan, BeaconSpan, MaxFlows} \subseteq Nat
    /\ {Keep, FeatureEvery, FloodEvery, EvictEvery} \subseteq Nat \ {0}
    /\ HalfOpen \subseteq Targets /\ Infra \subseteq Targets
    /\ {SampleEvery, KeepSamples, MinSamples, Spike} \subseteq Nat \ {0}
    /\ {ScanHosts, ExfilFlows, FloodSources, BeaconHits} \subseteq Nat \ {0}
    /\ Cooldown \in [Classes -> Nat \ {0}]

VARIABLES
    now,        \* the newest timestamp so far
    count,      \* counts["conn"]
    held,       \* held[s]: the window of source s, empty for a source unknown
    lastSeen,   \* the window's last_seen
    floods,     \* floods[d]: the flood track of target d
    baseline,   \* baseline[d]: sampled lengths of that track
    lastSample, \* last_sample: when, for each target ever contacted
    tracks,     \* tracks[<<s, d>>]: the beacon track of a pair
    fired,      \* the detectors' last_fired, by class and subject
    swept,      \* the final sweep has run
    arrived,    \* history: flows of each source since it was last forgotten
    grounds,    \* history: the queue the last alert of a subject rests on
    met         \* history: when each target was first contacted

trackVars == <<floods, baseline, lastSample, tracks>>
connVars == <<now, count, held, lastSeen, trackVars, fired, swept>>
vars == <<connVars, arrived, grounds, met>>

Init ==
    /\ now = 0
    /\ count = 0
    /\ held = [s \in Sources |-> <<>>]
    /\ lastSeen = <<>>
    /\ floods = [d \in Targets |-> <<>>]
    /\ baseline = [d \in Targets |-> <<>>]
    /\ lastSample = <<>>
    /\ tracks = [p \in Pairs |-> <<>>]
    /\ fired = <<>>
    /\ swept = FALSE
    /\ arrived = [s \in Sources |-> <<>>]
    /\ grounds = <<>>
    /\ met = <<>>

-----------------------------------------------------------------------------
(* The queues.                                                             *)

\* Mutant: a plain deque.
Newest_all(q) == q

\* deque(maxlen=keep)
Newest(q) == IF Len(q) > Keep THEN Tail(q) ELSE q

\* Mutant: a flow right at the end of the span is dropped.
Window_strict(f, clock) == Trimmed(Append(held[f.src], f), clock - Span + 1)

Window(f, clock) == Trimmed(Append(held[f.src], f), clock - Span)

Flood(f, clock) == Trimmed(Append(floods[f.dst], f), clock - FloodSpan)

\* A target is sampled for its baseline SampleEvery after it was last, and
\* first contact counts as that.
SampleDue(d, clock) ==
    d \in DOMAIN lastSample /\ clock - lastSample[d] >= SampleEvery

Baseline(f, clock) ==
    LET b == Append(baseline[f.dst], Len(Flood(f, clock)))
    IN  IF ~SampleDue(f.dst, clock) THEN baseline[f.dst]
        ELSE IF Len(b) > KeepSamples THEN Tail(b) ELSE b

\* A track of an infrastructure port stays empty, and so is never regular.
Track(f, clock) ==
    IF f.dst \in Infra THEN tracks[<<f.src, f.dst>>]
    ELSE Trimmed(Newest(Append(tracks[<<f.src, f.dst>>], f)), clock - BeaconSpan)

-----------------------------------------------------------------------------
(* The detectors: the alerts a queue calls for, cooldowns aside.           *)

Alert(cls, subject, at, q) == [key |-> <<cls, subject>>, at |-> at, from |-> q]

Hosts(q) == {f.dst : f \in Range(q)}

\* Mutant: the scan detector reads the pipeline's clock, as the others do.
Scan_byNow(s, q) ==
    IF Cardinality(Hosts(q)) < ScanHosts THEN {}
    ELSE {Alert("port_scan", s, now, q)}

\* Dated by the newest flow of the window, not by the clock.
Scan(s, q) ==
    IF Cardinality(Hosts(q)) < ScanHosts THEN {}
    ELSE {Alert("port_scan", s, Max({f.ts : f \in Range(q)}), q)}

FlowsTo(q, d) == {i \in DOMAIN q : q[i].dst = d}

\* The target that got most, of equals the one first contacted.
Best(q) ==
    LET big == {d \in Targets : Cardinality(FlowsTo(q, d)) >= ExfilFlows}
        Ahead(d, e) ==
            LET n == Cardinality(FlowsTo(q, d))
                m == Cardinality(FlowsTo(q, e))
            IN  n > m \/ (n = m /\ Min(FlowsTo(q, d)) <= Min(FlowsTo(q, e)))
    IN  {d \in big : \A e \in big : Ahead(d, e)}

Exfil(s, q, clock) == {Alert("exfiltration", <<s, d>>, clock, q) : d \in Best(q)}

\* Twice the median of a non-empty sequence, the mean of its middle two.
TwiceMedian(b) ==
    LET s == SortSeq(b, LAMBDA m, n : m < n)
    IN  s[(Len(s) + 1) \div 2] + s[Len(s) \div 2 + 1]

\* Mutant: a target without a baseline is compared with nothing.
Spiked_anyBase(q, b) ==
    2 * Len(q) >= Spike * Max({IF b = <<>> THEN 0 ELSE TwiceMedian(b), 2 * FloodSpan})

\* The rate is Spike times the median rate, which counts for no less than one
\* flow a second, of a target with samples enough.
Spiked(q, b) ==
    /\ Len(b) >= MinSamples
    /\ 2 * Len(q) >= Spike * Max({TwiceMedian(b), 2 * FloodSpan})

\* Volumetric, or application-layer.
Flooded(d, q, b) == d \in HalfOpen \/ Spiked(q, b)

Ddos(d, q, b, clock) ==
    IF Flooded(d, q, b) /\ Cardinality({f.src : f \in Range(q)}) >= FloodSources
    THEN {Alert("ddos", d, clock, q)} ELSE {}

\* Enough contacts at one period; contacts at one moment count as one.
Regular(q) ==
    LET gaps == SelectSeq([i \in 1..(Len(q) - 1) |-> q[i + 1].ts - q[i].ts],
                          LAMBDA g : g > 0)
    IN  /\ Len(q) >= BeaconHits
        /\ Len(gaps) >= BeaconHits - 1
        /\ Cardinality(Range(gaps)) <= 1

Beacon(p, q, clock) ==
    IF Regular(q) THEN {Alert("c2_beacon", p, clock, q)} ELSE {}

Recent(key, at) == Cooling(fired, key, at, Cooldown[key[1]])

\* _emit() itself is EmitPath's: here an alert only starts its cooldown. None
\* is raised while the last one of the same subject is too recent.
Emit(called) ==
    LET due == {a \in called : ~Recent(a.key, a.at)}
        keys == {a.key : a \in due}
        of(k) == CHOOSE a \in due : a.key = k
    IN  /\ fired' = [k \in DOMAIN fired \cup keys |->
                        IF k \in keys THEN of(k).at ELSE fired[k]]
        /\ grounds' = [k \in DOMAIN grounds \cup keys |->
                          IF k \in keys THEN of(k).from ELSE grounds[k]]

-----------------------------------------------------------------------------
(* One connection.                                                         *)

FloodCheck(f, clock) == Ddos(f.dst, Flood(f, clock), Baseline(f, clock), clock)

\* Mutant: beacons are checked at every fiftieth connection, as they once were.
Called_rarely(f, clock) ==
    LET n == count + 1
        q == Window(f, clock)
    IN  (IF Sampled(n, FloodEvery) THEN FloodCheck(f, clock) ELSE {})
        \cup (IF Sampled(n, FeatureEvery)
              THEN Beacon(<<f.src, f.dst>>, Track(f, clock), clock)
                   \cup Scan(f.src, q) \cup Exfil(f.src, q, clock)
              ELSE {})

\* Beacons are checked at every connection; floods, scans and exfiltrations
\* at some, and then only for the target or the source of this connection.
Called(f, clock) ==
    LET n == count + 1
        q == Window(f, clock)
    IN  (IF Sampled(n, FloodEvery) THEN FloodCheck(f, clock) ELSE {})
        \cup Beacon(<<f.src, f.dst>>, Track(f, clock), clock)
        \cup (IF Sampled(n, FeatureEvery)
              THEN Scan(f.src, q) \cup Exfil(f.src, q, clock) ELSE {})

\* evict_idle(): every 20000th connection, if its window is not empty. (The
\* aggregator's expire() that goes with it is EmitPath's.)
Quiet(seen, clock) == {s \in DOMAIN seen : seen[s] < clock - MaxIdle}

Dead(f, clock) ==
    IF /\ Sampled(count + 1, FeatureEvery) /\ Sampled(count + 1, EvictEvery)
       /\ Window(f, clock) # <<>>
    THEN Quiet(Put(lastSeen, f.src, f.ts), clock) ELSE {}

on_conn(f) ==
    LET clock == Max({now, f.ts})
        dead == Dead(f, clock)
        seen == Put(lastSeen, f.src, f.ts)
        kept == {s \in Sources : s \notin dead}
    IN  /\ now' = clock
        /\ count' = count + 1
        /\ held' = [s \in Sources |->
                       IF s \in dead THEN <<>>
                       ELSE IF s = f.src THEN Window(f, clock) ELSE held[s]]
        /\ arrived' = [s \in Sources |->
                          IF s \in dead THEN <<>>
                          ELSE IF s = f.src THEN Append(arrived[s], f)
                          ELSE arrived[s]]
        /\ lastSeen' = Restrict(seen, DOMAIN seen \cap kept)
        /\ floods' = [floods EXCEPT ![f.dst] = Flood(f, clock)]
        /\ baseline' = [baseline EXCEPT ![f.dst] = Baseline(f, clock)]
        /\ lastSample' = IF f.dst \in DOMAIN lastSample /\ ~SampleDue(f.dst, clock)
                         THEN lastSample ELSE Put(lastSample, f.dst, clock)
        /\ met' = IF f.dst \in DOMAIN met THEN met ELSE Put(met, f.dst, clock)
        /\ tracks' = [tracks EXCEPT ![<<f.src, f.dst>>] = Track(f, clock)]
        /\ Emit(Called(f, clock))

Connection ==
    /\ ~swept
    /\ count < MaxFlows
    /\ \E f \in Flow : on_conn(f)
    /\ UNCHANGED swept

\* Mutant: the sweep looks for scans only.
_final_sweep_scansOnly ==
    /\ ~swept
    /\ swept' = TRUE
    /\ Emit(UNION {Scan(s, held[s]) : s \in Sources})
    /\ UNCHANGED <<now, count, held, lastSeen, trackVars, arrived, met>>

\* At the end of the stream: scans and exfiltrations of every source held.
_final_sweep ==
    /\ ~swept
    /\ swept' = TRUE
    /\ Emit(UNION {Scan(s, held[s]) \cup Exfil(s, held[s], now) : s \in Sources})
    /\ UNCHANGED <<now, count, held, lastSeen, trackVars, arrived, met>>

Next == Connection \/ _final_sweep

Spec == Init /\ [][Next]_vars

-----------------------------------------------------------------------------
(* Safety.                                                                 *)

Queue == Seq(Flow)

\* Type invariant.
TypeOK ==
    /\ now \in Times \cup {0}
    /\ count \in 0..MaxFlows
    /\ held \in [Sources -> Queue]
    /\ DOMAIN lastSeen \subseteq Sources /\ Range(lastSeen) \subseteq Times
    /\ floods \in [Targets -> Queue]
    /\ baseline \in [Targets -> Seq(0..MaxFlows)]
    /\ \A d \in Targets : Len(baseline[d]) <= KeepSamples
    /\ DOMAIN lastSample \subseteq Targets /\ Range(lastSample) \subseteq Times
    /\ tracks \in [Pairs -> Queue]
    /\ \A p \in Pairs : Len(tracks[p]) <= Keep
    /\ DOMAIN fired \subseteq Classes \X (Sources \cup Targets \cup Pairs)
    /\ Range(fired) \subseteq Times
    /\ swept \in BOOLEAN

\* Until its source is forgotten, no flow that is still within the span of the
\* clock is lost from the window, in whatever order timestamps come and
\* whatever the other sources do to the clock; and what is held is the latest
\* that arrived, in that order.
NothingFreshIsLost ==
    \A s \in Sources :
        LET lost == Len(arrived[s]) - Len(held[s])
        IN  /\ held[s] = SubSeq(arrived[s], lost + 1, Len(arrived[s]))
            /\ \A i \in 1..lost : arrived[s][i].ts < now - Span

\* An application-layer flood is a departure from a history: no target whose
\* flows complete is reported before it was watched for MinSamples samples,
\* however its flows are timed.
SpikeHasHistory ==
    \A k \in DOMAIN fired :
        k[1] = "ddos" /\ k[2] \notin HalfOpen =>
            fired[k] - met[k[2]] >= MinSamples * SampleEvery

\* "On every connection, not every 50th": the contact that makes a track
\* regular is the one that raises the alert, or an alert is recent.
BeaconSeenAtOnce ==
    [][\A p \in Pairs :
          tracks'[p] # tracks[p] /\ Regular(tracks'[p]) =>
              LET key == <<"c2_beacon", p>>
              IN  key \in DOMAIN fired' /\ now' - fired'[key] < Cooldown["c2_beacon"]]_vars

\* After the final sweep nothing the window shows has gone unreported, also if
\* sampling never fell on a connection of its source: every source that looks
\* like a scanner, and the best target of every source, has a recent alert.
SweepLeavesNothing ==
    swept =>
        \A s \in Sources : \A a \in Scan(s, held[s]) \cup Exfil(s, held[s], now) :
            Recent(a.key, a.at)

\* Alerts of one class are not raised twice on the same flows.
NoneTwice(cls) ==
    \A k \in DOMAIN fired :
        k[1] = cls /\ fired'[k] # fired[k] => grounds'[k] # grounds[k]

\* A scan is dated by its own flows, so even the final sweep, which may find a
\* window just as the last alert left it, does not report it again.
NoScanTwice == [][NoneTwice("port_scan")]_vars

\* "Cooldowns still apply, so anything already reported does not re-fire."
NoExfilTwice == [][NoneTwice("exfiltration")]_vars
=============================================================================
