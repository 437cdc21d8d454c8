------------------------------ MODULE Handlers ------------------------------
(***************************************************************************)
(* The pipeline's three handlers on one stream of records, as run() of     *)
(* src/pipeline.py calls them, and the trace the feeder keeps of that      *)
(* stream (dashboard/replay.py with trace=1), to which scripts/latency.py  *)
(* joins the alerts later.                                                 *)
(*                                                                         *)
(* The handlers have no state in common, so records of several kinds may   *)
(* come in any order: within a log Zeek writes when a connection closes,   *)
(* so timestamps go back and forth, and between logs the merge orders them *)
(* as far as it can (Merge).                                               *)
(*                                                                         *)
(* The feeder flushes a record, and only then takes the wall time that the *)
(* trace shows for it. The pipeline may have read the record and raised an *)
(* alert by then. What a longer backlog does is put the alert later.       *)
(***************************************************************************)
EXTENDS ConnPath, DnsPath, TlsPath, Latency

CONSTANT Streams   \* bound: how many records of each kind a stream has

ASSUME HandlersAssumption ==
    Streams \subseteq [conn : 0..MaxFlows, blank : Nat,
                       dns : 0..MaxQueries, ssl : 0..MaxSessions]

VARIABLES
    stream,   \* the records this stream has
    trace,    \* FEED_TRACE: what was fed, in order
    stamps,   \* how many of those the feeder has stamped
    blanks,   \* history: the connections among them that name no source
    raised    \* history: class and time of each alert, the record it was
              \* raised by, and the stamps there were by then

feedVars == <<stream, trace, stamps, blanks, raised>>
handlerVars == <<vars, dnsVars, tlsVars, feedVars>>

HandlersInit ==
    /\ Init /\ DnsInit /\ TlsInit
    /\ stream \in Streams
    /\ trace = <<>>
    /\ stamps = 0
    /\ blanks = {}
    /\ raised = {}

-----------------------------------------------------------------------------

\* The next record is flushed, and stamped before or after it is handled.
Fed(kind, ts) ==
    /\ stamps = Len(trace)
    /\ trace' = Append(trace, [kind |-> kind, ts |-> ts])
    /\ stamps' \in {Len(trace), Len(trace')}

Stamp ==
    /\ stamps < Len(trace)
    /\ stamps' = Len(trace)
    /\ UNCHANGED <<vars, dnsVars, tlsVars, stream, trace, blanks, raised>>

\* detected_at: raised while the newest record of the trace is handled.
Raise(alerts) ==
    raised' = raised \cup {[class |-> a.class, ts |-> a.ts, by |-> Len(trace'),
                            at |-> stamps'] : a \in alerts}

\* What a step has added to a sequence of alerts, and to the detectors'
\* last_fired.
Added(alerts, before) == {alerts[i] : i \in DOMAIN alerts \ DOMAIN before}

FiredNow ==
    {[class |-> k[1], ts |-> fired'[k]] :
        k \in {k \in DOMAIN fired' : k \notin DOMAIN fired \/ fired'[k] # fired[k]}}

HandleConn ==
    /\ ~swept
    /\ count < stream.conn
    /\ \E f \in Flow : on_conn(f) /\ Fed("conn", f.ts)
    /\ Raise(FiredNow)
    /\ UNCHANGED <<swept, dnsVars, tlsVars, stream, blanks>>

\* if not f.src: return. The trace has the record, and no detector's clock.
HandleBlank ==
    /\ ~swept
    /\ Cardinality(blanks) < stream.blank
    /\ \E ts \in Times : Fed("conn", ts)
    /\ blanks' = blanks \cup {Len(trace')}
    /\ UNCHANGED <<vars, dnsVars, tlsVars, stream, raised>>

HandleDns ==
    /\ ~swept
    /\ dnsCount < stream.dns
    /\ \E l \in Lookups, ts \in QueryTimes :
        /\ on_dns([src |-> l.src, name |-> l.name, local |-> l.local, ts |-> ts])
        /\ Fed("dns", ts)
    /\ Raise(Added(dnsAlerts', dnsAlerts))
    /\ UNCHANGED <<vars, tlsVars, stream, blanks>>

HandleSsl ==
    /\ ~swept
    /\ seenSessions < stream.ssl
    /\ \E s \in Sessions, ts \in SessionTimes :
        /\ on_ssl([src |-> s.src, dst |-> s.dst, ja4 |-> s.ja4,
                   flags |-> s.flags, ts |-> ts])
        /\ Fed("ssl", ts)
    /\ Raise(Added(tlsAlerts', tlsAlerts))
    /\ UNCHANGED <<vars, dnsVars, stream, blanks>>

\* The stream may end at any record. There is a sweep for connections only.
EndOfStream ==
    /\ _final_sweep
    /\ UNCHANGED <<trace, stamps>>
    /\ Raise(FiredNow)
    /\ UNCHANGED <<dnsVars, tlsVars, stream, blanks>>

HandlersNext ==
    HandleConn \/ HandleBlank \/ HandleDns \/ HandleSsl \/ EndOfStream \/ Stamp

HandlersSpec == HandlersInit /\ [][HandlersNext]_handlerVars

-----------------------------------------------------------------------------
(* Safety.                                                                 *)

\* Type invariant, with those of the three paths.
HandlersTypeOK ==
    /\ TypeOK /\ DnsTypeOK /\ TlsTypeOK
    /\ stream \in Streams
    /\ trace \in Seq([kind : {"conn", "dns", "ssl"}, ts : Nat])
    /\ stamps \in (Len(trace) - 1)..Len(trace)
    /\ blanks \subseteq OfKind(trace, "conn")
    /\ raised \subseteq [class : DOMAIN KIND_OF, ts : Nat, by : Nat, at : Nat]

\* Detectors that date an alert by their clock; the others take the time of a
\* record.
ByTheClock == {"ddos", "exfiltration", "c2_beacon", "dns_tunnel"}

\* The records that moved the clock of a log's detectors. Those that name no
\* source did not, though the trace shows that they were fed.
Moves(kind) ==
    {i \in OfKind(trace, kind) \ blanks :
        \A j \in OfKind(trace, kind) \ blanks : j < i => trace[j].ts < trace[i].ts}

\* The join finds every alert's moment, on the trace as it is then and however
\* it goes on, and none that came after the alert, though records with earlier
\* times are fed later: a latency is negative only by what passes between the
\* flush and the stamp of the very record that raised the alert. Of an alert
\* dated by its detector's clock the moment is that of the last record that had
\* moved the clock, so none of its latency was spent before that record was
\* there, unless a connection without a source had taken the trace that far.
LatencyIsSound ==
    \A a \in raised :
        LET kind == KIND_OF[a.class]
            fed == fed_at(trace, kind, a.ts)
            moved == Max({i \in Moves(kind) : i <= a.by})
        IN  /\ fed # NotFed
            /\ fed <= a.at \/ fed = a.by
            /\ a.class \in ByTheClock =>
                  fed = moved \/ (fed < moved /\ fed \in blanks)
=============================================================================
