----------------------------- MODULE Aggregator -----------------------------
(***************************************************************************)
(* IncidentAggregator of src/alerts/aggregator.py: alerts about the same   *)
(* situation are folded into one incident, incidents that go quiet are     *)
(* closed and reopened when they resume, and add() says whether anything   *)
(* changed that is worth storing.                                          *)
(*                                                                         *)
(* Confidences are percentages. Of an alert's evidence the model keeps the *)
(* part incident_key() reads (tag: target_port or ja4) and the domain; of  *)
(* an incident's evidence the list of domains, as a set.                   *)
(***************************************************************************)
EXTENDS Integers, Sequences, FiniteSets

CONSTANTS
    Subjects,      \* who and what alerts are about: cls, src, dst, tag, dom
    Times,         \* traffic-clock timestamps of alerts
    Confidences,   \* their confidences
    IdleClose,     \* idle_close
    UpdateEvery,   \* update_every
    Jump,          \* confidence_jump
    MaxAlerts      \* bound: alerts per run of the pipeline

\* No tag in the evidence, or no domain.
Nothing == ""

\* What counts as the same situation: the target for a flood, whose sources
\* are many; otherwise the source, with the destination where one is meant.
incident_key(a) ==
    CASE a.cls = "ddos" -> <<a.cls, a.dst, a.tag>>
      [] a.cls = "encrypted_malware" ->
            <<a.cls, a.src, IF a.tag = Nothing THEN "no-fingerprint" ELSE a.tag>>
      [] a.cls \in {"exfiltration", "c2_beacon", "dns_tunnel"} ->
            <<a.cls, a.src, a.dst>>
      [] OTHER -> <<a.cls, a.src, Nothing>>

Keys == {incident_key(s) : s \in Subjects}
Domains == {s.dom : s \in Subjects} \ {Nothing}

ASSUME AggregatorAssumption ==
    /\ Times \subseteq Nat /\ Confidences \subseteq 0..100
    /\ IdleClose \in Nat /\ UpdateEvery \in Nat \ {0} /\ Jump \in Nat \ {0}
    /\ MaxAlerts \in Nat

severity_for(confidence) ==
    CASE confidence >= 90 -> "critical"
      [] confidence \in 75..89 -> "high"
      [] confidence \in 55..74 -> "medium"
      [] confidence \in 35..54 -> "low"
      [] OTHER -> "info"

Severities == {"critical", "high", "medium", "low", "info"}

VARIABLES
    now,       \* newest alert timestamp
    inc,       \* _by_key: every incident of this run, by key
    open,      \* keys of the open table
    closed,    \* keys of the closed list
    lastEmit,  \* _last_emit: when each open incident was last reported
    event,     \* what the last add() returned
    fed,       \* history: alerts added
    hist       \* history, per key: how many, newest, top confidence, domains

aggVars == <<now, inc, open, closed, lastEmit, event, fed, hist>>

\* d[key] = value on a dict that may not have the key yet.
Put(d, key, value) ==
    [k \in DOMAIN d \cup {key} |-> IF k = key THEN value ELSE d[k]]

Larger(a, b) == IF a >= b THEN a ELSE b

\* Mutant: evidence without a domain counts as a domain.
DomainOf_unchecked(a) == {a.dom}

DomainOf(a) == {a.dom} \ {Nothing}

AggInit ==
    /\ now = 0
    /\ inc = <<>>
    /\ open = {}
    /\ closed = {}
    /\ lastEmit = <<>>
    /\ event = "none"
    /\ fed = 0
    /\ hist = [k \in Keys |-> [n |-> 0, newest |-> 0, top |-> 0, doms |-> {}]]

\* The aggregator of a new process.
AggReset ==
    /\ now' = 0
    /\ inc' = <<>>
    /\ open' = {}
    /\ closed' = {}
    /\ lastEmit' = <<>>
    /\ event' = "none"
    /\ fed' = 0
    /\ hist' = [k \in Keys |-> [n |-> 0, newest |-> 0, top |-> 0, doms |-> {}]]

-----------------------------------------------------------------------------
(* add(), for an alert [sub, ts, conf] with sub in Subjects.               *)

\* History: the alert counts; top is the top confidence from now on.
Record(a, key, top) ==
    /\ fed' = fed + 1
    /\ hist' = [hist EXCEPT ![key] =
          [n |-> @.n + 1,
           newest |-> Larger(@.newest, a.ts),
           top |-> top,
           doms |-> @.doms \cup DomainOf(a.sub)]]

Observe(a) == now' = Larger(now, a.ts)

\* Mutant: a new peak drops the domains gathered before it.
Noted_dropsDomains(i, a, peak) ==
    [first |-> i.first, last |-> a.ts, count |-> i.count + 1, peak |-> peak,
     severity |-> IF peak > i.peak THEN severity_for(peak) ELSE i.severity,
     domains |-> IF peak > i.peak THEN DomainOf(a.sub)
                                  ELSE i.domains \cup DomainOf(a.sub),
     status |-> "open"]

\* Mutant: the severity of the first alert stays.
Noted_keepsSeverity(i, a, peak) ==
    [first |-> i.first, last |-> a.ts, count |-> i.count + 1, peak |-> peak,
     severity |-> i.severity, domains |-> i.domains \cup DomainOf(a.sub),
     status |-> "open"]

\* What an existing incident notes of an alert. A new peak replaces the
\* evidence and sets the severity, and carries the domains over.
Noted(i, a, peak) ==
    [first |-> i.first,
     last |-> a.ts,
     count |-> i.count + 1,
     peak |-> peak,
     severity |-> IF peak > i.peak THEN severity_for(peak) ELSE i.severity,
     domains |-> i.domains \cup DomainOf(a.sub),
     status |-> "open"]

AddNew(a, key) ==
    /\ key \notin open
    /\ key \notin DOMAIN inc
    /\ inc' = Put(inc, key,
          [first |-> a.ts, last |-> a.ts, count |-> 1, peak |-> a.conf,
           severity |-> severity_for(a.conf), domains |-> DomainOf(a.sub),
           status |-> "open"])
    /\ open' = open \cup {key}
    /\ lastEmit' = Put(lastEmit, key, a.ts)
    /\ event' = "new"
    /\ Record(a, key, Larger(hist[key].top, a.conf))
    /\ UNCHANGED closed

\* Mutant: a reopened incident stays in the closed list.
Reopen_staysClosed(a, key) ==
    /\ key \notin open
    /\ key \in DOMAIN inc
    /\ inc[key].status = "closed"
    /\ inc' = [inc EXCEPT ![key] = Noted(@, a, @.peak)]
    /\ open' = open \cup {key}
    /\ lastEmit' = Put(lastEmit, key, a.ts)
    /\ event' = "update"
    /\ Record(a, key, hist[key].top)
    /\ UNCHANGED closed

\* Mutant: a reopened incident starts anew.
Reopen_startsAnew(a, key) ==
    /\ key \notin open
    /\ key \in DOMAIN inc
    /\ inc[key].status = "closed"
    /\ inc' = [inc EXCEPT ![key] = [Noted(@, a, @.peak) EXCEPT !.first = a.ts]]
    /\ open' = open \cup {key}
    /\ closed' = closed \ {key}
    /\ lastEmit' = Put(lastEmit, key, a.ts)
    /\ event' = "update"
    /\ Record(a, key, hist[key].top)

\* Mutant: a reopened incident restarts its count.
Reopen_restartsCount(a, key) ==
    /\ key \notin open
    /\ key \in DOMAIN inc
    /\ inc[key].status = "closed"
    /\ inc' = [inc EXCEPT ![key] = [Noted(@, a, @.peak) EXCEPT !.count = 1]]
    /\ open' = open \cup {key}
    /\ closed' = closed \ {key}
    /\ lastEmit' = Put(lastEmit, key, a.ts)
    /\ event' = "update"
    /\ Record(a, key, hist[key].top)

\* The situation resumes: the incident keeps its history. Only its time, its
\* count and its domains take note of the alert.
Reopen(a, key) ==
    /\ key \notin open
    /\ key \in DOMAIN inc
    /\ inc[key].status = "closed"
    /\ inc' = [inc EXCEPT ![key] = Noted(@, a, @.peak)]
    /\ open' = open \cup {key}
    /\ closed' = closed \ {key}
    /\ lastEmit' = Put(lastEmit, key, a.ts)
    /\ event' = "update"
    /\ Record(a, key, hist[key].top)

Jumped(a, key) == a.conf >= inc[key].peak + Jump

\* Mutant: an update is due only after update_every.
Due_after(a, key) == a.ts - lastEmit[key] > UpdateEvery

Due(a, key) == a.ts - lastEmit[key] >= UpdateEvery

AddToOpen(a, key) ==
    /\ key \in open
    /\ inc' = [inc EXCEPT ![key] = Noted(@, a, Larger(@.peak, a.conf))]
    /\ IF Jumped(a, key) \/ Due(a, key)
       THEN event' = "update" /\ lastEmit' = [lastEmit EXCEPT ![key] = a.ts]
       ELSE event' = "none" /\ UNCHANGED lastEmit
    /\ Record(a, key, Larger(hist[key].top, a.conf))
    /\ UNCHANGED <<open, closed>>

Add(a) ==
    LET key == incident_key(a.sub)
    IN  /\ Observe(a)
        /\ AddNew(a, key) \/ Reopen(a, key) \/ AddToOpen(a, key)

-----------------------------------------------------------------------------
(* expire(), called with the aggregator's own clock.                       *)

Quiet(key) == now - inc[key].last > IdleClose

Expire ==
    LET dead == {k \in open : Quiet(k)}
    IN  /\ inc' = [k \in DOMAIN inc |->
                      IF k \in dead THEN [inc[k] EXCEPT !.status = "closed"]
                                    ELSE inc[k]]
        /\ open' = open \ dead
        /\ closed' = closed \cup dead
        /\ lastEmit' = [k \in DOMAIN lastEmit \ dead |-> lastEmit[k]]
        /\ UNCHANGED <<now, event, fed, hist>>

Alerts == [sub : Subjects, ts : Times, conf : Confidences]

AggNext == \/ fed < MaxAlerts /\ \E a \in Alerts : Add(a)
           \/ Expire

AggSpec == AggInit /\ [][AggNext]_aggVars

-----------------------------------------------------------------------------
(* Safety.                                                                 *)

Incident == [first : Nat, last : Nat, count : Nat, peak : 0..100,
             severity : Severities, domains : SUBSET Domains,
             status : {"open", "closed"}]

\* Type invariant.
AggTypeOK ==
    /\ now \in Nat
    /\ DOMAIN inc \subseteq Keys
    /\ \A k \in DOMAIN inc : inc[k] \in Incident
    /\ open \subseteq Keys
    /\ closed \subseteq Keys
    /\ \A k \in DOMAIN lastEmit : lastEmit[k] \in Nat
    /\ event \in {"none", "new", "update"}
    /\ fed \in Nat
    /\ hist \in [Keys -> [n : Nat, newest : Nat, top : 0..100,
                          doms : SUBSET Domains]]

\* The four tables agree: every incident is either in the open table or in the
\* closed list, its status says which, and exactly the open ones have a time
\* of last report.
TablesAgree ==
    /\ open \cap closed = {}
    /\ open \cup closed = DOMAIN inc
    /\ \A k \in DOMAIN inc : inc[k].status = "open" <=> k \in open
    /\ DOMAIN lastEmit = open

\* No alert is dropped from the history or counted twice, across closing,
\* reopening and replacing the evidence: an incident counts the alerts with
\* its key, and lists every domain they named.
HistoryKept ==
    \A k \in Keys :
        IF k \in DOMAIN inc
        THEN inc[k].count = hist[k].n /\ inc[k].domains = hist[k].doms
        ELSE hist[k].n = 0

\* The severity shown is that of the peak, and the peak is the highest
\* confidence of the alerts folded in while the incident was open (the alert
\* that reopens an incident is not weighed).
SeverityOfPeak ==
    \A k \in DOMAIN inc :
        /\ inc[k].peak = hist[k].top
        /\ inc[k].severity = severity_for(inc[k].peak)

\* add() answers None only while the last report is younger than update_every:
\* what was stored last is never older than that on the traffic clock.
ReportedInTime ==
    \A k \in open : inc[k].last - lastEmit[k] < UpdateEvery

\* An incident keeps its history: its start stays, and its count, its peak and
\* its domains never shrink, also when it is closed and resumes.
NeverShrinks ==
    [][\A k \in DOMAIN inc :
          /\ k \in DOMAIN inc'
          /\ inc'[k].first = inc[k].first
          /\ inc'[k].count >= inc[k].count
          /\ inc'[k].peak >= inc[k].peak
          /\ inc[k].domains \subseteq inc'[k].domains]_aggVars
=============================================================================
