------------------------------ MODULE DnsPath -------------------------------
(***************************************************************************)
(* Pipeline.on_dns() of src/pipeline.py and the DNSDetector it calls       *)
(* (detectors/dns_threat.py): generated domains, scored once per domain    *)
(* and reported once per process, and tunnels, looked for at every tenth   *)
(* query in the queries its source made lately.                            *)
(*                                                                         *)
(* A name is the sequence of its labels. The classifier is a table of      *)
(* verdicts over labels. The length and entropy a tunnel's subdomains must *)
(* have are taken as met: what is kept is how many there are of which      *)
(* domain.                                                                 *)
(***************************************************************************)
EXTENDS Window

CONSTANTS
    Lookups,      \* the queries made: [src, name, local]
    NoSource,     \* the source of a record without one
    QueryTimes,
    Verdict,      \* [label of five letters or more -> verdict]
    SecondLevel,  \* COMMON_TLDS of at most three letters, such as "co"
    LocalTlds,    \* LOCAL_TLDS, "arpa" and what is not a word
    QuerySpan,    \* of the tunnel window
    TunMin,       \* queries that make a tunnel
    TunCooldown,
    TunEvery,     \* queries per check for a tunnel
    MaxQueries    \* bound: queries read

Verdicts == {"clean", "observe", "alert"}
Askers == {l.src : l \in Lookups} \ {NoSource}

\* local is a record of a NetBIOS type.
ASSUME DnsAssumption ==
    /\ \A l \in Lookups : l.name \in Seq(STRING) /\ l.local \in BOOLEAN
    /\ QueryTimes \subseteq Nat
    /\ {QuerySpan, MaxQueries} \subseteq Nat
    /\ {TunMin, TunCooldown, TunEvery} \subseteq Nat \ {0}
    /\ Verdict \in [DOMAIN Verdict -> Verdicts]

VARIABLES
    dnsNow,         \* the detector's clock
    dnsCount,       \* counts["dns"]
    bySrc,          \* by_src: the tunnel window of each source
    seenDomain,     \* seen_domain: the verdict on each domain scored
    alertedDomain,  \* alerted_domain
    tunFired,       \* tun_fired: when each source and domain was reported
    dnsAlerts,      \* history: the alerts raised, in order
    asked           \* history: the queries read, in order

dnsVars == <<dnsNow, dnsCount, bySrc, seenDomain, alertedDomain, tunFired,
             dnsAlerts, asked>>

DnsInit ==
    /\ dnsNow = 0
    /\ dnsCount = 0
    /\ bySrc = [s \in Askers |-> <<>>]
    /\ seenDomain = <<>>
    /\ alertedDomain = {}
    /\ tunFired = <<>>
    /\ dnsAlerts = <<>>
    /\ asked = <<>>

-----------------------------------------------------------------------------
(* Names.                                                                  *)

parent_domain(name) ==
    IF Len(name) >= 2 THEN SubSeq(name, Len(name) - 1, Len(name)) ELSE name

subdomain_part(name) == SubSeq(name, 1, Len(name) - 2)

\* The label split_domain() takes to be chosen by the name's owner. Names like
\* foo.co.uk are stepped into once more, but those the detector passes have
\* two labels.
split_domain(name) ==
    LET n == Len(name)
    IN  CASE n = 0 -> ""
          [] n = 1 -> name[1]
          [] n >= 3 /\ name[n - 1] \in SecondLevel -> name[n - 2]
          [] OTHER -> name[n - 1]

-----------------------------------------------------------------------------
(* Generated domains.                                                      *)

\* Neither a local name nor one of a single label.
Public(q) ==
    /\ Len(q.name) >= 2
    /\ q.name[Len(q.name)] \notin LocalTlds
    /\ ~q.local

\* "none" is not kept: such a domain is scored at every query.
score_domain(name) ==
    LET label == split_domain(name)
    IN  IF label \in DOMAIN Verdict THEN Verdict[label] ELSE "none"

Scored(parent) ==
    IF parent \in DOMAIN seenDomain THEN seenDomain[parent]
                                    ELSE score_domain(parent)

DgaAlert(q) == [class |-> "dga_domain", src |-> q.src, dst |-> parent_domain(q.name),
                ts |-> q.ts]

Reported(q) ==
    LET parent == parent_domain(q.name)
    IN  /\ Public(q)
        /\ Scored(parent) \in {"observe", "alert"}
        /\ parent \notin alertedDomain

\* Mutant: a domain is marked as reported for alerts only, not in the band
\* below.
check_domain_observeAgain(q) ==
    LET parent == parent_domain(q.name)
    IN  /\ seenDomain' = IF Public(q) /\ Scored(parent) # "none"
                         THEN Put(seenDomain, parent, Scored(parent))
                         ELSE seenDomain
        /\ alertedDomain' = IF Reported(q) /\ Scored(parent) = "alert"
                            THEN alertedDomain \cup {parent} ELSE alertedDomain

check_domain(q) ==
    LET parent == parent_domain(q.name)
    IN  /\ seenDomain' = IF Public(q) /\ Scored(parent) # "none"
                         THEN Put(seenDomain, parent, Scored(parent))
                         ELSE seenDomain
        /\ alertedDomain' = IF Reported(q) THEN alertedDomain \cup {parent}
                                           ELSE alertedDomain

-----------------------------------------------------------------------------
(* Tunnels.                                                                *)

add_query(q, clock) ==
    IF q.src = NoSource THEN bySrc
    ELSE [bySrc EXCEPT ![q.src] = Trimmed(Append(@, q), clock - QuerySpan)]

Below(q, parent) == {i \in DOMAIN q : parent_domain(q[i].name) = parent}

\* Counter.most_common(1): of equals, the first met.
TopParent(q) ==
    CHOOSE p \in {parent_domain(e.name) : e \in Range(q)} :
        \A o \in {parent_domain(e.name) : e \in Range(q)} :
            LET n == Cardinality(Below(q, p))
                m == Cardinality(Below(q, o))
            IN  n > m \/ (n = m /\ Min(Below(q, p)) <= Min(Below(q, o)))

\* The domain that a share of 0.6 of enough queries goes to, half of the
\* number that is enough with a subdomain.
Tunnelled(q) ==
    LET below == Below(q, TopParent(q))
        subs == {i \in below : subdomain_part(q[i].name) # <<>>}
    IN  /\ 10 * Cardinality(below) >= 6 * Len(q)
        /\ Cardinality(subs) >= TunMin \div 2

\* The tunnel to report of a source, if there is one.
check_tunnel(src, q, clock) ==
    IF /\ Len(q) >= TunMin
       /\ Tunnelled(q)
       /\ ~Cooling(tunFired, <<src, TopParent(q)>>, clock, TunCooldown)
    THEN <<TopParent(q)>> ELSE <<>>

TunAlert(src, top, clock) ==
    [class |-> "dns_tunnel", src |-> src, dst |-> top, ts |-> clock]

-----------------------------------------------------------------------------

on_dns(q) ==
    LET clock == Max({dnsNow, q.ts})
        windows == add_query(q, clock)
        tunnels == IF q.src # NoSource /\ Sampled(dnsCount + 1, TunEvery)
                   THEN check_tunnel(q.src, windows[q.src], clock) ELSE <<>>
        reported == {q.src} \X Range(tunnels)
    IN  /\ dnsNow' = clock
        /\ dnsCount' = dnsCount + 1
        /\ bySrc' = windows
        /\ tunFired' = [k \in DOMAIN tunFired \cup reported |->
                        IF k \in reported THEN clock ELSE tunFired[k]]
        /\ check_domain(q)
        /\ dnsAlerts' = dnsAlerts
                        \o [i \in DOMAIN tunnels |-> TunAlert(q.src, tunnels[i], clock)]
                        \o (IF Reported(q) THEN <<DgaAlert(q)>> ELSE <<>>)
        /\ asked' = Append(asked, q)

-----------------------------------------------------------------------------
(* Safety.                                                                 *)

DnsQuery == [src : Askers \cup {NoSource}, name : {l.name : l \in Lookups},
             local : BOOLEAN, ts : QueryTimes]
Parents == {parent_domain(l.name) : l \in Lookups}

\* Type invariant.
DnsTypeOK ==
    /\ dnsNow \in QueryTimes \cup {0}
    /\ dnsCount \in 0..MaxQueries
    /\ bySrc \in [Askers -> Seq(DnsQuery)]
    /\ \A s \in Askers : \A q \in Range(bySrc[s]) : q.src = s
    /\ DOMAIN seenDomain \subseteq Parents /\ Range(seenDomain) \subseteq Verdicts
    /\ alertedDomain \subseteq DOMAIN seenDomain
    /\ DOMAIN tunFired \subseteq Askers \X Parents
    /\ Range(tunFired) \subseteq QueryTimes
    /\ Len(asked) = dnsCount

\* Every domain whose label the classifier suspects, in either band, is
\* reported exactly once in the life of the process: at the first public query
\* for any name under it, whoever asks, and to the name of who asks. Neither
\* the cache of scores nor a query that is none of its business changes that.
DomainsReportedOnce ==
    \A p \in Parents :
        LET askedFor == {i \in DOMAIN asked :
                            Public(asked[i]) /\ parent_domain(asked[i].name) = p}
            suspect == p # <<>> /\ p[1] \in DOMAIN Verdict /\ Verdict[p[1]] # "clean"
            reports == {j \in DOMAIN dnsAlerts :
                           dnsAlerts[j].class = "dga_domain" /\ dnsAlerts[j].dst = p}
        IN  IF suspect /\ askedFor # {}
            THEN \E j \in reports :
                    reports = {j} /\ dnsAlerts[j] = DgaAlert(asked[Min(askedFor)])
            ELSE reports = {}
=============================================================================
