--------------------------- MODULE HandlersProofs ---------------------------
(***************************************************************************)
(* The pipeline's handlers together, for any mix of records: what is       *)
(* proved of connections alone in ConnPathProofs holds next to the other   *)
(* two paths, a TLS client is called rare exactly as often as configured,  *)
(* a generated domain is reported exactly once, and the trace of what was  *)
(* fed has the moment of every alert.                                      *)
(***************************************************************************)
EXTENDS Handlers, ConnPathProofs

-----------------------------------------------------------------------------
(* Connections.                                                            *)

\* A stream has no more records than the paths are bounded by.
LEMMA StreamBounds ==
  ASSUME stream \in Streams
  PROVE  /\ stream.conn \in 0..MaxFlows /\ MaxFlows \in Nat
         /\ stream.dns \in 0..MaxQueries /\ MaxQueries \in Nat
         /\ stream.ssl \in 0..MaxSessions /\ MaxSessions \in Nat
<1>1. stream \in [conn : 0..MaxFlows, blank : Nat,
                   dns : 0..MaxQueries, ssl : 0..MaxSessions]
  BY HandlersAssumption
<1>2. MaxFlows \in Nat /\ MaxQueries \in Nat /\ MaxSessions \in Nat
  BY ConnAssumption, DnsAssumption, TlsAssumption
<1> QED
  BY <1>1, <1>2

\* To the connections a step of the handlers is a step of their own, or none.
LEMMA StepOfConnections ==
  ASSUME TypeInv, stream \in Streams, [HandlersNext]_handlerVars
  PROVE  [Next]_vars /\ stream' \in Streams
<1>1. CASE HandleConn
  <2>1. count < MaxFlows
    <3>1. count < stream.conn /\ count \in Nat
      BY <1>1 DEF HandleConn, TypeInv, TypeOK
    <3> QED
      BY <3>1, StreamBounds
  <2> QED
    BY <1>1, <2>1 DEF HandleConn, Next, Connection
<1>2. CASE EndOfStream
  BY <1>2 DEF EndOfStream, Next
<1>3. CASE HandleBlank \/ HandleDns \/ HandleSsl \/ Stamp \/ UNCHANGED handlerVars
  BY <1>3 DEF HandleBlank, HandleDns, HandleSsl, Stamp, handlerVars, feedVars
<1> QED
  BY <1>1, <1>2, <1>3 DEF HandlersNext

ConnInv == IInv /\ TypeInv /\ stream \in Streams

LEMMA HandlersKeepConnections == ConnInv /\ [HandlersNext]_handlerVars => ConnInv'
  BY StepOfConnections, NextPreserves, NextKeepsTypes DEF ConnInv

\* The pipeline's handlers do with connections what on_conn() and the final
\* sweep do alone: queries and TLS sessions between them change nothing.
THEOREM HandlersImplementConnections == HandlersSpec => Spec
<1>1. HandlersInit => ConnInv /\ Init
  BY InitEstablishes, TypeInit DEF HandlersInit, ConnInv
<1>2. ConnInv /\ [HandlersNext]_handlerVars => [Next]_vars
  BY StepOfConnections DEF ConnInv
<1> QED
  BY <1>1, <1>2, HandlersKeepConnections, PTL DEF HandlersSpec, Spec

-----------------------------------------------------------------------------
(* TLS sessions.                                                           *)

Seen(sessions, f, n) == {j \in 1..n : sessions[j].ja4 = f}

Judgement == [ja4 : {s.ja4 : s \in Sessions},
              as : {"no_fingerprint", "known", "rare", "unrecognised"}]

\* The counters are those of the sessions judged.
TlsInv ==
    /\ judged \in Seq(Judgement)
    /\ Len(judged) = seenSessions
    /\ fpCounts \in [Fingerprints -> Nat]
    /\ \A f \in Fingerprints :
          fpCounts[f] = Cardinality(Seen(judged, f, Len(judged)))
    /\ RareFewTimes

LEMMA TlsInitEstablishes == TlsInit => TlsInv
<1> SUFFICES ASSUME TlsInit
             PROVE  TlsInv
  OBVIOUS
<1>1. judged = <<>> /\ seenSessions = 0 /\ fpCounts = [f \in Fingerprints |-> 0]
  BY DEF TlsInit
<1>2. \A f \in Fingerprints : Seen(judged, f, Len(judged)) = {}
  BY <1>1 DEF Seen
<1>3. RareFewTimes
  BY <1>1 DEF RareFewTimes
<1>4. judged \in Seq(Judgement) /\ Len(judged) = seenSessions
  BY <1>1, EmptySeq
<1>5. fpCounts \in [Fingerprints -> Nat]
  BY <1>1
<1>6. Cardinality({}) = 0
  BY FS_EmptySet
<1>7. \A f \in Fingerprints :
         fpCounts[f] = Cardinality(Seen(judged, f, Len(judged)))
  BY <1>1, <1>2, <1>6
<1> QED
  BY <1>3, <1>4, <1>5, <1>7 DEF TlsInv

LEMMA IdentityIsOne ==
  ASSUME NEW s
  PROVE  Identity(s) \in {"no_fingerprint", "known", "rare", "unrecognised"}
  BY DEF Identity

\* One session more.
LEMMA SeenGrows ==
  ASSUME NEW p \in Seq(Judgement), NEW e \in Judgement, NEW f
  PROVE  LET n == Len(p)
             q == Append(p, e)
         IN  /\ \A i \in 1..n : Seen(q, f, i) = Seen(p, f, i)
             /\ Cardinality(Seen(p, f, n)) \in Nat
             /\ Cardinality(Seen(q, f, n + 1)) =
                  IF e.ja4 = f THEN Cardinality(Seen(p, f, n)) + 1
                               ELSE Cardinality(Seen(p, f, n))
<1> DEFINE n == Len(p)
           q == Append(p, e)
<1>1. /\ n \in Nat
      /\ \A i \in 1..n : q[i] = p[i]
      /\ q[n + 1] = e
  BY AppendProperties, LenProperties
<1> HIDE DEF n, q
<1>2. \A i \in 1..n : Seen(q, f, i) = Seen(p, f, i)
  BY <1>1 DEF Seen
<1>3. IsFiniteSet(Seen(p, f, n))
  <2>1. IsFiniteSet(1..n)
    BY <1>1, FS_Interval
  <2>2. Seen(p, f, n) \in SUBSET (1..n)
    BY DEF Seen
  <2> QED
    BY <2>1, <2>2, FS_Subset
<1>4. Seen(q, f, n + 1) = IF e.ja4 = f THEN Seen(p, f, n) \cup {n + 1}
                                       ELSE Seen(p, f, n)
  <2>1. 1..(n + 1) = (1..n) \cup {n + 1}
    BY <1>1
  <2> QED
    BY <1>1, <2>1 DEF Seen
<1>5. n + 1 \notin Seen(p, f, n)
  BY <1>1 DEF Seen
<1>6. Cardinality(Seen(p, f, n) \cup {n + 1}) = Cardinality(Seen(p, f, n)) + 1
  BY <1>3, <1>5, FS_AddElement
<1>7. Cardinality(Seen(p, f, n)) \in Nat
  BY <1>3, FS_CardinalityType
<1> QED
  BY <1>2, <1>4, <1>6, <1>7 DEF n, q

LEMMA SessionKeepsTls ==
  ASSUME TlsInv, NEW s, s.ja4 \in {x.ja4 : x \in Sessions}, on_ssl(s)
  PROVE  TlsInv'
<1> DEFINE e == [ja4 |-> s.ja4, as |-> Identity(s)]
           n == Len(judged)
<1>1. /\ judged' = Append(judged, e)
      /\ seenSessions' = seenSessions + 1
      /\ fpCounts' = IF s.ja4 = NoFingerprint THEN fpCounts
                     ELSE [fpCounts EXCEPT ![s.ja4] = @ + 1]
  BY DEF on_ssl, observe
<1>2. e \in Judgement
  BY IdentityIsOne DEF Judgement
<1>3. judged \in Seq(Judgement) /\ n \in Nat /\ seenSessions = n
  BY LenProperties DEF TlsInv
<1>4. /\ e.ja4 = s.ja4 /\ e.as = Identity(s)
  OBVIOUS
<1> HIDE DEF e
<1>5. /\ judged' \in Seq(Judgement) /\ Len(judged') = n + 1
      /\ \A i \in 1..n : judged'[i] = judged[i]
      /\ judged'[n + 1] = e
  BY <1>1, <1>2, <1>3, AppendProperties
<1>6. ASSUME NEW f \in Fingerprints
      PROVE  /\ \A i \in 1..n : Seen(judged', f, i) = Seen(judged, f, i)
             /\ fpCounts'[f] = Cardinality(Seen(judged', f, n + 1))
             /\ fpCounts'[f] \in Nat
  <2>1. /\ \A i \in 1..n : Seen(judged', f, i) = Seen(judged, f, i)
        /\ Cardinality(Seen(judged, f, n)) \in Nat
        /\ Cardinality(Seen(judged', f, n + 1)) =
             IF s.ja4 = f THEN Cardinality(Seen(judged, f, n)) + 1
                          ELSE Cardinality(Seen(judged, f, n))
    BY <1>1, <1>2, <1>3, <1>4, SeenGrows
  <2>2. fpCounts[f] = Cardinality(Seen(judged, f, n))
    BY DEF TlsInv
  <2>3. fpCounts'[f] = IF s.ja4 = f THEN fpCounts[f] + 1 ELSE fpCounts[f]
    BY <1>1 DEF TlsInv, Fingerprints
  <2> QED
    BY <2>1, <2>2, <2>3
<1>7. fpCounts' \in [Fingerprints -> Nat]
  <2>1. fpCounts' = [f \in Fingerprints |-> fpCounts'[f]]
    BY <1>1 DEF TlsInv
  <2> QED
    BY <1>6, <2>1
<1>8. Identity(s) = "rare" <=>
        /\ s.ja4 \in Fingerprints \ KnownClients
        /\ n + 1 > LearnWindow
        /\ fpCounts'[s.ja4] <= RareLimit
  BY <1>1, <1>3 DEF Identity, Fingerprints
<1>9. RareFewTimes'
  <2> SUFFICES ASSUME NEW i \in DOMAIN judged'
               PROVE  judged'[i].as = "rare" <=>
                        /\ judged'[i].ja4 \in Fingerprints \ KnownClients
                        /\ i > LearnWindow
                        /\ Cardinality(Seen(judged', judged'[i].ja4, i)) <= RareLimit
    BY DEF RareFewTimes, Seen
  <2>1. i \in 1..n \/ i = n + 1
    <3>1. DOMAIN judged' = 1..(n + 1)
      BY <1>5, LenProperties
    <3> QED
      BY <1>3, <3>1
  <2>2. CASE i \in 1..n
    <3>1. i \in DOMAIN judged
      BY <1>3, <2>2, LenProperties
    <3>2. judged[i].as = "rare" <=>
            /\ judged[i].ja4 \in Fingerprints \ KnownClients
            /\ i > LearnWindow
            /\ Cardinality(Seen(judged, judged[i].ja4, i)) <= RareLimit
      BY <3>1 DEF TlsInv, RareFewTimes, Seen
    <3>3. judged'[i] = judged[i]
      BY <1>5, <2>2
    <3>4. \A f \in Fingerprints : Seen(judged', f, i) = Seen(judged, f, i)
      BY <1>6, <2>2
    <3> QED
      BY <3>2, <3>3, <3>4
  <2>3. CASE i = n + 1
    <3>1. judged'[i].ja4 = s.ja4 /\ judged'[i].as = Identity(s)
      BY <1>4, <1>5, <2>3
    <3>2. s.ja4 \in Fingerprints =>
            fpCounts'[s.ja4] = Cardinality(Seen(judged', s.ja4, i))
      BY <1>6, <2>3
    <3> QED
      BY <1>8, <2>3, <3>1, <3>2
  <2> QED
    BY <2>1, <2>2, <2>3
<1>10. Len(judged') = seenSessions'
  BY <1>1, <1>3, <1>5
<1>11. \A f \in Fingerprints :
          fpCounts'[f] = Cardinality(Seen(judged', f, Len(judged')))
  BY <1>5, <1>6
<1> QED
  BY <1>5, <1>7, <1>9, <1>10, <1>11 DEF TlsInv

LEMMA TlsFrame ==
  ASSUME TlsInv, UNCHANGED tlsVars
  PROVE  TlsInv'
  BY DEF TlsInv, RareFewTimes, tlsVars

\* A session as on_ssl() gets it.
SessionAt(s, ts) ==
    [src |-> s.src, dst |-> s.dst, ja4 |-> s.ja4, flags |-> s.flags, ts |-> ts]

TlsRaised == [class : {"encrypted_malware"}, src : {s.src : s \in Sessions},
              dst : {s.dst : s \in Sessions}, ts : Nat, band : {"alert", "observe"}]

\* A fingerprint was seen no more often than there were sessions.
TlsTypeInv ==
    /\ TlsTypeOK
    /\ tlsAlerts \in Seq(TlsRaised)
    /\ \A f \in Fingerprints : fpCounts[f] <= seenSessions

LEMMA TlsClock ==
  ASSUME tlsNow \in SessionTimes \cup {0}, NEW ts \in SessionTimes
  PROVE  /\ Max({tlsNow, ts}) \in SessionTimes \cup {0}
         /\ Max({tlsNow, ts}) \in {tlsNow, ts}
         /\ Max({tlsNow, ts}) \in Nat /\ tlsNow \in Nat /\ ts \in Nat
         /\ Max({tlsNow, ts}) >= tlsNow /\ Max({tlsNow, ts}) >= ts
<1>1. tlsNow \in Nat /\ ts \in Nat
  BY TlsAssumption
<1> QED
  BY <1>1, MaxOfTwo

\* An alert is dated by its session, or by the clock.
LEMMA TlsAlertType ==
  ASSUME tlsNow \in SessionTimes \cup {0}, NEW s \in Sessions, NEW ts \in SessionTimes
  PROVE  LET clock == Max({tlsNow, ts})
             a == TlsAlert(SessionAt(s, ts), clock)
         IN  a \in TlsRaised /\ a.ts <= clock
<1> DEFINE clock == Max({tlsNow, ts})
           r == SessionAt(s, ts)
           a == TlsAlert(r, clock)
<1>1. clock \in Nat /\ clock >= ts /\ ts \in Nat
  BY TlsClock
<1>2. r.src = s.src /\ r.dst = s.dst /\ r.ts = ts
  BY DEF SessionAt
<1>3. Band(r) \in {"alert", "observe"}
  BY DEF Band
<1> HIDE DEF clock, r
<1>4. a \in TlsRaised /\ a.ts <= clock
  BY <1>1, <1>2, <1>3 DEF TlsAlert, TlsRaised
<1> QED
  BY <1>4 DEF clock, r

LEMMA SessionKeepsTypes ==
  ASSUME TlsTypeInv, NEW s \in Sessions, NEW ts \in SessionTimes,
         on_ssl(SessionAt(s, ts)), seenSessions < MaxSessions, MaxSessions \in Nat,
         TlsInv
  PROVE  TlsTypeInv'
<1> DEFINE r == SessionAt(s, ts)
           clock == Max({tlsNow, ts})
<1>1. r.ja4 = s.ja4 /\ r.ts = ts /\ Key(r) = Key(s)
  BY DEF SessionAt, Key
<1>2. clock \in SessionTimes \cup {0}
  BY TlsClock DEF TlsTypeInv, TlsTypeOK
<1>3. /\ seenSessions \in Nat /\ Len(judged) = seenSessions
      /\ fpCounts \in [Fingerprints -> 0..MaxSessions]
      /\ \A f \in Fingerprints : fpCounts[f] <= seenSessions
      /\ DOMAIN tlsFired \subseteq {Key(x) : x \in Sessions}
      /\ Range(tlsFired) \subseteq SessionTimes \cup {0}
  BY DEF TlsTypeInv, TlsTypeOK
<1>4. tlsAlerts' \in Seq(TlsRaised)
  <2>1. tlsAlerts' = tlsAlerts \/ tlsAlerts' = Append(tlsAlerts, TlsAlert(r, clock))
    BY DEF on_ssl, SessionAt
  <2>2. TlsAlert(r, clock) \in TlsRaised
    BY TlsAlertType DEF TlsTypeInv, TlsTypeOK
  <2>3. tlsAlerts \in Seq(TlsRaised)
    BY DEF TlsTypeInv
  <2> QED
    BY <2>1, <2>2, <2>3, AppendProperties
<1>5. /\ tlsNow' = clock /\ seenSessions' = seenSessions + 1
      /\ fpCounts' = IF s.ja4 = NoFingerprint THEN fpCounts
                     ELSE [fpCounts EXCEPT ![s.ja4] = @ + 1]
      /\ \/ tlsFired' = Put(tlsFired, Key(s), clock)
         \/ tlsFired' = tlsFired
  BY <1>1 DEF on_ssl, observe
<1>6. s.ja4 = NoFingerprint \/ s.ja4 \in Fingerprints
  BY DEF Fingerprints
<1> HIDE DEF clock, r
<1>7. /\ fpCounts' \in [Fingerprints -> 0..MaxSessions]
      /\ \A f \in Fingerprints : fpCounts'[f] <= seenSessions'
  <2>1. ASSUME NEW f \in Fingerprints
        PROVE  /\ fpCounts'[f] \in 0..MaxSessions
               /\ fpCounts'[f] <= seenSessions + 1
    <3>1. fpCounts'[f] = fpCounts[f] \/ fpCounts'[f] = fpCounts[f] + 1
      BY <1>3, <1>5, <1>6
    <3>2. fpCounts[f] \in Nat /\ fpCounts[f] <= seenSessions
      BY <1>3
    <3> QED
      BY <1>3, <3>1, <3>2
  <2>2. fpCounts' = [f \in Fingerprints |-> fpCounts'[f]]
    BY <1>3, <1>5
  <2>3. fpCounts' \in [Fingerprints -> 0..MaxSessions]
    BY <2>1, <2>2
  <2> QED
    BY <1>5, <2>1, <2>3
<1>8. /\ DOMAIN tlsFired' \subseteq {Key(x) : x \in Sessions}
      /\ Range(tlsFired') \subseteq SessionTimes \cup {0}
  <2>1. /\ DOMAIN Put(tlsFired, Key(s), clock) = DOMAIN tlsFired \cup {Key(s)}
        /\ Range(Put(tlsFired, Key(s), clock)) \subseteq Range(tlsFired) \cup {clock}
    BY PutType
  <2> QED
    BY <1>2, <1>3, <1>5, <2>1
<1>9. Len(judged') = seenSessions'
  BY SessionKeepsTls, <1>1 DEF TlsInv, r
<1>10. seenSessions' \in 0..MaxSessions
  BY <1>3, <1>5
<1> QED
  BY <1>2, <1>4, <1>5, <1>7, <1>8, <1>9, <1>10 DEF TlsTypeInv, TlsTypeOK

LEMMA TlsTypeFrame ==
  ASSUME TlsTypeInv, UNCHANGED tlsVars
  PROVE  TlsTypeInv'
  BY DEF TlsTypeInv, TlsTypeOK, tlsVars

LEMMA TlsTypeInit == TlsInit => TlsTypeInv
<1> SUFFICES ASSUME TlsInit
             PROVE  TlsTypeInv
  OBVIOUS
<1>1. /\ tlsNow = 0 /\ fpCounts = [f \in Fingerprints |-> 0] /\ seenSessions = 0
      /\ tlsFired = <<>> /\ judged = <<>> /\ tlsAlerts = <<>>
  BY DEF TlsInit
<1>2. MaxSessions \in Nat
  BY TlsAssumption
<1>3. DOMAIN tlsFired = {} /\ Len(judged) = 0
  BY <1>1
<1>4. Range(tlsFired) = {}
  BY <1>3 DEF Range
<1>5. /\ fpCounts \in [Fingerprints -> 0..MaxSessions]
      /\ \A f \in Fingerprints : fpCounts[f] <= seenSessions
  BY <1>1, <1>2
<1> QED
  BY <1>1, <1>2, <1>3, <1>4, <1>5 DEF TlsTypeInv, TlsTypeOK

LEMMA HandlersKeepTls == TlsInv /\ [HandlersNext]_handlerVars => TlsInv'
<1> SUFFICES ASSUME TlsInv, [HandlersNext]_handlerVars
             PROVE  TlsInv'
  OBVIOUS
<1>1. CASE HandleSsl
  <2>1. PICK s \in Sessions, ts \in SessionTimes :
           on_ssl([src |-> s.src, dst |-> s.dst, ja4 |-> s.ja4,
                   flags |-> s.flags, ts |-> ts])
    BY <1>1 DEF HandleSsl
  <2> QED
    BY <2>1, SessionKeepsTls
<1>2. CASE \/ HandleConn \/ HandleBlank \/ HandleDns \/ EndOfStream \/ Stamp
           \/ UNCHANGED handlerVars
  BY <1>2, TlsFrame
     DEF HandleConn, HandleBlank, HandleDns, EndOfStream, Stamp, handlerVars
<1> QED
  BY <1>1, <1>2 DEF HandlersNext

-----------------------------------------------------------------------------
(* Queries.                                                                *)

DnsAlert == [class : {"dga_domain", "dns_tunnel"}, src : Askers \cup {NoSource},
             dst : Parents, ts : QueryTimes]

DnsTypeInv ==
    /\ DnsTypeOK
    /\ asked \in Seq(DnsQuery)
    /\ dnsAlerts \in Seq(DnsAlert)

\* A query as on_dns() gets it.
QueryAt(l, ts) == [src |-> l.src, name |-> l.name, local |-> l.local, ts |-> ts]

LEMMA QueryIsOne ==
  ASSUME NEW l \in Lookups, NEW ts \in QueryTimes
  PROVE  QueryAt(l, ts) \in DnsQuery
<1>1. l.src \in Askers \cup {NoSource} /\ l.local \in BOOLEAN
  BY DnsAssumption DEF Askers
<1> QED
  BY <1>1 DEF QueryAt, DnsQuery

LEMMA QueryType ==
  ASSUME NEW q \in DnsQuery
  PROVE  /\ q.name \in Seq(STRING) /\ parent_domain(q.name) \in Parents
         /\ q.ts \in QueryTimes /\ q.ts \in Nat
         /\ q.src = NoSource \/ q.src \in Askers
<1>1. PICK l \in Lookups : q.name = l.name
  BY DEF DnsQuery
<1>2. q.name \in Seq(STRING) /\ parent_domain(q.name) \in Parents
  BY <1>1, DnsAssumption DEF Parents
<1>3. q.ts \in QueryTimes /\ q.ts \in Nat
  BY DnsAssumption DEF DnsQuery
<1> QED
  BY <1>2, <1>3 DEF DnsQuery

LEMMA TrimmedQueries ==
  ASSUME NEW q \in Seq(DnsQuery), NEW cutoff \in Int
  PROVE  /\ Trimmed(q, cutoff) \in Seq(DnsQuery)
         /\ Range(Trimmed(q, cutoff)) \subseteq Range(q)
<1> DEFINE fresh == {i \in DOMAIN q : q[i].ts >= cutoff}
<1>1. DOMAIN q = 1..Len(q) /\ Len(q) \in Nat
  BY LenProperties
<1>2. CASE fresh = {}
  <2>1. Trimmed(q, cutoff) = <<>>
    BY <1>2 DEF Trimmed
  <2>2. DOMAIN <<>> = {}
    OBVIOUS
  <2>3. Range(<<>>) = {}
    BY <2>2 DEF Range
  <2> QED
    BY <2>1, <2>3
<1>3. CASE fresh # {}
  <2> DEFINE least == Min(fresh)
  <2>1. fresh \subseteq Nat
    BY <1>1
  <2>2. Trimmed(q, cutoff) = SubSeq(q, least, Len(q))
    BY <1>3 DEF Trimmed
  <2>3. least \in 1..Len(q)
    <3>1. fresh \subseteq 1..Len(q)
      BY <1>1
    <3> HIDE DEF fresh
    <3> QED
      BY <1>3, <2>1, <3>1, MinOfNat
  <2> HIDE DEF least
  <2>4. least - 1 \in 0..Len(q) /\ (least - 1) + 1 = least
    BY <1>1, <2>3
  <2>5. \A i \in least..Len(q) : q[i] \in DnsQuery
    BY <1>1, <2>3, ElementOfSeq
  <2> DEFINE r == SubSeq(q, least, Len(q))
  <2>6. /\ r \in Seq(DnsQuery)
        /\ Len(r) = IF least <= Len(q) THEN Len(q) - least + 1 ELSE 0
        /\ \A i \in 1..(Len(q) - least + 1) : r[i] = q[least + i - 1]
    BY <1>1, <2>3, <2>5, SubSeqProperties DEF r
  <2> HIDE DEF r
  <2>7. DOMAIN r = 1..(Len(q) - least + 1)
    BY <1>1, <2>3, <2>6, LenProperties
  <2>8. \A i \in DOMAIN r : least + i - 1 \in DOMAIN q /\ r[i] = q[least + i - 1]
    <3> SUFFICES ASSUME NEW i \in 1..(Len(q) - least + 1)
                 PROVE  least + i - 1 \in DOMAIN q /\ r[i] = q[least + i - 1]
      BY <2>7
    <3>1. least + i - 1 \in 1..Len(q)
      BY <1>1, <2>3
    <3> QED
      BY <1>1, <2>6, <3>1
  <2>9. Range(r) \subseteq Range(q)
    BY <2>8 DEF Range
  <2> QED
    BY <2>2, <2>6, <2>9 DEF r
<1> QED
  BY <1>2, <1>3

\* The queries below a parent domain of one of them are some, finitely many.
LEMMA BelowSome ==
  ASSUME NEW q \in Seq(DnsQuery), NEW i \in DOMAIN q
  PROVE  LET p == parent_domain(q[i].name)
         IN  /\ Below(q, p) \subseteq Nat /\ Below(q, p) # {}
             /\ Cardinality(Below(q, p)) \in 0..Len(q)
<1> DEFINE p == parent_domain(q[i].name)
<1>1. DOMAIN q = 1..Len(q) /\ Len(q) \in Nat
  BY LenProperties
<1>2. i \in Below(q, p) /\ Below(q, p) \subseteq 1..Len(q)
  BY <1>1 DEF Below
<1> HIDE DEF p
<1>3. IsFiniteSet(1..Len(q)) /\ Cardinality(1..Len(q)) = Len(q)
  <2> DEFINE n == Len(q)
  <2>1. n \in Nat
    BY <1>1
  <2> HIDE DEF n
  <2>2. IsFiniteSet(1..n) /\ Cardinality(1..n) = n
    BY <2>1, FS_Interval
  <2> QED
    BY <2>2 DEF n
<1>4. /\ IsFiniteSet(Below(q, p))
      /\ Cardinality(Below(q, p)) <= Cardinality(1..Len(q))
  BY <1>2, <1>3, FS_Subset
<1>5. Cardinality(Below(q, p)) \in Nat
  BY <1>4, FS_CardinalityType
<1> QED
  BY <1>1, <1>2, <1>3, <1>4, <1>5 DEF p

\* Counter.most_common(1) of a window that is not empty is one of its domains.
LEMMA TopParentOf ==
  ASSUME NEW q \in Seq(DnsQuery), q # <<>>
  PROVE  TopParent(q) \in Parents
<1> DEFINE P == {parent_domain(e.name) : e \in Range(q)}
           Card(p) == Cardinality(Below(q, p))
           First(p) == Min(Below(q, p))
           N == {Card(p) : p \in P}
           most == Max(N)
           T == {p \in P : Card(p) = most}
           F == {First(p) : p \in T}
<1>1. /\ DOMAIN q = 1..Len(q) /\ Len(q) \in Nat /\ Len(q) > 0
      /\ \A i \in DOMAIN q : q[i] \in DnsQuery
  <2>1. DOMAIN q = 1..Len(q) /\ Len(q) \in Nat
    BY LenProperties
  <2>2. Len(q) # 0
    BY EmptySeq
  <2> QED
    BY <2>1, <2>2, ElementOfSeq
<1>2. \A p \in P : \E i \in DOMAIN q : p = parent_domain(q[i].name)
  BY DEF Range
<1>3. P # {}
  <2>1. 1 \in DOMAIN q
    BY <1>1
  <2>2. q[1] \in Range(q)
    BY <2>1 DEF Range
  <2> QED
    BY <2>2
<1>4. P \subseteq Parents
  BY <1>1, <1>2, QueryType
<1>5. ASSUME NEW p \in P
      PROVE  /\ Card(p) \in 0..Len(q) /\ Card(p) \in Nat
             /\ First(p) \in Nat
  <2>1. PICK i \in DOMAIN q : p = parent_domain(q[i].name)
    BY <1>2
  <2>2. /\ Below(q, p) \subseteq Nat /\ Below(q, p) # {}
        /\ Cardinality(Below(q, p)) \in 0..Len(q)
    BY <2>1, BelowSome
  <2>3. Min(Below(q, p)) \in Below(q, p)
    BY <2>2, MinOfNat
  <2> QED
    BY <2>2, <2>3
<1>6. TopParent(q) = CHOOSE p \in P :
                        \A o \in P : \/ Card(p) > Card(o)
                                     \/ Card(p) = Card(o) /\ First(p) <= First(o)
  BY DEF TopParent
<1> HIDE DEF P, Card, First
<1>7. most \in N /\ \A n \in N : n <= most
  <2>1. N \subseteq 0..Len(q) /\ N # {}
    BY <1>3, <1>5
  <2>2. IsFiniteSet(0..Len(q))
    BY <1>1, FS_Interval
  <2> HIDE DEF N
  <2>3. IsFiniteSet(N)
    <3>1. N \in SUBSET (0..Len(q))
      BY <2>1
    <3> QED
      BY <2>2, <3>1, FS_Subset
  <2>4. N \in SUBSET Nat
    BY <1>1, <2>1
  <2> QED
    BY <2>1, <2>3, <2>4, MaxOfFinite DEF most
<1> HIDE DEF most
<1>8. T # {}
  BY <1>7
<1>9. F \subseteq Nat /\ F # {}
  BY <1>5, <1>8
<1>10. Min(F) \in F /\ \A n \in F : Min(F) <= n
  <2> HIDE DEF F
  <2> QED
    BY <1>9, MinOfNat
<1>11. PICK p \in T : First(p) = Min(F)
  BY <1>10
<1>12. p \in P /\ Card(p) = most
  OBVIOUS
<1>13. ASSUME NEW o \in P
       PROVE  \/ Card(p) > Card(o)
              \/ Card(p) = Card(o) /\ First(p) <= First(o)
  <2>1. Card(o) <= most /\ Card(o) \in Nat /\ Card(p) \in Nat
    BY <1>5, <1>7, <1>12
  <2>2. CASE Card(o) = most
    <3>1. First(p) <= First(o)
      BY <1>10, <1>11, <2>2
    <3> QED
      BY <1>12, <2>2, <3>1
  <2> QED
    BY <1>12, <2>1, <2>2
<1>14. TopParent(q) \in P
  BY <1>6, <1>12, <1>13
<1> QED
  BY <1>4, <1>14

\* The tunnels a query reports: one of its source, or none.
Tunnels(q, clock) ==
    IF q.src # NoSource /\ Sampled(dnsCount + 1, TunEvery)
    THEN check_tunnel(q.src, add_query(q, clock)[q.src], clock) ELSE <<>>

LEMMA WindowsType ==
  ASSUME DnsTypeInv, NEW q \in DnsQuery, NEW clock \in Nat
  PROVE  /\ add_query(q, clock) \in [Askers -> Seq(DnsQuery)]
         /\ \A s \in Askers : \A e \in Range(add_query(q, clock)[s]) : e.src = s
<1>1. /\ bySrc \in [Askers -> Seq(DnsQuery)]
      /\ \A s \in Askers : \A e \in Range(bySrc[s]) : e.src = s
  BY DEF DnsTypeInv, DnsTypeOK
<1>2. CASE q.src = NoSource
  BY <1>1, <1>2 DEF add_query
<1>3. CASE q.src # NoSource
  <2> DEFINE b == Append(bySrc[q.src], q)
             w == Trimmed(b, clock - QuerySpan)
  <2>1. q.src \in Askers /\ clock - QuerySpan \in Int
    BY <1>3, QueryType, DnsAssumption
  <2>2. bySrc[q.src] \in Seq(DnsQuery)
    BY <1>1, <2>1
  <2>3. b \in Seq(DnsQuery) /\ Range(b) = Range(bySrc[q.src]) \cup {q}
    <3>1. /\ b \in Seq(DnsQuery) /\ Len(b) = Len(bySrc[q.src]) + 1
          /\ \A i \in 1..Len(bySrc[q.src]) : b[i] = bySrc[q.src][i]
          /\ b[Len(bySrc[q.src]) + 1] = q
      BY <2>2, AppendProperties
    <3>2. /\ DOMAIN b = 1..Len(b) /\ Len(bySrc[q.src]) \in Nat
          /\ DOMAIN bySrc[q.src] = 1..Len(bySrc[q.src])
      BY <2>2, <3>1, LenProperties
    <3> HIDE DEF b
    <3>3. \A i \in DOMAIN b : i \in DOMAIN bySrc[q.src] \/ i = Len(bySrc[q.src]) + 1
      BY <3>1, <3>2
    <3>4. Range(b) \subseteq Range(bySrc[q.src]) \cup {q}
      BY <3>1, <3>2, <3>3 DEF Range
    <3>5. Range(bySrc[q.src]) \cup {q} \subseteq Range(b)
      <4>1. Len(bySrc[q.src]) + 1 \in DOMAIN b
        BY <3>1, <3>2
      <4>2. \A i \in DOMAIN bySrc[q.src] : i \in DOMAIN b
        BY <3>1, <3>2
      <4> QED
        BY <3>1, <3>2, <4>1, <4>2 DEF Range
    <3> QED
      BY <3>1, <3>4, <3>5
  <2> HIDE DEF b
  <2>4. w \in Seq(DnsQuery) /\ Range(w) \subseteq Range(b)
    BY <2>1, <2>3, TrimmedQueries
  <2>5. add_query(q, clock) = [bySrc EXCEPT ![q.src] = w]
    BY <1>3 DEF add_query, b
  <2> HIDE DEF w
  <2>6. \A e \in Range(w) : e.src = q.src
    BY <1>1, <2>1, <2>3, <2>4
  <2>7. add_query(q, clock) \in [Askers -> Seq(DnsQuery)]
    BY <1>1, <2>4, <2>5
  <2>8. \A s \in Askers : add_query(q, clock)[s] = IF s = q.src THEN w ELSE bySrc[s]
    BY <1>1, <2>5
  <2> QED
    BY <1>1, <2>6, <2>7, <2>8
<1> QED
  BY <1>2, <1>3

LEMMA TunnelsType ==
  ASSUME DnsTypeInv, NEW q \in DnsQuery, NEW clock \in Nat
  PROVE  \/ Tunnels(q, clock) = <<>>
         \/ \E p \in Parents : q.src \in Askers /\ Tunnels(q, clock) = <<p>>
<1> DEFINE w == add_query(q, clock)[q.src]
<1> SUFFICES ASSUME Tunnels(q, clock) # <<>>
             PROVE  \E p \in Parents : q.src \in Askers /\ Tunnels(q, clock) = <<p>>
  OBVIOUS
<1>1. /\ q.src # NoSource /\ Len(w) >= TunMin
      /\ Tunnels(q, clock) = <<TopParent(w)>>
  BY DEF Tunnels, check_tunnel
<1>2. q.src \in Askers /\ TunMin \in Nat \ {0}
  BY <1>1, QueryType, DnsAssumption
<1>3. w \in Seq(DnsQuery)
  BY <1>2, WindowsType
<1> HIDE DEF w
<1>4. w # <<>>
  <2>1. Len(<<>>) = 0
    OBVIOUS
  <2> QED
    BY <1>1, <1>2, <2>1
<1>5. TopParent(w) \in Parents
  BY <1>3, <1>4, TopParentOf
<1> QED
  BY <1>1, <1>2, <1>5

\* The alerts after a query: those before, the tunnel if there is one, and the
\* generated domain if it is reported.
LEMMA AlertsAfter ==
  ASSUME DnsTypeInv, NEW q \in DnsQuery, on_dns(q), NEW clock \in QueryTimes,
         clock = Max({dnsNow, q.ts})
  PROVE  \E mid \in Seq(DnsAlert) :
            /\ \/ mid = dnsAlerts
               \/ \E p \in Parents :
                     /\ TunAlert(q.src, p, clock) \in DnsAlert
                     /\ mid = Append(dnsAlerts, TunAlert(q.src, p, clock))
            /\ dnsAlerts' = IF Reported(q) THEN Append(mid, DgaAlert(q)) ELSE mid
            /\ DgaAlert(q) \in DnsAlert
<1> DEFINE tunnels == Tunnels(q, clock)
           x == [i \in DOMAIN tunnels |-> TunAlert(q.src, tunnels[i], clock)]
           y == IF Reported(q) THEN <<DgaAlert(q)>> ELSE <<>>
           mid == dnsAlerts \o x
<1>1. dnsAlerts' = (dnsAlerts \o x) \o y
  BY DEF on_dns, Tunnels
<1>2. clock \in Nat /\ dnsAlerts \in Seq(DnsAlert)
  BY DnsAssumption DEF DnsTypeInv
<1>3. DgaAlert(q) \in DnsAlert
  BY QueryType DEF DgaAlert, DnsAlert
<1>4. \/ x = <<>>
      \/ \E p \in Parents : /\ TunAlert(q.src, p, clock) \in DnsAlert
                            /\ x = <<TunAlert(q.src, p, clock)>>
  <2>1. CASE tunnels = <<>>
    <3>1. DOMAIN tunnels = {}
      BY <2>1
    <3> HIDE DEF tunnels
    <3> QED
      BY <3>1
  <2>2. CASE \E p \in Parents : q.src \in Askers /\ tunnels = <<p>>
    <3>1. PICK p \in Parents : q.src \in Askers /\ tunnels = <<p>>
      BY <2>2
    <3>2. TunAlert(q.src, p, clock) \in DnsAlert
      BY <3>1 DEF TunAlert, DnsAlert
    <3>3. DOMAIN tunnels = {1} /\ tunnels[1] = p
      BY <3>1
    <3> HIDE DEF tunnels
    <3>4. x = <<TunAlert(q.src, p, clock)>>
      BY <3>3
    <3> QED
      BY <3>2, <3>4
  <2> QED
    BY <1>2, <2>1, <2>2, TunnelsType
<1> HIDE DEF x
<1>5. /\ mid \in Seq(DnsAlert)
      /\ \/ mid = dnsAlerts
         \/ \E p \in Parents :
               /\ TunAlert(q.src, p, clock) \in DnsAlert
               /\ mid = Append(dnsAlerts, TunAlert(q.src, p, clock))
  <2>1. CASE x = <<>>
    BY <1>2, <2>1, ConcatEmptySeq
  <2>2. CASE \E p \in Parents : /\ TunAlert(q.src, p, clock) \in DnsAlert
                                /\ x = <<TunAlert(q.src, p, clock)>>
    <3>1. PICK p \in Parents : /\ TunAlert(q.src, p, clock) \in DnsAlert
                               /\ x = <<TunAlert(q.src, p, clock)>>
      BY <2>2
    <3>2. mid = Append(dnsAlerts, TunAlert(q.src, p, clock))
      BY <1>2, <3>1, AppendIsConcat
    <3>3. mid \in Seq(DnsAlert)
      BY <1>2, <3>1, <3>2, AppendProperties
    <3> QED
      BY <3>1, <3>2, <3>3
  <2> QED
    BY <1>4, <2>1, <2>2
<1> HIDE DEF mid
<1>6. dnsAlerts' = IF Reported(q) THEN Append(mid, DgaAlert(q)) ELSE mid
  <2>1. dnsAlerts' = mid \o y
    BY <1>1 DEF mid
  <2>2. CASE Reported(q)
    <3>1. y = <<DgaAlert(q)>>
      BY <2>2
    <3> QED
      BY <1>3, <1>5, <2>1, <2>2, <3>1, AppendIsConcat
  <2>3. CASE ~Reported(q)
    <3>1. y = <<>>
      BY <2>3
    <3> QED
      BY <1>5, <2>1, <2>3, <3>1, ConcatEmptySeq
  <2> QED
    BY <2>2, <2>3
<1> QED
  BY <1>3, <1>5, <1>6

\* One alert more: where it is new it is that alert.
LEMMA NewestOfAppend ==
  ASSUME NEW h \in Seq(DnsAlert), NEW e \in DnsAlert
  PROVE  /\ DOMAIN h \subseteq DOMAIN Append(h, e)
         /\ \A i \in DOMAIN h : Append(h, e)[i] = h[i]
         /\ \A i \in DOMAIN Append(h, e) \ DOMAIN h :
               i = Len(h) + 1 /\ Append(h, e)[i] = e
         /\ Len(h) + 1 \in DOMAIN Append(h, e) \ DOMAIN h
<1> DEFINE g == Append(h, e)
<1>1. /\ g \in Seq(DnsAlert) /\ Len(g) = Len(h) + 1
      /\ \A i \in 1..Len(h) : g[i] = h[i]
      /\ g[Len(h) + 1] = e
  BY AppendProperties
<1>2. DOMAIN h = 1..Len(h) /\ DOMAIN g = 1..Len(g) /\ Len(h) \in Nat
  BY <1>1, LenProperties
<1> HIDE DEF g
<1>3. \A i \in DOMAIN g : i \in DOMAIN h \/ i = Len(h) + 1
  BY <1>1, <1>2
<1>4. /\ DOMAIN h \subseteq DOMAIN g
      /\ Len(h) + 1 \in DOMAIN g /\ Len(h) + 1 \notin DOMAIN h
  BY <1>1, <1>2
<1>5. \A i \in DOMAIN g \ DOMAIN h : i = Len(h) + 1 /\ g[i] = e
  BY <1>1, <1>3
<1> QED
  BY <1>1, <1>2, <1>4, <1>5 DEF g

LEMMA DnsClock ==
  ASSUME dnsNow \in QueryTimes \cup {0}, NEW q \in DnsQuery
  PROVE  LET clock == Max({dnsNow, q.ts})
         IN  /\ clock \in QueryTimes /\ clock \in {dnsNow, q.ts} /\ clock \in Nat
             /\ dnsNow \in Nat /\ clock >= dnsNow /\ clock >= q.ts
<1> DEFINE clock == Max({dnsNow, q.ts})
<1>1. /\ dnsNow \in Nat /\ (dnsNow \in QueryTimes \/ dnsNow = 0)
      /\ q.ts \in Nat /\ q.ts \in QueryTimes
  BY QueryType, DnsAssumption
<1>2. clock \in {dnsNow, q.ts} /\ clock >= dnsNow /\ clock >= q.ts
  BY <1>1, MaxOfTwo
<1> HIDE DEF clock
<1>3. CASE clock = dnsNow /\ dnsNow = 0
  <2>1. q.ts = 0
    BY <1>1, <1>2, <1>3
  <2> QED
    BY <1>1, <1>2, <1>3, <2>1 DEF clock
<1>4. CASE clock = q.ts \/ dnsNow \in QueryTimes
  BY <1>1, <1>2, <1>4 DEF clock
<1> QED
  BY <1>1, <1>2, <1>3, <1>4

LEMMA ScoredType ==
  ASSUME DnsTypeInv, NEW p
  PROVE  Scored(p) \in Verdicts \cup {"none"}
<1>1. p \in DOMAIN seenDomain => seenDomain[p] \in Verdicts
  BY DEF DnsTypeInv, DnsTypeOK, Range
<1>2. score_domain(p) \in Verdicts \cup {"none"}
  BY DnsAssumption DEF score_domain
<1> QED
  BY <1>1, <1>2 DEF Scored

LEMMA QueryKeepsTypes ==
  ASSUME DnsTypeInv, NEW q \in DnsQuery, on_dns(q), dnsCount < MaxQueries,
         MaxQueries \in Nat
  PROVE  DnsTypeInv'
<1> DEFINE clock == Max({dnsNow, q.ts})
           parent == parent_domain(q.name)
<1>1. clock \in QueryTimes /\ clock \in Nat
  BY DnsClock DEF DnsTypeInv, DnsTypeOK
<1>2. /\ dnsNow' = clock /\ dnsCount' = dnsCount + 1
      /\ bySrc' = add_query(q, clock)
      /\ asked' = Append(asked, q)
  BY DEF on_dns
<1>3. /\ bySrc' \in [Askers -> Seq(DnsQuery)]
      /\ \A s \in Askers : \A e \in Range(bySrc'[s]) : e.src = s
  BY <1>1, <1>2, WindowsType
<1>4. dnsAlerts' \in Seq(DnsAlert)
  <2>1. PICK mid \in Seq(DnsAlert) :
           /\ dnsAlerts' = IF Reported(q) THEN Append(mid, DgaAlert(q)) ELSE mid
           /\ DgaAlert(q) \in DnsAlert
    BY <1>1, AlertsAfter
  <2> QED
    BY <2>1, AppendProperties
<1>5. DOMAIN tunFired' \subseteq Askers \X Parents /\ Range(tunFired') \subseteq QueryTimes
  <2> DEFINE reported == {q.src} \X Range(Tunnels(q, clock))
  <2>1. tunFired' = [k \in DOMAIN tunFired \cup reported |->
                        IF k \in reported THEN clock ELSE tunFired[k]]
    BY DEF on_dns, Tunnels
  <2>2. reported \subseteq Askers \X Parents
    <3>1. CASE Tunnels(q, clock) = <<>>
      <4>1. DOMAIN <<>> = {}
        OBVIOUS
      <4>2. Range(Tunnels(q, clock)) = {}
        BY <3>1, <4>1 DEF Range
      <4> QED
        BY <4>2
    <3>2. CASE \E p \in Parents : q.src \in Askers /\ Tunnels(q, clock) = <<p>>
      <4>1. PICK p \in Parents : q.src \in Askers /\ Tunnels(q, clock) = <<p>>
        BY <3>2
      <4>2. DOMAIN <<p>> = {1} /\ <<p>>[1] = p
        OBVIOUS
      <4>3. Range(Tunnels(q, clock)) = {p}
        BY <4>1, <4>2 DEF Range
      <4> QED
        BY <4>1, <4>3
    <3> QED
      BY <1>1, <3>1, <3>2, TunnelsType
  <2>3. DOMAIN tunFired \subseteq Askers \X Parents
    BY DEF DnsTypeInv, DnsTypeOK
  <2>4. \A k \in DOMAIN tunFired : tunFired[k] \in QueryTimes
    BY DEF DnsTypeInv, DnsTypeOK, Range
  <2> HIDE DEF reported, clock
  <2>5. DOMAIN tunFired' \subseteq Askers \X Parents
    BY <2>1, <2>2, <2>3
  <2>6. \A k \in DOMAIN tunFired' : tunFired'[k] \in QueryTimes
    BY <1>1, <2>1, <2>4
  <2> QED
    BY <2>5, <2>6 DEF Range
<1>6. /\ DOMAIN seenDomain' \subseteq Parents /\ Range(seenDomain') \subseteq Verdicts
      /\ alertedDomain' \subseteq DOMAIN seenDomain'
  <2>1. /\ seenDomain' = IF Public(q) /\ Scored(parent) # "none"
                         THEN Put(seenDomain, parent, Scored(parent))
                         ELSE seenDomain
        /\ alertedDomain' = IF Reported(q) THEN alertedDomain \cup {parent}
                                           ELSE alertedDomain
        /\ Reported(q) => Public(q) /\ Scored(parent) # "none"
    BY DEF on_dns, check_domain, Reported
  <2>2. /\ DOMAIN Put(seenDomain, parent, Scored(parent)) =
             DOMAIN seenDomain \cup {parent}
        /\ Range(Put(seenDomain, parent, Scored(parent)))
             \subseteq Range(seenDomain) \cup {Scored(parent)}
    BY PutType
  <2>3. parent \in Parents /\ Scored(parent) \in Verdicts \cup {"none"}
    BY QueryType, ScoredType
  <2>4. /\ DOMAIN seenDomain \subseteq Parents /\ Range(seenDomain) \subseteq Verdicts
        /\ alertedDomain \subseteq DOMAIN seenDomain
    BY DEF DnsTypeInv, DnsTypeOK
  <2> HIDE DEF parent
  <2> QED
    BY <2>1, <2>2, <2>3, <2>4
<1>7. asked' \in Seq(DnsQuery) /\ Len(asked') = dnsCount + 1
  BY <1>2, AppendProperties DEF DnsTypeInv, DnsTypeOK
<1>8. dnsCount' \in 0..MaxQueries
  <2>1. dnsCount \in Nat
    BY DEF DnsTypeInv, DnsTypeOK
  <2> QED
    BY <1>2, <2>1
<1> HIDE DEF clock
<1>9. DnsTypeOK'
  BY <1>1, <1>2, <1>3, <1>5, <1>6, <1>7, <1>8 DEF DnsTypeOK
<1> QED
  BY <1>4, <1>7, <1>9 DEF DnsTypeInv

LEMMA DnsTypeFrame ==
  ASSUME DnsTypeInv, UNCHANGED dnsVars
  PROVE  DnsTypeInv'
  BY DEF DnsTypeInv, DnsTypeOK, dnsVars

LEMMA DnsTypeInit == DnsInit => DnsTypeInv
<1> SUFFICES ASSUME DnsInit
             PROVE  DnsTypeInv
  OBVIOUS
<1>1. /\ dnsNow = 0 /\ dnsCount = 0 /\ bySrc = [s \in Askers |-> <<>>]
      /\ seenDomain = <<>> /\ alertedDomain = {} /\ tunFired = <<>>
      /\ dnsAlerts = <<>> /\ asked = <<>>
  BY DEF DnsInit
<1>2. DOMAIN <<>> = {} /\ Len(<<>>) = 0
  OBVIOUS
<1>3. Range(<<>>) = {}
  BY <1>2 DEF Range
<1>4. <<>> \in Seq(DnsQuery) /\ <<>> \in Seq(DnsAlert)
  OBVIOUS
<1>5. bySrc \in [Askers -> Seq(DnsQuery)] /\ \A s \in Askers : bySrc[s] = <<>>
  BY <1>1, <1>4
<1>6. \A s \in Askers : \A e \in Range(bySrc[s]) : e.src = s
  BY <1>3, <1>5
<1>7. dnsNow \in QueryTimes \cup {0} /\ dnsCount \in 0..MaxQueries
  <2>1. MaxQueries \in Nat
    BY DnsAssumption
  <2>2. dnsCount \in 0..MaxQueries
    BY <1>1, <2>1
  <2> QED
    BY <1>1, <2>2
<1>8. DnsTypeOK
  BY <1>1, <1>2, <1>3, <1>5, <1>6, <1>7 DEF DnsTypeOK
<1> QED
  BY <1>1, <1>4, <1>8 DEF DnsTypeInv

-----------------------------------------------------------------------------
(* Generated domains.                                                      *)

\* The terms of DomainsReportedOnce, of the queries or of the alerts h.
AskedFor(h, p) ==
    {i \in DOMAIN h : Public(h[i]) /\ parent_domain(h[i].name) = p}

Suspicious(p) == p # <<>> /\ p[1] \in DOMAIN Verdict /\ Verdict[p[1]] # "clean"

ReportsOf(h, p) == {j \in DOMAIN h : h[j].class = "dga_domain" /\ h[j].dst = p}

ReportedOnce(p, queries, alerts) ==
    IF Suspicious(p) /\ AskedFor(queries, p) # {}
    THEN \E j \in ReportsOf(alerts, p) :
            /\ ReportsOf(alerts, p) = {j}
            /\ alerts[j] = DgaAlert(queries[Min(AskedFor(queries, p))])
    ELSE ReportsOf(alerts, p) = {}

\* The cache holds what the classifier says, and what was reported is marked.
DomainInv ==
    /\ \A p \in DOMAIN seenDomain : seenDomain[p] = score_domain(p)
    /\ \A p \in Parents :
          p \in alertedDomain <=> Suspicious(p) /\ AskedFor(asked, p) # {}
    /\ \A p \in Parents : ReportedOnce(p, asked, dnsAlerts)

LEMMA DomainInvImplies == DomainInv => DomainsReportedOnce
  BY DEF DomainInv, DomainsReportedOnce, ReportedOnce, ReportsOf, AskedFor, Suspicious

\* The domain of a public query has two labels, of which the first is scored.
LEMMA PublicParent ==
  ASSUME NEW q \in DnsQuery, Public(q)
  PROVE  LET p == parent_domain(q.name)
         IN  score_domain(p) \in {"observe", "alert"} <=> Suspicious(p)
<1> DEFINE p == parent_domain(q.name)
           n == Len(q.name)
<1>1. q.name \in Seq(STRING) /\ n \in Nat /\ n >= 2
  BY QueryType, LenProperties DEF Public
<1>2. p = SubSeq(q.name, n - 1, n)
  BY <1>1 DEF parent_domain
<1>3. Len(p) = 2 /\ p # <<>>
  <2>1. \A i \in (n - 1)..n : q.name[i] \in STRING
    BY <1>1, ElementOfSeq
  <2>2. Len(SubSeq(q.name, n - 1, n)) =
          IF n - 1 <= n THEN n - (n - 1) + 1 ELSE 0
    BY <1>1, <2>1, SubSeqProperties
  <2>3. Len(p) = 2
    BY <1>1, <1>2, <2>2
  <2>4. Len(<<>>) = 0
    OBVIOUS
  <2> QED
    BY <2>3, <2>4
<1> HIDE DEF p
<1>4. split_domain(p) = p[1]
  BY <1>3 DEF split_domain
<1>5. score_domain(p) = IF p[1] \in DOMAIN Verdict THEN Verdict[p[1]] ELSE "none"
  BY <1>4 DEF score_domain
<1>6. p[1] \in DOMAIN Verdict => Verdict[p[1]] \in {"clean", "observe", "alert"}
  BY DnsAssumption DEF Verdicts
<1>7. score_domain(p) \in {"observe", "alert"} <=> Suspicious(p)
  BY <1>3, <1>5, <1>6 DEF Suspicious
<1> QED
  BY <1>7 DEF p

\* One query more.
LEMMA AskedForGrows ==
  ASSUME NEW h \in Seq(DnsQuery), NEW q \in DnsQuery, NEW p
  PROVE  LET g == Append(h, q)
         IN  /\ AskedFor(h, p) \subseteq 1..Len(h) /\ Len(h) \in Nat
             /\ \A i \in AskedFor(h, p) : g[i] = h[i]
             /\ AskedFor(g, p) = IF Public(q) /\ parent_domain(q.name) = p
                                 THEN AskedFor(h, p) \cup {Len(h) + 1}
                                 ELSE AskedFor(h, p)
             /\ g[Len(h) + 1] = q
<1> DEFINE g == Append(h, q)
<1>1. /\ g \in Seq(DnsQuery) /\ Len(g) = Len(h) + 1
      /\ \A i \in 1..Len(h) : g[i] = h[i]
      /\ g[Len(h) + 1] = q
  BY AppendProperties
<1>2. DOMAIN h = 1..Len(h) /\ DOMAIN g = 1..Len(g) /\ Len(h) \in Nat
  BY <1>1, LenProperties
<1> HIDE DEF g
<1>3. DOMAIN g = DOMAIN h \cup {Len(h) + 1} /\ Len(h) + 1 \notin DOMAIN h
  BY <1>1, <1>2
<1>4. \A i \in AskedFor(h, p) : i \in 1..Len(h)
  BY <1>2 DEF AskedFor
<1>5. ASSUME NEW i \in DOMAIN h
      PROVE  i \in AskedFor(g, p) <=> i \in AskedFor(h, p)
  BY <1>1, <1>2, <1>3 DEF AskedFor
<1>6. Len(h) + 1 \in AskedFor(g, p) <=> Public(q) /\ parent_domain(q.name) = p
  BY <1>1, <1>3 DEF AskedFor
<1>7. /\ \A i \in AskedFor(g, p) : i \in DOMAIN g
      /\ \A i \in AskedFor(h, p) : i \in DOMAIN h
  BY DEF AskedFor
<1>8. AskedFor(g, p) = IF Public(q) /\ parent_domain(q.name) = p
                       THEN AskedFor(h, p) \cup {Len(h) + 1} ELSE AskedFor(h, p)
  <2>1. CASE Public(q) /\ parent_domain(q.name) = p
    <3>1. \A i \in AskedFor(g, p) : i \in AskedFor(h, p) \cup {Len(h) + 1}
      BY <1>3, <1>5, <1>7
    <3>2. \A i \in AskedFor(h, p) \cup {Len(h) + 1} : i \in AskedFor(g, p)
      BY <1>5, <1>6, <1>7, <2>1
    <3> QED
      BY <2>1, <3>1, <3>2
  <2>2. CASE ~(Public(q) /\ parent_domain(q.name) = p)
    <3>1. \A i \in AskedFor(g, p) : i \in AskedFor(h, p)
      BY <1>3, <1>5, <1>6, <1>7, <2>2
    <3>2. \A i \in AskedFor(h, p) : i \in AskedFor(g, p)
      BY <1>5, <1>7
    <3> QED
      BY <2>2, <3>1, <3>2
  <2> QED
    BY <2>1, <2>2
<1> QED
  BY <1>1, <1>2, <1>4, <1>8 DEF g

LEMMA QueryKeepsDomains ==
  ASSUME DomainInv, DnsTypeInv, NEW q \in DnsQuery, on_dns(q)
  PROVE  DomainInv'
<1> DEFINE p0 == parent_domain(q.name)
           clock == Max({dnsNow, q.ts})
           n == Len(asked)
<1>1. clock \in QueryTimes
  BY DnsClock DEF DnsTypeInv, DnsTypeOK
<1>2. /\ asked' = Append(asked, q)
      /\ seenDomain' = IF Public(q) /\ Scored(p0) # "none"
                       THEN Put(seenDomain, p0, Scored(p0)) ELSE seenDomain
      /\ alertedDomain' = IF Reported(q) THEN alertedDomain \cup {p0}
                                         ELSE alertedDomain
  BY DEF on_dns, check_domain
<1>3. p0 \in Parents /\ asked \in Seq(DnsQuery) /\ dnsAlerts \in Seq(DnsAlert)
  BY QueryType DEF DnsTypeInv
<1>4. PICK mid \in Seq(DnsAlert) :
         /\ \/ mid = dnsAlerts
            \/ \E p \in Parents :
                  /\ TunAlert(q.src, p, clock) \in DnsAlert
                  /\ mid = Append(dnsAlerts, TunAlert(q.src, p, clock))
         /\ dnsAlerts' = IF Reported(q) THEN Append(mid, DgaAlert(q)) ELSE mid
         /\ DgaAlert(q) \in DnsAlert
  BY <1>1, AlertsAfter
<1> HIDE DEF clock
<1>5. Scored(p0) = score_domain(p0)
  BY DEF DomainInv, Scored
<1>6. \A p \in DOMAIN seenDomain' : seenDomain'[p] = score_domain(p)
  <2>1. \A p \in DOMAIN seenDomain : seenDomain[p] = score_domain(p)
    BY DEF DomainInv
  <2> HIDE DEF p0
  <2>2. seenDomain' = Put(seenDomain, p0, score_domain(p0)) \/ seenDomain' = seenDomain
    BY <1>2, <1>5
  <2> QED
    BY <2>1, <2>2 DEF Put
<1>7. Reported(q) <=> Public(q) /\ Suspicious(p0) /\ AskedFor(asked, p0) = {}
  <2>1. Reported(q) <=> /\ Public(q) /\ score_domain(p0) \in {"observe", "alert"}
                        /\ p0 \notin alertedDomain
    BY <1>5 DEF Reported
  <2>2. Public(q) => (score_domain(p0) \in {"observe", "alert"} <=> Suspicious(p0))
    BY PublicParent
  <2>3. p0 \in alertedDomain <=> Suspicious(p0) /\ AskedFor(asked, p0) # {}
    BY <1>3 DEF DomainInv
  <2> QED
    BY <2>1, <2>2, <2>3
<1>8. \A p : /\ AskedFor(asked, p) \subseteq 1..n /\ n \in Nat
             /\ \A i \in AskedFor(asked, p) : asked'[i] = asked[i]
             /\ AskedFor(asked', p) = IF Public(q) /\ p0 = p
                                      THEN AskedFor(asked, p) \cup {n + 1}
                                      ELSE AskedFor(asked, p)
             /\ asked'[n + 1] = q
  BY <1>2, <1>3, AskedForGrows
<1>9. \A p : /\ ReportsOf(mid, p) = ReportsOf(dnsAlerts, p)
             /\ \A j \in ReportsOf(dnsAlerts, p) : mid[j] = dnsAlerts[j]
  <2>1. CASE mid = dnsAlerts
    BY <2>1
  <2>2. CASE \E o \in Parents : /\ TunAlert(q.src, o, clock) \in DnsAlert
                                /\ mid = Append(dnsAlerts, TunAlert(q.src, o, clock))
    <3>1. PICK o \in Parents : /\ TunAlert(q.src, o, clock) \in DnsAlert
                               /\ mid = Append(dnsAlerts, TunAlert(q.src, o, clock))
      BY <2>2
    <3> DEFINE e == TunAlert(q.src, o, clock)
    <3>2. e.class # "dga_domain" /\ e \in DnsAlert /\ mid = Append(dnsAlerts, e)
      BY <3>1 DEF TunAlert
    <3> HIDE DEF e, p0, n
    <3> DEFINE k == Len(dnsAlerts) + 1
    <3>3. /\ DOMAIN dnsAlerts \subseteq DOMAIN mid /\ k \in DOMAIN mid \ DOMAIN dnsAlerts
          /\ mid[k] = e /\ \A i \in DOMAIN dnsAlerts : mid[i] = dnsAlerts[i]
          /\ \A i \in DOMAIN mid \ DOMAIN dnsAlerts : i = k
      BY <1>3, <3>2, NewestOfAppend
    <3> HIDE DEF k
    <3>4. ASSUME NEW p
          PROVE  ReportsOf(mid, p) = ReportsOf(dnsAlerts, p)
      BY <3>2, <3>3 DEF ReportsOf
    <3>5. ASSUME NEW p
          PROVE  \A j \in ReportsOf(dnsAlerts, p) : mid[j] = dnsAlerts[j]
      BY <3>3 DEF ReportsOf
    <3> QED
      BY <3>4, <3>5
  <2> QED
    BY <1>4, <2>1, <2>2
<1>10. \A p : /\ ReportsOf(dnsAlerts', p) = IF Reported(q) /\ p0 = p
                                            THEN ReportsOf(dnsAlerts, p) \cup {Len(mid) + 1}
                                            ELSE ReportsOf(dnsAlerts, p)
              /\ \A j \in ReportsOf(dnsAlerts, p) : dnsAlerts'[j] = dnsAlerts[j]
              /\ Reported(q) => dnsAlerts'[Len(mid) + 1] = DgaAlert(q)
  <2>1. DgaAlert(q).class = "dga_domain" /\ DgaAlert(q).dst = p0
    BY DEF DgaAlert
  <2>2. CASE Reported(q)
    <3> DEFINE e == DgaAlert(q)
    <3>1. dnsAlerts' = Append(mid, e) /\ e \in DnsAlert
      BY <1>4, <2>2
    <3>2. e.class = "dga_domain"
      BY <2>1
    <3>3. e.dst = p0
      BY <2>1
    <3> HIDE DEF e, p0, n
    <3> DEFINE k == Len(mid) + 1
    <3>4. /\ DOMAIN mid \subseteq DOMAIN dnsAlerts' /\ k \in DOMAIN dnsAlerts' \ DOMAIN mid
          /\ dnsAlerts'[k] = e /\ \A i \in DOMAIN mid : dnsAlerts'[i] = mid[i]
          /\ \A i \in DOMAIN dnsAlerts' \ DOMAIN mid : i = k
      BY <3>1, NewestOfAppend
    <3> HIDE DEF k
    <3>5. ASSUME NEW p
          PROVE  ReportsOf(dnsAlerts', p) = IF p0 = p THEN ReportsOf(mid, p) \cup {k}
                                                      ELSE ReportsOf(mid, p)
      BY <3>2, <3>3, <3>4 DEF ReportsOf
    <3>6. ASSUME NEW p
          PROVE  \A j \in ReportsOf(mid, p) : dnsAlerts'[j] = mid[j]
      BY <3>4 DEF ReportsOf
    <3> QED
      BY <1>9, <2>2, <3>4, <3>5, <3>6 DEF e, k
  <2>3. CASE ~Reported(q)
    BY <1>4, <1>9, <2>3
  <2> QED
    BY <2>2, <2>3
<1> HIDE DEF p0, n
<1>11. ASSUME NEW p \in Parents
       PROVE  /\ p \in alertedDomain' <=> Suspicious(p) /\ AskedFor(asked', p) # {}
              /\ ReportedOnce(p, asked', dnsAlerts')
  <2>1. /\ p \in alertedDomain <=> Suspicious(p) /\ AskedFor(asked, p) # {}
        /\ ReportedOnce(p, asked, dnsAlerts)
    BY DEF DomainInv
  <2>2. CASE ~(Public(q) /\ p0 = p) \/ ~Suspicious(p)
    <3>1. ~(Reported(q) /\ p0 = p)
      BY <1>7, <2>2
    <3>2. /\ p \in alertedDomain' <=> p \in alertedDomain
          /\ ReportsOf(dnsAlerts', p) = ReportsOf(dnsAlerts, p)
          /\ \A j \in ReportsOf(dnsAlerts, p) : dnsAlerts'[j] = dnsAlerts[j]
      BY <1>2, <1>10, <3>1
    <3>3. CASE ~Suspicious(p)
      BY <2>1, <3>2, <3>3 DEF ReportedOnce
    <3>4. CASE ~(Public(q) /\ p0 = p)
      <4>1. /\ AskedFor(asked', p) = AskedFor(asked, p)
            /\ \A i \in AskedFor(asked, p) : asked'[i] = asked[i]
        BY <1>8, <3>4
      <4>2. AskedFor(asked, p) # {} =>
              Min(AskedFor(asked, p)) \in AskedFor(asked, p)
        <5>1. AskedFor(asked, p) \subseteq Nat
          BY <1>8
        <5> QED
          BY <5>1, MinOfNat
      <4> QED
        BY <2>1, <3>2, <4>1, <4>2 DEF ReportedOnce
    <3> QED
      BY <2>2, <3>3, <3>4
  <2>3. CASE Public(q) /\ p0 = p /\ Suspicious(p) /\ AskedFor(asked, p) = {}
    <3>1. Reported(q) /\ AskedFor(asked', p) = {n + 1} /\ asked'[n + 1] = q
      BY <1>7, <1>8, <2>3
    <3>2. ReportsOf(dnsAlerts, p) = {}
      BY <2>1, <2>3 DEF ReportedOnce
    <3>3. /\ ReportsOf(dnsAlerts', p) = {Len(mid) + 1}
          /\ dnsAlerts'[Len(mid) + 1] = DgaAlert(q)
      BY <1>10, <2>3, <3>1, <3>2
    <3>4. Min({n + 1}) = n + 1
      <4>1. {n + 1} \subseteq Nat
        BY <1>8
      <4>2. Min({n + 1}) \in {n + 1}
        BY <4>1, MinOfNat
      <4> QED
        BY <4>2
    <3>5. p \in alertedDomain'
      BY <1>2, <2>3, <3>1
    <3> QED
      BY <2>3, <3>1, <3>3, <3>4, <3>5 DEF ReportedOnce
  <2>4. CASE Public(q) /\ p0 = p /\ Suspicious(p) /\ AskedFor(asked, p) # {}
    <3> DEFINE A == AskedFor(asked, p)
               B == AskedFor(asked', p)
    <3>1. /\ ~Reported(q) /\ B = A \cup {n + 1} /\ n \in Nat
          /\ A \subseteq 1..n /\ A # {} /\ \A i \in A : asked'[i] = asked[i]
      BY <1>7, <1>8, <2>4
    <3> HIDE DEF A, B
    <3>2. A \subseteq Nat /\ B \subseteq Nat /\ B # {}
      BY <3>1
    <3>3. /\ Min(A) \in A /\ \A i \in A : Min(A) <= i
          /\ Min(B) \in B /\ \A i \in B : Min(B) <= i
      BY <3>1, <3>2, MinOfNat
    <3>4. Min(B) = Min(A)
      <4>1. Min(B) <= Min(A) /\ Min(A) \in 1..n
        BY <3>1, <3>3
      <4>2. Min(B) \in A
        BY <3>1, <3>2, <3>3, <4>1
      <4>3. Min(A) <= Min(B) /\ Min(A) \in Nat /\ Min(B) \in Nat
        BY <3>2, <3>3, <4>2
      <4> QED
        BY <4>1, <4>3
    <3>5. asked'[Min(B)] = asked[Min(A)]
      BY <3>1, <3>3, <3>4
    <3>6. /\ p \in alertedDomain'
          /\ ReportsOf(dnsAlerts', p) = ReportsOf(dnsAlerts, p)
          /\ \A j \in ReportsOf(dnsAlerts, p) : dnsAlerts'[j] = dnsAlerts[j]
      BY <1>2, <1>10, <2>1, <2>4, <3>1
    <3>7. \E j \in ReportsOf(dnsAlerts, p) :
             /\ ReportsOf(dnsAlerts, p) = {j}
             /\ dnsAlerts[j] = DgaAlert(asked[Min(A)])
      BY <2>1, <2>4 DEF ReportedOnce, A
    <3>8. \E j \in ReportsOf(dnsAlerts', p) :
             /\ ReportsOf(dnsAlerts', p) = {j}
             /\ dnsAlerts'[j] = DgaAlert(asked'[Min(B)])
      BY <3>5, <3>6, <3>7
    <3> QED
      BY <2>4, <3>1, <3>6, <3>8 DEF ReportedOnce, B
  <2> QED
    BY <2>2, <2>3, <2>4
<1> QED
  BY <1>6, <1>11 DEF DomainInv

LEMMA DomainFrame ==
  ASSUME DomainInv, UNCHANGED dnsVars
  PROVE  DomainInv'
  BY DEF DomainInv, dnsVars

LEMMA DomainInit == DnsInit => DomainInv
<1> SUFFICES ASSUME DnsInit
             PROVE  DomainInv
  OBVIOUS
<1>1. seenDomain = <<>> /\ alertedDomain = {} /\ dnsAlerts = <<>> /\ asked = <<>>
  BY DEF DnsInit
<1>2. DOMAIN <<>> = {}
  OBVIOUS
<1>3. \A p : AskedFor(asked, p) = {} /\ ReportsOf(dnsAlerts, p) = {}
  BY <1>1, <1>2 DEF AskedFor, ReportsOf
<1> QED
  BY <1>1, <1>2, <1>3 DEF DomainInv, ReportedOnce

-----------------------------------------------------------------------------
(* The trace and the alerts joined to it.                                  *)

Record == [kind : {"conn", "dns", "ssl"}, ts : Nat]
Raised == [class : DOMAIN KIND_OF, ts : Nat, by : Nat, at : Nat]

\* The records of a log that its handler does not return from at once.
Sourced(t, B, kind) == OfKind(t, kind) \ B

\* A detector's clock is the newest time of those.
Clocked(t, B, kind, clock) ==
    /\ clock \in Nat
    /\ \A i \in Sourced(t, B, kind) : t[i].ts <= clock
    /\ \/ Sourced(t, B, kind) = {} /\ clock = 0
       \/ \E i \in Sourced(t, B, kind) : t[i].ts = clock

\* When an alert was raised, its log had reached its time, and gone no further
\* if the alert was dated by the clock; and all but the newest record had been
\* stamped.
Sound(t, B, a) ==
    LET kind == KIND_OF[a.class]
    IN  /\ a.by \in 1..Len(t) /\ a.at \in (a.by - 1)..a.by
        /\ \E i \in Sourced(t, B, kind) : i <= a.by /\ t[i].ts >= a.ts
        /\ a.class \in ByTheClock =>
              \A i \in Sourced(t, B, kind) : i <= a.by => t[i].ts <= a.ts

TraceInv ==
    /\ trace \in Seq(Record)
    /\ stamps \in (Len(trace) - 1)..Len(trace)
    /\ blanks \subseteq OfKind(trace, "conn")
    /\ Clocked(trace, blanks, "conn", now)
    /\ Clocked(trace, blanks, "dns", dnsNow)
    /\ Clocked(trace, blanks, "ssl", tlsNow)
    /\ \A s \in Sources : \A i \in DOMAIN held[s] : held[s][i].ts <= now
    /\ Sourced(trace, blanks, "conn") = {} => \A s \in Sources : held[s] = <<>>
    /\ raised \subseteq Raised
    /\ \A a \in raised : Sound(trace, blanks, a)

LEMMA KindType ==
  ASSUME NEW t \in Seq(Record), NEW kind
  PROVE  /\ OfKind(t, kind) \subseteq 1..Len(t) /\ OfKind(t, kind) \subseteq Nat
         /\ Len(t) \in Nat
         /\ \A i \in OfKind(t, kind) : t[i].ts \in Nat
<1>1. DOMAIN t = 1..Len(t) /\ Len(t) \in Nat /\ \A i \in 1..Len(t) : t[i] \in Record
  BY LenProperties, ElementOfSeq
<1> QED
  BY <1>1 DEF OfKind, Record

LEMMA SourcedType ==
  ASSUME NEW t \in Seq(Record), NEW kind, NEW B
  PROVE  /\ Sourced(t, B, kind) \subseteq 1..Len(t)
         /\ Sourced(t, B, kind) \subseteq Nat /\ Len(t) \in Nat
         /\ \A i \in Sourced(t, B, kind) : t[i].ts \in Nat
  BY KindType DEF Sourced

\* One record more.
LEMMA KindGrows ==
  ASSUME NEW t \in Seq(Record), NEW r \in Record, NEW kind
  PROVE  LET u == Append(t, r)
         IN  /\ u \in Seq(Record) /\ Len(u) = Len(t) + 1
             /\ \A i \in OfKind(t, kind) : i \in OfKind(u, kind) /\ u[i] = t[i]
             /\ \A i \in OfKind(u, kind) :
                   i \in OfKind(t, kind) \/ (i = Len(u) /\ r.kind = kind)
             /\ r.kind = kind => Len(u) \in OfKind(u, kind)
             /\ u[Len(u)] = r
<1> DEFINE u == Append(t, r)
<1>1. /\ u \in Seq(Record) /\ Len(u) = Len(t) + 1
      /\ \A i \in 1..Len(t) : u[i] = t[i]
      /\ u[Len(t) + 1] = r
  BY AppendProperties
<1>2. /\ DOMAIN t = 1..Len(t) /\ DOMAIN u = 1..Len(u) /\ Len(t) \in Nat
  BY <1>1, LenProperties
<1> HIDE DEF u
<1>3. \A i \in DOMAIN u : i \in DOMAIN t \/ i = Len(u)
  BY <1>1, <1>2
<1>4. \A i \in DOMAIN t : i \in DOMAIN u
  BY <1>1, <1>2
<1>5. Len(u) \in DOMAIN u
  BY <1>1, <1>2
<1>6. \A i \in OfKind(t, kind) : i \in OfKind(u, kind) /\ u[i] = t[i]
  BY <1>1, <1>2, <1>4 DEF OfKind
<1>7. \A i \in OfKind(u, kind) : i \in OfKind(t, kind) \/ (i = Len(u) /\ r.kind = kind)
  <2> SUFFICES ASSUME NEW i \in DOMAIN u, u[i].kind = kind
               PROVE  \/ i \in DOMAIN t /\ t[i].kind = kind
                      \/ i = Len(u) /\ r.kind = kind
    BY DEF OfKind
  <2>1. CASE i \in DOMAIN t
    BY <1>1, <1>2, <2>1
  <2>2. CASE i = Len(u)
    BY <1>1, <2>2
  <2> QED
    BY <1>3, <2>1, <2>2
<1>8. r.kind = kind => Len(u) \in OfKind(u, kind)
  BY <1>1, <1>5 DEF OfKind
<1> QED
  BY <1>1, <1>6, <1>7, <1>8 DEF u

\* One record more that names its source.
LEMMA TraceGrows ==
  ASSUME NEW t \in Seq(Record), NEW r \in Record, NEW kind,
         NEW B, B \subseteq 1..Len(t)
  PROVE  LET u == Append(t, r)
         IN  /\ \A i \in Sourced(t, B, kind) : i \in Sourced(u, B, kind) /\ u[i] = t[i]
             /\ \A i \in Sourced(u, B, kind) :
                   i \in Sourced(t, B, kind) \/ (i = Len(u) /\ r.kind = kind)
             /\ r.kind = kind => Len(u) \in Sourced(u, B, kind)
<1> DEFINE u == Append(t, r)
<1>1. /\ Len(u) = Len(t) + 1
      /\ \A i \in OfKind(t, kind) : i \in OfKind(u, kind) /\ u[i] = t[i]
      /\ \A i \in OfKind(u, kind) :
            i \in OfKind(t, kind) \/ (i = Len(u) /\ r.kind = kind)
      /\ r.kind = kind => Len(u) \in OfKind(u, kind)
  BY KindGrows
<1> HIDE DEF u
<1>2. Len(t) \in Nat
  BY LenProperties
<1>3. Len(u) \notin B
  BY <1>1, <1>2
<1>4. /\ \A i \in Sourced(t, B, kind) : i \in Sourced(u, B, kind) /\ u[i] = t[i]
      /\ \A i \in Sourced(u, B, kind) :
            i \in Sourced(t, B, kind) \/ (i = Len(u) /\ r.kind = kind)
      /\ r.kind = kind => Len(u) \in Sourced(u, B, kind)
  BY <1>1, <1>3 DEF Sourced
<1> QED
  BY <1>4 DEF u

\* One that does not.
LEMMA BlankGrows ==
  ASSUME NEW t \in Seq(Record), NEW r \in Record, NEW kind,
         NEW B, B \subseteq 1..Len(t)
  PROVE  LET u == Append(t, r)
             C == B \cup {Len(u)}
         IN  /\ Sourced(u, C, kind) = Sourced(t, B, kind)
             /\ \A i \in Sourced(u, C, kind) : u[i] = t[i]
<1> DEFINE u == Append(t, r)
           C == B \cup {Len(u)}
<1>1. /\ Len(u) = Len(t) + 1
      /\ \A i \in OfKind(t, kind) : i \in OfKind(u, kind) /\ u[i] = t[i]
      /\ \A i \in OfKind(u, kind) : i \in OfKind(t, kind) \/ i = Len(u)
  BY KindGrows
<1>2. Len(t) \in Nat /\ OfKind(t, kind) \subseteq 1..Len(t)
  BY KindType
<1> HIDE DEF u
<1>3. Len(u) \notin OfKind(t, kind)
  BY <1>1, <1>2
<1>4. Sourced(u, C, kind) = Sourced(t, B, kind)
  BY <1>1, <1>3 DEF Sourced
<1>5. \A i \in Sourced(u, C, kind) : u[i] = t[i]
  BY <1>1, <1>4 DEF Sourced
<1> QED
  BY <1>4, <1>5 DEF u

LEMMA ClockStays ==
  ASSUME NEW t \in Seq(Record), NEW r \in Record,
         NEW B, B \subseteq 1..Len(t), NEW kind, r.kind # kind,
         NEW c, Clocked(t, B, kind, c)
  PROVE  Clocked(Append(t, r), B, kind, c)
<1> DEFINE u == Append(t, r)
<1>1. /\ \A i \in Sourced(t, B, kind) : i \in Sourced(u, B, kind) /\ u[i] = t[i]
      /\ \A i \in Sourced(u, B, kind) : i \in Sourced(t, B, kind)
  <2>1. \A i \in Sourced(t, B, kind) : i \in Sourced(u, B, kind)
    BY TraceGrows
  <2>2. \A i \in Sourced(u, B, kind) :
           i \in Sourced(t, B, kind) \/ (i = Len(u) /\ r.kind = kind)
    BY TraceGrows
  <2>3. Sourced(t, B, kind) \subseteq 1..Len(t)
    BY SourcedType
  <2>4. \A i \in 1..Len(t) : u[i] = t[i]
    BY AppendProperties
  <2> HIDE DEF u
  <2> QED
    BY <2>1, <2>2, <2>3, <2>4
<1> HIDE DEF u
<1>2. Sourced(u, B, kind) = Sourced(t, B, kind)
  BY <1>1
<1>3. Clocked(u, B, kind, c)
  BY <1>1, <1>2 DEF Clocked
<1> QED
  BY <1>3 DEF u

LEMMA ClockMoves ==
  ASSUME NEW t \in Seq(Record), NEW r \in Record,
         NEW B, B \subseteq 1..Len(t), NEW c, Clocked(t, B, r.kind, c),
         NEW d \in {c, r.ts}, d >= c, d >= r.ts
  PROVE  /\ Clocked(Append(t, r), B, r.kind, d)
         /\ Sourced(Append(t, r), B, r.kind) # {}
<1> DEFINE u == Append(t, r)
           kind == r.kind
           S == Sourced(t, B, kind)
           V == Sourced(u, B, kind)
<1>1. /\ \A i \in S : i \in V /\ u[i] = t[i]
      /\ \A i \in V : i \in S \/ i = Len(u)
      /\ Len(u) \in V
      /\ u[Len(u)] = r
  <2>1. kind = r.kind
    OBVIOUS
  <2> HIDE DEF kind
  <2>2. /\ \A i \in S : i \in V /\ u[i] = t[i]
        /\ \A i \in V : i \in S \/ (i = Len(u) /\ r.kind = kind)
        /\ r.kind = kind => Len(u) \in V
    BY TraceGrows
  <2>3. u[Len(u)] = r
    BY KindGrows
  <2> HIDE DEF u, S, V
  <2> QED
    BY <2>1, <2>2, <2>3
<1>2. r.ts \in Nat /\ c \in Nat /\ d \in Nat
  BY DEF Record, Clocked
<1>3. /\ \A i \in S : t[i].ts \in Nat /\ t[i].ts <= c
      /\ (S = {} /\ c = 0) \/ \E i \in S : t[i].ts = c
  <2>1. \A i \in S : t[i].ts \in Nat
    BY SourcedType
  <2>2. Clocked(t, B, kind, c)
    OBVIOUS
  <2> HIDE DEF kind
  <2> QED
    BY <2>1, <2>2 DEF Clocked
<1> HIDE DEF u, S, V
<1>4. ASSUME NEW i \in V
      PROVE  u[i].ts <= d
  <2>1. CASE i \in S
    <3>1. u[i].ts <= c /\ u[i].ts \in Nat
      BY <1>1, <1>3, <2>1
    <3> QED
      BY <1>2, <3>1
  <2>2. CASE i = Len(u)
    BY <1>1, <2>2
  <2> QED
    BY <1>1, <2>1, <2>2
<1>5. \E i \in V : u[i].ts = d
  <2>1. CASE d = r.ts
    BY <1>1, <2>1
  <2>2. CASE d = c
    <3>1. CASE c = 0
      <4>1. r.ts = d
        BY <1>2, <2>2, <3>1
      <4> QED
        BY <1>1, <4>1
    <3>2. CASE \E i \in S : t[i].ts = c
      BY <1>1, <2>2, <3>2
    <3> QED
      BY <1>3, <3>1, <3>2
  <2> QED
    BY <2>1, <2>2
<1>6. Clocked(u, B, kind, d) /\ V # {}
  <2> HIDE DEF kind
  <2> QED
    BY <1>1, <1>2, <1>4, <1>5 DEF Clocked, V
<1> QED
  BY <1>6 DEF u, V

\* Later records change nothing about an alert.
LEMMA SoundStays ==
  ASSUME NEW t \in Seq(Record), NEW r \in Record,
         NEW B, B \subseteq 1..Len(t), NEW a \in Raised, Sound(t, B, a)
  PROVE  Sound(Append(t, r), B, a)
<1> DEFINE u == Append(t, r)
           kind == KIND_OF[a.class]
           S == Sourced(t, B, kind)
           V == Sourced(u, B, kind)
<1>1. /\ Len(u) = Len(t) + 1
      /\ \A i \in S : i \in V /\ u[i] = t[i]
      /\ \A i \in V : i \in S \/ i = Len(u)
  <2> HIDE DEF kind
  <2>1. /\ \A i \in Sourced(t, B, kind) : i \in Sourced(u, B, kind) /\ u[i] = t[i]
        /\ \A i \in Sourced(u, B, kind) :
              i \in Sourced(t, B, kind) \/ (i = Len(u) /\ r.kind = kind)
    BY TraceGrows
  <2>2. Len(u) = Len(t) + 1
    BY AppendProperties
  <2> HIDE DEF u
  <2> QED
    BY <2>1, <2>2
<1>2. /\ a.by \in 1..Len(t) /\ a.at \in (a.by - 1)..a.by
      /\ \E i \in S : i <= a.by /\ t[i].ts >= a.ts
      /\ a.class \in ByTheClock =>
            \A i \in S : i <= a.by => t[i].ts <= a.ts
  BY DEF Sound
<1>3. Len(t) \in Nat
  BY LenProperties
<1> HIDE DEF u, kind, S, V
<1>4. a.by \in 1..Len(u) /\ ~(Len(u) <= a.by)
  BY <1>1, <1>2, <1>3
<1>5. \E i \in V : i <= a.by /\ u[i].ts >= a.ts
  BY <1>1, <1>2
<1>6. a.class \in ByTheClock =>
         \A i \in V : i <= a.by => u[i].ts <= a.ts
  BY <1>1, <1>2, <1>4
<1> QED
  BY <1>2, <1>4, <1>5, <1>6 DEF Sound, u, kind, V

\* Nor does one without a source, whose time is past or future.
LEMMA BlankChangesNothing ==
  ASSUME NEW t \in Seq(Record), NEW r \in Record,
         NEW B, B \subseteq 1..Len(t)
  PROVE  LET u == Append(t, r)
             C == B \cup {Len(u)}
         IN  /\ \A k, c : Clocked(t, B, k, c) => Clocked(u, C, k, c)
             /\ \A a \in Raised : Sound(t, B, a) => Sound(u, C, a)
<1> DEFINE u == Append(t, r)
           C == B \cup {Len(u)}
<1>1. \A k : /\ Sourced(u, C, k) = Sourced(t, B, k)
             /\ \A i \in Sourced(u, C, k) : u[i] = t[i]
  BY BlankGrows
<1>2. Len(u) = Len(t) + 1 /\ Len(t) \in Nat
  BY KindGrows, LenProperties
<1> HIDE DEF u, C
<1>3. \A k, c : Clocked(t, B, k, c) => Clocked(u, C, k, c)
  BY <1>1 DEF Clocked
<1>4. ASSUME NEW a \in Raised, Sound(t, B, a)
      PROVE  Sound(u, C, a)
  <2>1. a.by \in 1..Len(u)
    BY <1>2, <1>4 DEF Sound
  <2> QED
    BY <1>1, <1>4, <2>1 DEF Sound
<1> QED
  BY <1>3, <1>4 DEF u, C

\* Alerts raised with the newest record, dated no later than the clock.
LEMMA RaiseIsSound ==
  ASSUME NEW t \in Seq(Record), trace' = t, NEW B,
         stamps' \in (Len(t) - 1)..Len(t), stamps' \in Nat,
         raised \subseteq Raised, \A a \in raised : Sound(t, B, a),
         NEW alerts, Raise(alerts),
         NEW kind, NEW d, Clocked(t, B, kind, d), Sourced(t, B, kind) # {},
         \A a \in alerts : /\ a.class \in DOMAIN KIND_OF
                           /\ KIND_OF[a.class] = kind
                           /\ a.ts \in Nat /\ a.ts <= d
                           /\ a.class \in ByTheClock => a.ts = d
  PROVE  /\ raised' \subseteq Raised
         /\ \A a \in raised' : Sound(t, B, a)
<1>1. raised' = raised \cup
         {[class |-> a.class, ts |-> a.ts, by |-> Len(t), at |-> stamps'] : a \in alerts}
  BY DEF Raise
<1>2. /\ Sourced(t, B, kind) \subseteq 1..Len(t) /\ Len(t) \in Nat
      /\ \A i \in Sourced(t, B, kind) : t[i].ts \in Nat
  BY SourcedType
<1>3. ASSUME NEW a \in alerts
      PROVE  LET e == [class |-> a.class, ts |-> a.ts, by |-> Len(t), at |-> stamps']
             IN  e \in Raised /\ Sound(t, B, e)
  <2> DEFINE e == [class |-> a.class, ts |-> a.ts, by |-> Len(t), at |-> stamps']
  <2>1. /\ e.class = a.class /\ e.ts = a.ts /\ e.by = Len(t) /\ e.at = stamps'
        /\ KIND_OF[e.class] = kind
    OBVIOUS
  <2>2. e \in Raised
    BY <1>2 DEF Raised
  <2> HIDE DEF e
  <2>3. d \in Nat /\ a.ts \in Nat /\ a.ts <= d
    BY DEF Clocked
  <2>4. PICK i \in Sourced(t, B, kind) : t[i].ts = d
    BY DEF Clocked
  <2>5. /\ e.by \in 1..Len(t) /\ e.at \in (e.by - 1)..e.by
        /\ \A j \in Sourced(t, B, kind) : j <= e.by
    BY <1>2, <2>1, <2>4
  <2>6. \E j \in Sourced(t, B, kind) : j <= e.by /\ t[j].ts >= e.ts
    BY <2>1, <2>3, <2>4, <2>5
  <2>7. e.class \in ByTheClock => \A j \in Sourced(t, B, kind) : t[j].ts <= e.ts
    BY <2>1 DEF Clocked
  <2>8. Sound(t, B, e)
    BY <2>1, <2>5, <2>6, <2>7 DEF Sound
  <2> QED
    BY <2>2, <2>8 DEF e
<1> QED
  BY <1>1, <1>3

\* So the join finds the moment.
LEMMA TraceInvImplies == TraceInv => LatencyIsSound
<1> SUFFICES ASSUME TraceInv, NEW a \in raised
             PROVE  LET kind == KIND_OF[a.class]
                        fed == fed_at(trace, kind, a.ts)
                        moved == Max({i \in Moves(kind) : i <= a.by})
                    IN  /\ fed # NotFed
                        /\ fed <= a.at \/ fed = a.by
                        /\ a.class \in ByTheClock =>
                              fed = moved \/ (fed < moved /\ fed \in blanks)
  BY DEF LatencyIsSound
<1> DEFINE kind == KIND_OF[a.class]
           K == OfKind(trace, kind)
           S == Sourced(trace, blanks, kind)
           advances == load_trace(trace, kind)
           reached == {i \in advances : trace[i].ts >= a.ts}
           moves == Moves(kind)
           R == {i \in K : trace[i].ts >= a.ts}
           first == Min(R)
<1>1. /\ K \subseteq 1..Len(trace) /\ K \subseteq Nat /\ Len(trace) \in Nat
      /\ \A i \in K : trace[i].ts \in Nat
  BY KindType DEF TraceInv
<1>2. /\ a.by \in 1..Len(trace) /\ a.at \in (a.by - 1)..a.by
      /\ \E i \in S : i <= a.by /\ trace[i].ts >= a.ts
      /\ a.class \in ByTheClock => \A i \in S : i <= a.by => trace[i].ts <= a.ts
      /\ a.ts \in Nat
  BY DEF TraceInv, Sound, Raised
<1>3. /\ advances = {i \in K : \A j \in K : j < i => trace[j].ts < trace[i].ts}
      /\ moves = {i \in S : \A j \in S : j < i => trace[j].ts < trace[i].ts}
      /\ S = K \ blanks
  BY DEF load_trace, Moves, Sourced
<1> HIDE DEF K, S, advances, moves, kind
<1>4. first \in R /\ \A i \in R : first <= i
  <2>1. R \subseteq Nat /\ R # {}
    BY <1>1, <1>2, <1>3
  <2> HIDE DEF R
  <2> QED
    BY <2>1, MinOfNat
<1> HIDE DEF first
<1>5. /\ first \in K /\ trace[first].ts >= a.ts
      /\ first \in Nat /\ first # 0 /\ first <= a.by
  <2>1. first \in K /\ trace[first].ts >= a.ts
    BY <1>4
  <2>2. PICK i \in K : i <= a.by /\ trace[i].ts >= a.ts
    BY <1>2, <1>3
  <2>3. first <= i
    BY <1>4, <2>2
  <2> QED
    BY <1>1, <1>2, <2>1, <2>2, <2>3
<1>6. ASSUME NEW j \in K, j < first
      PROVE  trace[j].ts < a.ts
  <2>1. j \notin R
    BY <1>1, <1>4, <1>5, <1>6
  <2> QED
    BY <1>1, <1>2, <2>1
<1>7. first \in advances
  <2>1. \A j \in K : j < first => trace[j].ts < trace[first].ts
    BY <1>1, <1>2, <1>5, <1>6
  <2> QED
    BY <1>3, <1>5, <2>1
<1>8. reached # {} /\ fed_at(trace, kind, a.ts) = first
  <2>1. first \in reached /\ reached \subseteq R
    BY <1>3, <1>5, <1>7
  <2>2. reached \subseteq Nat
    BY <1>1, <2>1
  <2>3. fed_at(trace, kind, a.ts) = Min(reached)
    BY <2>1 DEF fed_at, advances
  <2> HIDE DEF reached
  <2>4. Min(reached) \in reached /\ Min(reached) <= first
    BY <2>1, <2>2, MinOfNat
  <2>5. first <= Min(reached)
    BY <1>4, <2>1, <2>4
  <2> QED
    BY <1>5, <2>1, <2>2, <2>3, <2>4, <2>5
<1>9. first <= a.at \/ first = a.by
  BY <1>2, <1>5
<1>10. ASSUME a.class \in ByTheClock
       PROVE  \/ first = Max({i \in moves : i <= a.by})
              \/ first < Max({i \in moves : i <= a.by}) /\ first \in blanks
  <2> DEFINE Q == {i \in S : trace[i].ts >= a.ts}
             last == Min(Q)
             moved == {i \in moves : i <= a.by}
  <2>1. last \in Q /\ \A i \in Q : last <= i
    <3>1. Q \subseteq Nat /\ Q # {}
      BY <1>1, <1>2, <1>3
    <3> HIDE DEF Q
    <3> QED
      BY <3>1, MinOfNat
  <2> HIDE DEF last
  <2>2. /\ last \in S /\ last \in K /\ last \in Nat /\ trace[last].ts >= a.ts
        /\ last <= a.by
    <3>1. PICK i \in S : i <= a.by /\ trace[i].ts >= a.ts
      BY <1>2
    <3>2. last <= i /\ i \in Nat
      BY <1>1, <1>3, <2>1, <3>1
    <3> QED
      BY <1>1, <1>2, <1>3, <2>1, <3>1, <3>2
  <2>3. trace[last].ts = a.ts
    BY <1>1, <1>2, <1>10, <2>2
  <2>4. last \in moved
    <3>1. ASSUME NEW j \in S, j < last
          PROVE  trace[j].ts < trace[last].ts
      <4>1. j \notin Q
        BY <1>1, <1>3, <2>1, <2>2, <3>1
      <4>2. trace[j].ts \in Nat
        BY <1>1, <1>3
      <4> QED
        BY <1>2, <2>3, <4>1, <4>2
    <3> QED
      BY <1>3, <2>2, <3>1
  <2>5. ASSUME NEW i \in moved
        PROVE  i <= last
    <3>1. /\ i \in S /\ i <= a.by /\ i \in Nat
          /\ \A j \in S : j < i => trace[j].ts < trace[i].ts
      BY <1>1, <1>3
    <3>2. trace[i].ts <= a.ts /\ trace[i].ts \in Nat
      BY <1>1, <1>2, <1>3, <1>10, <3>1
    <3>3. ~(last < i)
      BY <1>1, <1>2, <2>2, <2>3, <3>1, <3>2
    <3> QED
      BY <2>2, <3>1, <3>3
  <2>6. \A i \in moved : i \in Nat
    BY <1>1, <1>3
  <2> HIDE DEF moved
  <2>7. Max(moved) = last
    <3>1. \E x \in moved : \A y \in moved : x >= y
      <4>1. \A y \in moved : last >= y
        BY <2>2, <2>5, <2>6
      <4> QED
        BY <2>4, <4>1
    <3>2. Max(moved) \in moved /\ \A i \in moved : Max(moved) >= i
      BY <3>1 DEF Max
    <3>3. Max(moved) \in Nat /\ Max(moved) >= last /\ Max(moved) <= last
      BY <2>4, <2>5, <2>6, <3>2
    <3> QED
      BY <2>2, <3>3
  <2>8. first <= last
    BY <1>4, <2>2
  <2>9. CASE first = last
    BY <2>7, <2>9 DEF moved
  <2>10. CASE first < last
    <3>1. first \notin Q
      BY <1>5, <2>1, <2>2, <2>10
    <3>2. first \in blanks
      BY <1>3, <1>5, <3>1
    <3> QED
      BY <2>7, <2>10, <3>2 DEF moved
  <2> QED
    BY <1>5, <2>2, <2>8, <2>9, <2>10
<1> QED
  BY <1>5, <1>8, <1>9, <1>10 DEF kind, NotFed, moves

\* No flow of a window is newer than the clock.
LEMMA WindowIsPast ==
  ASSUME WindowInv, NEW f \in Flow, NEW clock \in Nat, now <= clock, f.ts <= clock,
         \A i \in DOMAIN held[f.src] : held[f.src][i].ts <= now
  PROVE  \A i \in DOMAIN Window(f, clock) : Window(f, clock)[i].ts <= clock
<1> DEFINE h == held[f.src]
           g == Append(h, f)
           w == Window(f, clock)
<1>1. h \in Seq(Flow) /\ Len(h) \in Nat /\ DOMAIN h = 1..Len(h) /\ now \in Nat
  BY FlowType, LenProperties DEF WindowInv
<1>2. /\ g \in Seq(Flow) /\ Len(g) = Len(h) + 1
      /\ \A i \in 1..Len(h) : g[i] = h[i]
      /\ g[Len(h) + 1] = f
  BY <1>1, AppendProperties
<1>3. PICK k \in 0..Len(g) : w = SubSeq(g, k + 1, Len(g))
  <2>1. clock - Span \in Int
    BY SpanType
  <2> QED
    BY <1>2, <2>1, TrimmedLosesStale DEF Window
<1>4. \A i \in 1..Len(h) : h[i].ts \in Nat /\ h[i].ts <= now
  BY <1>1, ElementOfSeq, FlowType
<1> HIDE DEF g, h
<1>5. /\ w \in Seq(Flow) /\ Len(w) = Len(g) - k
      /\ \A i \in 1..(Len(g) - k) : w[i] = g[k + i]
  BY <1>2, <1>3, Rest
<1>6. DOMAIN w = 1..(Len(g) - k)
  BY <1>5, LenProperties
<1>7. \A i \in 1..Len(g) : g[i].ts <= clock
  <2> SUFFICES ASSUME NEW i \in 1..Len(g)
               PROVE  g[i].ts <= clock
    OBVIOUS
  <2>1. CASE i \in 1..Len(h)
    <3>1. g[i].ts <= now /\ g[i].ts \in Nat
      BY <1>2, <1>4, <2>1
    <3> QED
      BY <1>1, <3>1
  <2>2. CASE i = Len(h) + 1
    BY <1>2, <2>2
  <2> QED
    BY <1>1, <1>2, <2>1, <2>2
<1>8. \A i \in 1..(Len(g) - k) : k + i \in 1..Len(g)
  BY <1>1, <1>2
<1> QED
  BY <1>5, <1>6, <1>7, <1>8

\* The alerts of connections: a scan is dated by a flow of the window, and the
\* others by the clock.
LEMMA FiredNowType ==
  ASSUME NEW called, Emit(called), NEW clock \in Nat,
         \A a \in called :
            \/ a.key[1] = "port_scan" /\ a.at \in Nat /\ a.at <= clock
            \/ a.key[1] \in {"ddos", "exfiltration", "c2_beacon"} /\ a.at = clock
  PROVE  \A a \in FiredNow : /\ a.class \in DOMAIN KIND_OF
                             /\ KIND_OF[a.class] = "conn"
                             /\ a.ts \in Nat /\ a.ts <= clock
                             /\ a.class \in ByTheClock => a.ts = clock
<1> SUFFICES ASSUME NEW k \in DOMAIN fired',
                    k \notin DOMAIN fired \/ fired'[k] # fired[k]
             PROVE  /\ k[1] \in DOMAIN KIND_OF
                    /\ KIND_OF[k[1]] = "conn"
                    /\ fired'[k] \in Nat /\ fired'[k] <= clock
                    /\ k[1] \in ByTheClock => fired'[k] = clock
  BY DEF FiredNow
<1>1. PICK a \in called : a.key = k /\ fired'[k] = a.at
  BY EmitFires
<1>2. \/ k[1] = "port_scan" /\ fired'[k] \in Nat /\ fired'[k] <= clock
      \/ k[1] \in {"ddos", "exfiltration", "c2_beacon"} /\ fired'[k] = clock
  BY <1>1
<1>3. \A c \in {"port_scan", "ddos", "exfiltration", "c2_beacon"} :
         c \in DOMAIN KIND_OF /\ KIND_OF[c] = "conn"
  BY DEF KIND_OF
<1>4. "port_scan" \notin ByTheClock
  BY DEF ByTheClock
<1> QED
  BY <1>2, <1>3, <1>4

LEMMA ScanIsPast ==
  ASSUME NEW q \in Seq(Flow), NEW clock \in Nat,
         \A i \in DOMAIN q : q[i].ts <= clock,
         NEW x, NEW a \in Scan(x, q)
  PROVE  a.key[1] = "port_scan" /\ a.at \in Nat /\ a.at <= clock
<1>1. /\ a.key = <<"port_scan", x>> /\ Range(q) # {}
      /\ a.at = Max({f.ts : f \in Range(q)})
  BY ScanSays
<1>2. /\ Max({f.ts : f \in Range(q)}) \in {f.ts : f \in Range(q)}
      /\ Max({f.ts : f \in Range(q)}) \in Nat
  BY <1>1, NewestTime
<1>3. \A f \in Range(q) : f.ts <= clock
  BY DEF Range
<1> QED
  BY <1>1, <1>2, <1>3

\* What the feeder does with a record.
LEMMA FedSays ==
  ASSUME TraceInv, NEW kind \in {"conn", "dns", "ssl"}, NEW ts \in Nat, Fed(kind, ts)
  PROVE  LET r == [kind |-> kind, ts |-> ts]
             t == Append(trace, r)
         IN  /\ r \in Record /\ r.kind = kind /\ r.ts = ts
             /\ trace \in Seq(Record) /\ t \in Seq(Record) /\ trace' = t
             /\ stamps' \in (Len(t) - 1)..Len(t) /\ stamps' \in Nat
             /\ blanks \subseteq 1..Len(trace) /\ blanks \subseteq OfKind(t, "conn")
<1> DEFINE r == [kind |-> kind, ts |-> ts]
           t == Append(trace, r)
<1>1. r \in Record /\ r.kind = kind /\ r.ts = ts
  BY DEF Record
<1>2. trace \in Seq(Record) /\ trace' = t /\ blanks \subseteq OfKind(trace, "conn")
  BY DEF TraceInv, Fed
<1>3. stamps' \in {Len(trace), Len(t)}
  BY <1>2 DEF Fed
<1> HIDE DEF r
<1>4. /\ t \in Seq(Record) /\ Len(t) = Len(trace) + 1
      /\ OfKind(trace, "conn") \subseteq OfKind(t, "conn")
  BY <1>1, <1>2, KindGrows
<1>5. OfKind(trace, "conn") \subseteq 1..Len(trace) /\ Len(trace) \in Nat
  BY <1>2, KindType
<1> HIDE DEF t
<1>6. stamps' \in (Len(t) - 1)..Len(t) /\ stamps' \in Nat
  BY <1>3, <1>4, <1>5
<1> QED
  BY <1>1, <1>2, <1>4, <1>5, <1>6 DEF r, t

LEMMA ConnKeepsTrace ==
  ASSUME TraceInv, IInv, HandleConn
  PROVE  TraceInv'
<1>1. PICK f \in Flow : on_conn(f) /\ Fed("conn", f.ts)
  BY DEF HandleConn
<1> DEFINE clock == Max({now, f.ts})
           r == [kind |-> "conn", ts |-> f.ts]
           t == Append(trace, r)
<1>2. /\ clock \in Nat /\ now \in Nat /\ f.ts \in Nat /\ clock \in {now, f.ts}
      /\ clock >= now /\ clock >= f.ts
  BY FlowType, MaxOfTwo DEF IInv, WindowInv
<1>3. /\ r \in Record /\ r.kind = "conn" /\ r.ts = f.ts
      /\ trace \in Seq(Record) /\ t \in Seq(Record) /\ trace' = t
      /\ stamps' \in (Len(t) - 1)..Len(t) /\ stamps' \in Nat
      /\ blanks \subseteq 1..Len(trace) /\ blanks \subseteq OfKind(t, "conn")
  BY <1>1, <1>2, FedSays
<1>4. now' = clock /\ dnsNow' = dnsNow /\ tlsNow' = tlsNow /\ blanks' = blanks
  BY <1>1 DEF on_conn, HandleConn, dnsVars, tlsVars
<1>5. /\ Clocked(trace, blanks, "conn", now) /\ Clocked(trace, blanks, "dns", dnsNow)
      /\ Clocked(trace, blanks, "ssl", tlsNow)
  BY DEF TraceInv
<1> HIDE DEF r
<1>6. Clocked(t, blanks, "conn", clock) /\ Sourced(t, blanks, "conn") # {}
  BY <1>2, <1>3, <1>5, ClockMoves
<1>7. Clocked(t, blanks, "dns", dnsNow) /\ Clocked(t, blanks, "ssl", tlsNow)
  BY <1>3, <1>5, ClockStays
<1>8. \A i \in DOMAIN Window(f, clock) : Window(f, clock)[i].ts <= clock
  BY <1>2, FlowType, WindowIsPast DEF IInv, TraceInv
<1>9. \A s \in Sources : \A i \in DOMAIN held'[s] : held'[s][i].ts <= clock
  <2> SUFFICES ASSUME NEW s \in Sources, NEW i \in DOMAIN held'[s]
               PROVE  held'[s][i].ts <= clock
    OBVIOUS
  <2>1. held' = [x \in Sources |->
                    IF x \in Dead(f, clock) THEN <<>>
                    ELSE IF x = f.src THEN Window(f, clock) ELSE held[x]]
    BY <1>1 DEF on_conn
  <2> HIDE DEF clock
  <2>2. CASE held'[s] = <<>>
    <3>1. DOMAIN <<>> = {}
      OBVIOUS
    <3> QED
      BY <2>2, <3>1
  <2>3. CASE held'[s] = Window(f, clock)
    BY <1>8, <2>3
  <2>4. CASE held'[s] = held[s]
    <3>1. held[s][i].ts <= now /\ i \in DOMAIN held[s]
      BY <2>4 DEF TraceInv
    <3>2. held[s][i].ts \in Nat
      <4>1. held[s] \in Seq(Flow)
        BY DEF IInv, WindowInv
      <4>2. i \in 1..Len(held[s])
        BY <3>1, <4>1, LenProperties
      <4> QED
        BY <4>1, <4>2, ElementOfSeq, FlowType
    <3> QED
      BY <1>2, <2>4, <3>1, <3>2
  <2> QED
    BY <2>1, <2>2, <2>3, <2>4
<1>10. \A a \in raised : Sound(t, blanks, a)
  BY <1>3, SoundStays DEF TraceInv
<1>11. \A a \in Called(f, clock) :
          \/ a.key[1] = "port_scan" /\ a.at \in Nat /\ a.at <= clock
          \/ a.key[1] \in {"ddos", "exfiltration", "c2_beacon"} /\ a.at = clock
  <2>1. Window(f, clock) \in Seq(Flow)
    BY <1>2, WindowType DEF IInv
  <2> HIDE DEF clock
  <2> SUFFICES ASSUME NEW a \in Called(f, clock)
               PROVE  \/ a.key[1] = "port_scan" /\ a.at \in Nat /\ a.at <= clock
                      \/ /\ a.key[1] \in {"ddos", "exfiltration", "c2_beacon"}
                         /\ a.at = clock
    OBVIOUS
  <2>2. CASE a \in Scan(f.src, Window(f, clock))
    BY <1>2, <1>8, <2>1, <2>2, ScanIsPast
  <2>3. CASE \/ a.key = <<"c2_beacon", <<f.src, f.dst>>>> /\ a.at = clock
             \/ a.key = <<"ddos", f.dst>> /\ a.at = clock
             \/ \E d \in Targets :
                   a.key = <<"exfiltration", <<f.src, d>>>> /\ a.at = clock
    BY <2>3
  <2> QED
    BY <2>2, <2>3, CalledSays
<1>12. Emit(Called(f, clock)) /\ Raise(FiredNow)
  BY <1>1 DEF on_conn, HandleConn
<1> HIDE DEF clock, t
<1>13. \A a \in FiredNow : /\ a.class \in DOMAIN KIND_OF
                           /\ KIND_OF[a.class] = "conn"
                           /\ a.ts \in Nat /\ a.ts <= clock
                           /\ a.class \in ByTheClock => a.ts = clock
  BY <1>2, <1>11, <1>12, FiredNowType
<1>14. raised \subseteq Raised
  BY DEF TraceInv
<1>15. raised' \subseteq Raised /\ \A a \in raised' : Sound(t, blanks, a)
  BY <1>3, <1>6, <1>10, <1>12, <1>13, <1>14, RaiseIsSound
<1> QED
  BY <1>3, <1>4, <1>6, <1>7, <1>9, <1>15 DEF TraceInv

LEMMA DnsKeepsTrace ==
  ASSUME TraceInv, DnsTypeInv, HandleDns
  PROVE  TraceInv'
<1>1. PICK l \in Lookups, ts \in QueryTimes :
         on_dns(QueryAt(l, ts)) /\ Fed("dns", ts)
  BY DEF HandleDns, QueryAt
<1> DEFINE q == QueryAt(l, ts)
           clock == Max({dnsNow, q.ts})
           r == [kind |-> "dns", ts |-> ts]
           t == Append(trace, r)
<1>2. q \in DnsQuery /\ q.ts = ts /\ on_dns(q)
  BY <1>1, QueryIsOne DEF QueryAt
<1> HIDE DEF q
<1>3. /\ clock \in QueryTimes /\ clock \in {dnsNow, q.ts} /\ clock \in Nat
      /\ dnsNow \in Nat /\ clock >= dnsNow /\ clock >= q.ts /\ q.ts \in Nat
  BY <1>2, DnsClock, QueryType DEF DnsTypeInv, DnsTypeOK
<1>4. /\ r \in Record /\ r.kind = "dns" /\ r.ts = q.ts
      /\ trace \in Seq(Record) /\ t \in Seq(Record) /\ trace' = t
      /\ stamps' \in (Len(t) - 1)..Len(t) /\ stamps' \in Nat
      /\ blanks \subseteq 1..Len(trace) /\ blanks \subseteq OfKind(t, "conn")
  BY <1>1, <1>2, <1>3, FedSays
<1>5. /\ now' = now /\ dnsNow' = clock /\ tlsNow' = tlsNow /\ held' = held
      /\ blanks' = blanks
  BY <1>2 DEF on_dns, HandleDns, vars, connVars, tlsVars
<1>6. /\ Clocked(trace, blanks, "conn", now) /\ Clocked(trace, blanks, "dns", dnsNow)
      /\ Clocked(trace, blanks, "ssl", tlsNow)
  BY DEF TraceInv
<1> HIDE DEF r
<1>7. Clocked(t, blanks, "dns", clock) /\ Sourced(t, blanks, "dns") # {}
  BY <1>3, <1>4, <1>6, ClockMoves
<1>8. Clocked(t, blanks, "conn", now) /\ Clocked(t, blanks, "ssl", tlsNow)
  BY <1>4, <1>6, ClockStays
<1>9. \A a \in raised : Sound(t, blanks, a)
  BY <1>4, SoundStays DEF TraceInv
<1>10. Sourced(t, blanks, "conn") = {} => Sourced(trace, blanks, "conn") = {}
  <2>1. \A i \in Sourced(trace, blanks, "conn") : i \in Sourced(t, blanks, "conn")
    BY <1>4, TraceGrows
  <2> QED
    BY <2>1
<1> HIDE DEF clock, t
<1>11. \A a \in Added(dnsAlerts', dnsAlerts) :
          /\ a.class \in DOMAIN KIND_OF
          /\ KIND_OF[a.class] = "dns"
          /\ a.ts \in Nat /\ a.ts <= clock
          /\ a.class \in ByTheClock => a.ts = clock
  <2>1. PICK mid \in Seq(DnsAlert) :
           /\ \/ mid = dnsAlerts
              \/ \E p \in Parents :
                    /\ TunAlert(q.src, p, clock) \in DnsAlert
                    /\ mid = Append(dnsAlerts, TunAlert(q.src, p, clock))
           /\ dnsAlerts' = IF Reported(q) THEN Append(mid, DgaAlert(q)) ELSE mid
           /\ DgaAlert(q) \in DnsAlert
    BY <1>2, <1>3, AlertsAfter DEF clock
  <2>2. dnsAlerts \in Seq(DnsAlert)
    BY DEF DnsTypeInv
  <2> SUFFICES ASSUME NEW i \in DOMAIN dnsAlerts' \ DOMAIN dnsAlerts
               PROVE  LET a == dnsAlerts'[i]
                      IN  /\ a.class \in DOMAIN KIND_OF
                          /\ KIND_OF[a.class] = "dns"
                          /\ a.ts \in Nat /\ a.ts <= clock
                          /\ a.class \in ByTheClock => a.ts = clock
    BY DEF Added
  <2>3. \/ dnsAlerts'[i] = DgaAlert(q)
        \/ \E p \in Parents : dnsAlerts'[i] = TunAlert(q.src, p, clock)
    <3>1. i \in DOMAIN mid => \E p \in Parents : mid[i] = TunAlert(q.src, p, clock)
      BY <2>1, <2>2, NewestOfAppend
    <3>2. i \in DOMAIN mid => dnsAlerts'[i] = mid[i]
      BY <2>1, NewestOfAppend
    <3>3. i \notin DOMAIN mid => dnsAlerts'[i] = DgaAlert(q)
      BY <2>1, NewestOfAppend
    <3> QED
      BY <3>1, <3>2, <3>3
  <2>4. CASE dnsAlerts'[i] = DgaAlert(q)
    BY <1>3, <2>4 DEF DgaAlert, KIND_OF, ByTheClock
  <2>5. CASE \E p \in Parents : dnsAlerts'[i] = TunAlert(q.src, p, clock)
    BY <1>3, <2>5 DEF TunAlert, KIND_OF, ByTheClock
  <2> QED
    BY <2>3, <2>4, <2>5
<1>12. Raise(Added(dnsAlerts', dnsAlerts)) /\ raised \subseteq Raised
  BY DEF HandleDns, TraceInv
<1>13. raised' \subseteq Raised /\ \A a \in raised' : Sound(t, blanks, a)
  BY <1>4, <1>7, <1>9, <1>11, <1>12, RaiseIsSound
<1> QED
  BY <1>4, <1>5, <1>7, <1>8, <1>10, <1>13 DEF TraceInv

LEMMA SslKeepsTrace ==
  ASSUME TraceInv, TlsTypeInv, HandleSsl
  PROVE  TraceInv'
<1>1. PICK s \in Sessions, ts \in SessionTimes :
         on_ssl(SessionAt(s, ts)) /\ Fed("ssl", ts)
  BY DEF HandleSsl, SessionAt
<1> DEFINE clock == Max({tlsNow, ts})
           e == TlsAlert(SessionAt(s, ts), clock)
           r == [kind |-> "ssl", ts |-> ts]
           t == Append(trace, r)
<1>2. /\ clock \in {tlsNow, ts} /\ clock \in Nat
      /\ tlsNow \in Nat /\ clock >= tlsNow /\ clock >= ts /\ ts \in Nat
  BY TlsClock DEF TlsTypeInv, TlsTypeOK
<1>3. e \in TlsRaised /\ e.ts <= clock
  BY TlsAlertType DEF TlsTypeInv, TlsTypeOK
<1>4. /\ r \in Record /\ r.kind = "ssl" /\ r.ts = ts
      /\ trace \in Seq(Record) /\ t \in Seq(Record) /\ trace' = t
      /\ stamps' \in (Len(t) - 1)..Len(t) /\ stamps' \in Nat
      /\ blanks \subseteq 1..Len(trace) /\ blanks \subseteq OfKind(t, "conn")
  BY <1>1, <1>2, FedSays
<1>5. /\ now' = now /\ dnsNow' = dnsNow /\ tlsNow' = clock /\ held' = held
      /\ blanks' = blanks
  BY <1>1 DEF on_ssl, SessionAt, HandleSsl, vars, connVars, dnsVars
<1>6. tlsAlerts' = tlsAlerts \/ tlsAlerts' = Append(tlsAlerts, e)
  BY <1>1 DEF on_ssl, SessionAt
<1> HIDE DEF r, e
<1>7. /\ Clocked(trace, blanks, "conn", now) /\ Clocked(trace, blanks, "dns", dnsNow)
      /\ Clocked(trace, blanks, "ssl", tlsNow)
  BY DEF TraceInv
<1>8. Clocked(t, blanks, "ssl", clock) /\ Sourced(t, blanks, "ssl") # {}
  BY <1>2, <1>4, <1>7, ClockMoves
<1>9. Clocked(t, blanks, "conn", now) /\ Clocked(t, blanks, "dns", dnsNow)
  BY <1>4, <1>7, ClockStays
<1>10. \A a \in raised : Sound(t, blanks, a)
  BY <1>4, SoundStays DEF TraceInv
<1>11. Sourced(t, blanks, "conn") = {} => Sourced(trace, blanks, "conn") = {}
  <2>1. \A i \in Sourced(trace, blanks, "conn") : i \in Sourced(t, blanks, "conn")
    BY <1>4, TraceGrows
  <2> QED
    BY <2>1
<1> HIDE DEF clock, t
<1>12. \A a \in Added(tlsAlerts', tlsAlerts) :
          /\ a.class \in DOMAIN KIND_OF
          /\ KIND_OF[a.class] = "ssl"
          /\ a.ts \in Nat /\ a.ts <= clock
          /\ a.class \in ByTheClock => a.ts = clock
  <2> SUFFICES ASSUME NEW i \in DOMAIN tlsAlerts' \ DOMAIN tlsAlerts
               PROVE  LET a == tlsAlerts'[i]
                      IN  /\ a.class \in DOMAIN KIND_OF
                          /\ KIND_OF[a.class] = "ssl"
                          /\ a.ts \in Nat /\ a.ts <= clock
                          /\ a.class \in ByTheClock => a.ts = clock
    BY DEF Added
  <2>1. tlsAlerts' = Append(tlsAlerts, e) /\ tlsAlerts \in Seq(TlsRaised)
    BY <1>6 DEF TlsTypeInv
  <2>2. /\ tlsAlerts' \in Seq(TlsRaised) /\ Len(tlsAlerts') = Len(tlsAlerts) + 1
        /\ tlsAlerts'[Len(tlsAlerts) + 1] = e
    BY <1>3, <2>1, AppendProperties
  <2>3. /\ DOMAIN tlsAlerts = 1..Len(tlsAlerts) /\ Len(tlsAlerts) \in Nat
        /\ DOMAIN tlsAlerts' = 1..(Len(tlsAlerts) + 1)
    BY <2>1, <2>2, LenProperties
  <2>4. i = Len(tlsAlerts) + 1
    BY <2>3
  <2>5. tlsAlerts'[i] = e
    BY <2>2, <2>4
  <2>6. e.class = "encrypted_malware" /\ e.ts \in Nat
    BY <1>3 DEF TlsRaised
  <2>7. /\ "encrypted_malware" \in DOMAIN KIND_OF
        /\ KIND_OF["encrypted_malware"] = "ssl"
        /\ "encrypted_malware" \notin ByTheClock
    BY DEF KIND_OF, ByTheClock
  <2> QED
    BY <1>3, <2>5, <2>6, <2>7
<1>13. Raise(Added(tlsAlerts', tlsAlerts)) /\ raised \subseteq Raised
  BY DEF HandleSsl, TraceInv
<1>14. raised' \subseteq Raised /\ \A a \in raised' : Sound(t, blanks, a)
  BY <1>4, <1>8, <1>10, <1>12, <1>13, RaiseIsSound
<1> QED
  BY <1>4, <1>5, <1>8, <1>9, <1>11, <1>14 DEF TraceInv

LEMMA SweepKeepsTrace ==
  ASSUME TraceInv, IInv, EndOfStream
  PROVE  TraceInv'
<1>1. /\ now' = now /\ dnsNow' = dnsNow /\ tlsNow' = tlsNow /\ held' = held
      /\ trace' = trace /\ stamps' = stamps /\ blanks' = blanks
      /\ Raise(FiredNow) /\ Emit(SweepCalled)
  BY DEF EndOfStream, _final_sweep, SweepCalled, dnsVars, tlsVars
<1>2. trace \in Seq(Record) /\ now \in Nat
  BY DEF TraceInv, Clocked
<1>3. ASSUME NEW a \in SweepCalled
      PROVE  /\ \/ a.key[1] = "port_scan" /\ a.at \in Nat /\ a.at <= now
                \/ a.key[1] \in {"ddos", "exfiltration", "c2_beacon"} /\ a.at = now
             /\ \E s \in Sources : held[s] # <<>>
  <2>1. CASE \E s \in Sources : a \in Scan(s, held[s])
    <3>1. PICK s \in Sources : a \in Scan(s, held[s])
      BY <2>1
    <3>2. held[s] \in Seq(Flow) /\ \A i \in DOMAIN held[s] : held[s][i].ts <= now
      BY DEF IInv, WindowInv, TraceInv
    <3>3. a.key[1] = "port_scan" /\ a.at \in Nat /\ a.at <= now
      BY <1>2, <3>1, <3>2, ScanIsPast
    <3>4. held[s] # <<>>
      <4>1. Range(held[s]) # {}
        BY <3>1, ScanSays
      <4>2. DOMAIN <<>> = {}
        OBVIOUS
      <4> QED
        BY <4>1, <4>2 DEF Range
    <3> QED
      BY <3>3, <3>4
  <2>2. CASE \E s \in Sources, d \in Targets :
               /\ a.key = <<"exfiltration", <<s, d>>>> /\ a.at = now
               /\ held[s] # <<>>
    BY <2>2
  <2> QED
    BY <2>1, <2>2, SweepSays DEF IInv
<1>4. \A a \in FiredNow : /\ a.class \in DOMAIN KIND_OF
                          /\ KIND_OF[a.class] = "conn"
                          /\ a.ts \in Nat /\ a.ts <= now
                          /\ a.class \in ByTheClock => a.ts = now
  BY <1>1, <1>2, <1>3, FiredNowType
<1>5. Clocked(trace, blanks, "conn", now) /\ raised \subseteq Raised
  BY DEF TraceInv
<1>6. CASE Sourced(trace, blanks, "conn") # {}
  <2>1. stamps' \in (Len(trace) - 1)..Len(trace) /\ stamps' \in Nat
    <3>1. /\ stamps \in (Len(trace) - 1)..Len(trace) /\ Len(trace) \in Nat
          /\ Sourced(trace, blanks, "conn") \subseteq 1..Len(trace)
      BY <1>2, SourcedType DEF TraceInv
    <3>2. Len(trace) >= 1
      BY <1>6, <3>1
    <3> QED
      BY <1>1, <3>1, <3>2
  <2>2. \A a \in raised : Sound(trace, blanks, a)
    BY DEF TraceInv
  <2>3. raised' \subseteq Raised /\ \A a \in raised' : Sound(trace, blanks, a)
    BY <1>1, <1>2, <1>4, <1>5, <1>6, <2>1, <2>2, RaiseIsSound
  <2> QED
    BY <1>1, <2>3 DEF TraceInv
<1>7. CASE Sourced(trace, blanks, "conn") = {}
  <2>1. SweepCalled = {}
    BY <1>3, <1>7 DEF TraceInv
  <2>2. FiredNow = {}
    BY <1>1, <2>1, EmitFires DEF FiredNow
  <2>3. raised' = raised
    BY <1>1, <2>2 DEF Raise
  <2> QED
    BY <1>1, <2>3 DEF TraceInv
<1> QED
  BY <1>6, <1>7

\* A record that no handler looks at.
LEMMA BlankKeepsTrace ==
  ASSUME TraceInv, HandleBlank
  PROVE  TraceInv'
<1>1. PICK ts \in Times : Fed("conn", ts)
  BY DEF HandleBlank
<1> DEFINE r == [kind |-> "conn", ts |-> ts]
           t == Append(trace, r)
           C == blanks \cup {Len(t)}
<1>2. ts \in Nat
  BY ConnAssumption
<1>3. /\ r \in Record /\ r.kind = "conn"
      /\ trace \in Seq(Record) /\ t \in Seq(Record) /\ trace' = t
      /\ stamps' \in (Len(t) - 1)..Len(t)
      /\ blanks \subseteq 1..Len(trace) /\ blanks \subseteq OfKind(t, "conn")
  BY <1>1, <1>2, FedSays
<1>4. /\ now' = now /\ dnsNow' = dnsNow /\ tlsNow' = tlsNow /\ held' = held
      /\ raised' = raised /\ blanks' = C
  BY <1>3 DEF HandleBlank, vars, connVars, dnsVars, tlsVars
<1> HIDE DEF r
<1>5. /\ \A k, c : Clocked(trace, blanks, k, c) => Clocked(t, C, k, c)
      /\ \A a \in Raised : Sound(trace, blanks, a) => Sound(t, C, a)
  BY <1>3, BlankChangesNothing
<1>6. Sourced(t, C, "conn") = Sourced(trace, blanks, "conn")
  BY <1>3, BlankGrows
<1>7. C \subseteq OfKind(t, "conn")
  <2>1. r.kind = "conn" => Len(t) \in OfKind(t, "conn")
    BY <1>3, KindGrows
  <2> HIDE DEF t
  <2> QED
    BY <1>3, <2>1
<1> HIDE DEF t, C
<1> QED
  BY <1>3, <1>4, <1>5, <1>6, <1>7 DEF TraceInv

LEMMA StampKeepsTrace ==
  ASSUME TraceInv, Stamp
  PROVE  TraceInv'
<1>1. /\ stamps' = Len(trace)
      /\ UNCHANGED <<now, dnsNow, tlsNow, held, trace, blanks, raised>>
  BY DEF Stamp, vars, connVars, dnsVars, tlsVars
<1>2. Len(trace) \in Nat
  BY LenProperties DEF TraceInv
<1>3. stamps' \in (Len(trace) - 1)..Len(trace)
  BY <1>1, <1>2
<1> QED
  BY <1>1, <1>3 DEF TraceInv

LEMMA TraceFrame ==
  ASSUME TraceInv, UNCHANGED handlerVars
  PROVE  TraceInv'
  BY DEF TraceInv, handlerVars, feedVars, vars, connVars, dnsVars, tlsVars

LEMMA TraceInit == HandlersInit => TraceInv
<1> SUFFICES ASSUME HandlersInit
             PROVE  TraceInv
  OBVIOUS
<1>1. /\ trace = <<>> /\ stamps = 0 /\ blanks = {} /\ raised = {} /\ now = 0 /\ dnsNow = 0 /\ tlsNow = 0
      /\ held = [s \in Sources |-> <<>>]
  BY DEF HandlersInit, Init, DnsInit, TlsInit
<1>2. DOMAIN <<>> = {} /\ <<>> \in Seq(Record) /\ Len(<<>>) = 0
  OBVIOUS
<1>3. \A k : Sourced(trace, blanks, k) = {}
  BY <1>1, <1>2 DEF OfKind, Sourced
<1>4. \A k : Clocked(trace, blanks, k, 0)
  BY <1>3 DEF Clocked
<1>5. /\ \A s \in Sources : held[s] = <<>>
      /\ \A s \in Sources : \A i \in DOMAIN held[s] : held[s][i].ts <= now
  BY <1>1, <1>2
<1> QED
  BY <1>1, <1>2, <1>4, <1>5 DEF TraceInv

-----------------------------------------------------------------------------

(* The handlers together.                                                  *)

HandlersInv ==
    /\ ConnInv
    /\ TlsInv /\ TlsTypeInv
    /\ DnsTypeInv /\ DomainInv
    /\ TraceInv

LEMMA HandlersInitEstablishes == HandlersInit => HandlersInv
  BY InitEstablishes, TypeInit, TlsInitEstablishes, TlsTypeInit, DnsTypeInit,
     DomainInit, TraceInit
     DEF HandlersInit, HandlersInv, ConnInv

LEMMA HandlersKeepTlsTypes ==
  ASSUME HandlersInv, [HandlersNext]_handlerVars
  PROVE  TlsTypeInv'
<1> USE DEF HandlersInv, ConnInv
<1>1. CASE HandleSsl
  <2>1. PICK s \in Sessions, ts \in SessionTimes : on_ssl(SessionAt(s, ts))
    BY <1>1 DEF HandleSsl, SessionAt
  <2>2. seenSessions < MaxSessions /\ MaxSessions \in Nat
    <3>1. seenSessions < stream.ssl /\ seenSessions \in Nat
      BY <1>1 DEF HandleSsl, TlsTypeInv, TlsTypeOK
    <3> QED
      BY <3>1, StreamBounds
  <2> QED
    BY <2>1, <2>2, SessionKeepsTypes
<1>2. CASE \/ HandleConn \/ HandleBlank \/ HandleDns \/ EndOfStream \/ Stamp
           \/ UNCHANGED handlerVars
  BY <1>2, TlsTypeFrame
     DEF HandleConn, HandleBlank, HandleDns, EndOfStream, Stamp, handlerVars
<1> QED
  BY <1>1, <1>2 DEF HandlersNext

LEMMA HandlersKeepDns ==
  ASSUME HandlersInv, [HandlersNext]_handlerVars
  PROVE  DnsTypeInv' /\ DomainInv'
<1> USE DEF HandlersInv, ConnInv
<1>1. CASE HandleDns
  <2>1. PICK l \in Lookups, ts \in QueryTimes : on_dns(QueryAt(l, ts))
    BY <1>1 DEF HandleDns, QueryAt
  <2>2. dnsCount < MaxQueries /\ MaxQueries \in Nat
    <3>1. dnsCount < stream.dns /\ dnsCount \in Nat
      BY <1>1 DEF HandleDns, DnsTypeInv, DnsTypeOK
    <3> QED
      BY <3>1, StreamBounds
  <2>3. QueryAt(l, ts) \in DnsQuery
    BY QueryIsOne
  <2> QED
    BY <2>1, <2>2, <2>3, QueryKeepsTypes, QueryKeepsDomains
<1>2. CASE \/ HandleConn \/ HandleBlank \/ HandleSsl \/ EndOfStream \/ Stamp
           \/ UNCHANGED handlerVars
  BY <1>2, DnsTypeFrame, DomainFrame
     DEF HandleConn, HandleBlank, HandleSsl, EndOfStream, Stamp, handlerVars
<1> QED
  BY <1>1, <1>2 DEF HandlersNext

LEMMA HandlersKeepTrace ==
  ASSUME HandlersInv, [HandlersNext]_handlerVars
  PROVE  TraceInv'
  BY ConnKeepsTrace, BlankKeepsTrace, DnsKeepsTrace, SslKeepsTrace, SweepKeepsTrace,
     StampKeepsTrace, TraceFrame
     DEF HandlersInv, ConnInv, HandlersNext

\* on_conn(), on_dns() and on_ssl() do not disturb each other's state, and the
\* trace of what was fed keeps up with their clocks.
THEOREM HandlersInductive == HandlersSpec => []HandlersInv
<1>1. HandlersInv /\ [HandlersNext]_handlerVars => HandlersInv'
  <2> SUFFICES ASSUME HandlersInv, [HandlersNext]_handlerVars
               PROVE  HandlersInv'
    OBVIOUS
  <2>1. ConnInv'
    BY HandlersKeepConnections DEF HandlersInv
  <2>2. TlsInv' /\ TlsTypeInv'
    BY HandlersKeepTls, HandlersKeepTlsTypes DEF HandlersInv
  <2>3. DnsTypeInv' /\ DomainInv' /\ TraceInv'
    BY HandlersKeepDns, HandlersKeepTrace
  <2> QED
    BY <2>1, <2>2, <2>3 DEF HandlersInv
<1> QED
  BY <1>1, HandlersInitEstablishes, PTL DEF HandlersSpec

\* The three paths' queues and dictionaries, the trace and the alerts hold what
\* they should, for any mix of records.
THEOREM HandlersTypeCorrect == HandlersSpec => []HandlersTypeOK
<1>1. HandlersInv => HandlersTypeOK
  BY DEF HandlersInv, ConnInv, HandlersTypeOK, TypeInv, TlsTypeInv, DnsTypeInv, TraceInv,
         Record, Raised
<1> QED
  BY <1>1, HandlersInductive, PTL

\* In the stream of all three logs too, SlidingWindow loses only flows that are
\* older than the span.
THEOREM NothingFreshIsLostInStream == HandlersSpec => []NothingFreshIsLost
  BY HandlersImplementConnections, NothingFreshIsLostCorrect

\* There too, DDoSDetector tells no flood by a baseline without a history.
THEOREM SpikeHasHistoryInStream == HandlersSpec => []SpikeHasHistory
  BY HandlersImplementConnections, SpikeHasHistoryCorrect

\* There too, Pipeline._final_sweep() leaves no scan or exfiltration unreported.
THEOREM SweepLeavesNothingInStream == HandlersSpec => []SweepLeavesNothing
  BY HandlersImplementConnections, SweepLeavesNothingCorrect

\* There too, PortScanDetector raises no two alerts on the same flows.
THEOREM NoScanTwiceInStream == HandlersSpec => NoScanTwice
  BY HandlersImplementConnections, NoScanTwiceCorrect

\* There too, the contact that makes a track regular raises the alert of the
\* beacon, unless one is recent.
THEOREM BeaconSeenAtOnceInStream == HandlersSpec => BeaconSeenAtOnce
  BY HandlersImplementConnections, BeaconSeenAtOnceCorrect

\* For any queries and any classifier: DNSDetector reports a suspected domain
\* once in the life of the process, at the first public query for it.
THEOREM DomainsReportedOnceCorrect == HandlersSpec => []DomainsReportedOnce
<1>1. HandlersInv => DomainsReportedOnce
  BY DomainInvImplies DEF HandlersInv
<1> QED
  BY <1>1, HandlersInductive, PTL

\* In whatever order the records' times come, and however the feeder's stamps
\* and the pipeline's handling interleave: latency.py finds the moment of every
\* alert in the trace, none later than the stamp of the record that raised it,
\* and that of an alert dated by its detector's clock is when the clock moved
\* last, or a connection before that without a source.
THEOREM LatencyIsSoundCorrect == HandlersSpec => []LatencyIsSound
<1>1. HandlersInv => LatencyIsSound
  BY TraceInvImplies DEF HandlersInv
<1> QED
  BY <1>1, HandlersInductive, PTL

\* For any sessions, learning window and limit, EncryptedThreatDetector calls a
\* client rare at exactly the sessions it is configured to.
THEOREM RareFewTimesCorrect == HandlersSpec => []RareFewTimes
<1>1. HandlersInv => RareFewTimes
  BY DEF HandlersInv, TlsInv
<1> QED
  BY <1>1, HandlersInductive, PTL
=============================================================================
