-------------------------- MODULE AggregatorProofs --------------------------
(***************************************************************************)
(* For any alerts, timestamps (in or out of order) and thresholds: the     *)
(* aggregator's tables agree, no alert is lost from an incident's history  *)
(* or counted twice, and what was reported last is recent.                 *)
(***************************************************************************)
EXTENDS Aggregator, TLAPS

\* A key without an incident has no history yet.
FreshInv ==
    \A k \in Keys \ DOMAIN inc : hist[k].top = 0 /\ hist[k].doms = {}

IInv ==
    /\ AggTypeOK /\ TablesAgree /\ HistoryKept /\ FreshInv
    /\ SeverityOfPeak /\ ReportedInTime

-----------------------------------------------------------------------------
(* What the helpers return.                                                *)

LEMMA AlertType ==
  ASSUME NEW a \in Alerts
  PROVE  /\ incident_key(a.sub) \in Keys
         /\ DomainOf(a.sub) \in SUBSET Domains
         /\ a.ts \in Nat
         /\ a.conf \in 0..100
  BY AggregatorAssumption DEF Alerts, Keys, Domains, DomainOf

LEMMA SeverityType ==
  ASSUME NEW c \in 0..100
  PROVE  severity_for(c) \in Severities
  BY DEF severity_for, Severities

LEMMA LargerType ==
  ASSUME NEW a \in Nat, NEW b \in Nat
  PROVE  /\ Larger(a, b) \in Nat
         /\ Larger(a, b) >= a /\ Larger(a, b) >= b
         /\ Larger(a, b) \in {a, b}
  BY DEF Larger

-----------------------------------------------------------------------------

LEMMA InitIInv == AggInit => IInv
<1> SUFFICES ASSUME AggInit PROVE IInv
  OBVIOUS
<1> USE DEF AggInit
<1>1. DOMAIN inc = {} /\ DOMAIN lastEmit = {}
  OBVIOUS
<1>2. hist \in [Keys -> [n : Nat, newest : Nat, top : 0..100,
                         doms : SUBSET Domains]]
  OBVIOUS
<1> QED
  BY <1>1, <1>2 DEF IInv, AggTypeOK, TablesAgree, HistoryKept, FreshInv,
                    SeverityOfPeak, ReportedInTime

\* The history of the alert's key takes note of it, and of no other key.
LEMMA RecordDef ==
  ASSUME AggTypeOK, NEW a \in Alerts, NEW key \in Keys, NEW top \in 0..100,
         Record(a, key, top)
  PROVE  /\ fed' \in Nat
         /\ hist' \in [Keys -> [n : Nat, newest : Nat, top : 0..100,
                                doms : SUBSET Domains]]
         /\ hist'[key].n = hist[key].n + 1
         /\ hist'[key].doms = hist[key].doms \cup DomainOf(a.sub)
         /\ hist'[key].top = top
         /\ \A k \in Keys \ {key} : hist'[k] = hist[k]
<1> DEFINE h == [n |-> hist[key].n + 1,
                 newest |-> Larger(hist[key].newest, a.ts),
                 top |-> top,
                 doms |-> hist[key].doms \cup DomainOf(a.sub)]
<1>1. hist[key] \in [n : Nat, newest : Nat, top : 0..100, doms : SUBSET Domains]
  BY DEF AggTypeOK
<1>2. Larger(hist[key].newest, a.ts) \in Nat
  BY <1>1, AlertType, LargerType
<1>3. h \in [n : Nat, newest : Nat, top : 0..100, doms : SUBSET Domains]
  BY <1>1, <1>2, AlertType
<1>4. hist' = [hist EXCEPT ![key] = h] /\ fed' = fed + 1
  BY DEF Record
<1> HIDE DEF h
<1>5. hist'[key] = h /\ \A k \in Keys \ {key} : hist'[k] = hist[k]
  BY <1>4 DEF AggTypeOK
<1>6. hist' \in [Keys -> [n : Nat, newest : Nat, top : 0..100,
                          doms : SUBSET Domains]] /\ fed' \in Nat
  BY <1>3, <1>4 DEF AggTypeOK
<1> QED
  BY <1>5, <1>6 DEF h

\* What the three branches of add() have in common: one incident is opened or
\* kept open, takes note of the alert, and nothing else changes.
LEMMA FoldStep ==
  ASSUME IInv, NEW a \in Alerts, NEW key \in Keys, NEW top \in 0..100,
         now' \in Nat,
         fed' \in Nat,
         hist' \in [Keys -> [n : Nat, newest : Nat, top : 0..100,
                            doms : SUBSET Domains]],
         hist'[key].n = hist[key].n + 1,
         hist'[key].doms = hist[key].doms \cup DomainOf(a.sub),
         hist'[key].top = top,
         \A k \in Keys \ {key} : hist'[k] = hist[k],
         DOMAIN inc' = DOMAIN inc \cup {key},
         \A k \in DOMAIN inc \ {key} : inc'[k] = inc[k],
         inc'[key] \in Incident,
         inc'[key].status = "open",
         inc'[key].count = hist[key].n + 1,
         inc'[key].domains = hist[key].doms \cup DomainOf(a.sub),
         inc'[key].peak = top,
         inc'[key].severity = severity_for(top),
         open' = open \cup {key},
         closed' = closed \ {key},
         DOMAIN lastEmit' = open \cup {key},
         \A k \in open \ {key} : lastEmit'[k] = lastEmit[k],
         lastEmit'[key] \in Nat,
         inc'[key].last - lastEmit'[key] < UpdateEvery,
         event' \in {"none", "new", "update"}
  PROVE  IInv'
<1>1. \A k \in DOMAIN lastEmit' : lastEmit'[k] \in Nat
  BY DEF IInv, AggTypeOK, TablesAgree
<1>2. AggTypeOK'
  BY <1>1 DEF IInv, AggTypeOK
<1>3. TablesAgree'
  BY DEF IInv, TablesAgree
<1>4. HistoryKept' /\ FreshInv'
  BY DEF IInv, HistoryKept, FreshInv
<1>5. SeverityOfPeak'
  BY DEF IInv, AggTypeOK, SeverityOfPeak
<1>6. ReportedInTime'
  BY DEF IInv, TablesAgree, ReportedInTime
<1> QED
  BY <1>2, <1>3, <1>4, <1>5, <1>6 DEF IInv

LEMMA ObserveType ==
  ASSUME AggTypeOK, NEW a \in Alerts, Observe(a)
  PROVE  now' \in Nat
  BY AlertType, LargerType DEF AggTypeOK, Observe

LEMMA NewStep ==
  ASSUME IInv, NEW a \in Alerts, NEW key \in Keys, Observe(a), AddNew(a, key)
  PROVE  IInv'
<1> DEFINE i == [first |-> a.ts, last |-> a.ts, count |-> 1, peak |-> a.conf,
                 severity |-> severity_for(a.conf),
                 domains |-> DomainOf(a.sub), status |-> "open"]
<1>1. a.ts \in Nat /\ a.conf \in 0..100 /\ DomainOf(a.sub) \in SUBSET Domains
  BY AlertType
<1>2. severity_for(a.conf) \in Severities
  BY <1>1, SeverityType
<1>3. i \in Incident
  BY <1>1, <1>2 DEF Incident
<1>4. inc' = Put(inc, key, i) /\ lastEmit' = Put(lastEmit, key, a.ts)
  BY DEF AddNew
<1>5. /\ i.status = "open" /\ i.count = 1 /\ i.domains = DomainOf(a.sub)
      /\ i.peak = a.conf /\ i.severity = severity_for(a.conf) /\ i.last = a.ts
  OBVIOUS
<1> HIDE DEF i
<1>6. /\ DOMAIN inc' = DOMAIN inc \cup {key} /\ inc'[key] = i
      /\ \A k \in DOMAIN inc \ {key} : inc'[k] = inc[k]
  BY <1>4 DEF Put
<1>7. DOMAIN lastEmit = open
  BY DEF IInv, TablesAgree
<1>8. /\ DOMAIN lastEmit' = open \cup {key} /\ lastEmit'[key] = a.ts
      /\ \A k \in open \ {key} : lastEmit'[k] = lastEmit[k]
  BY <1>4, <1>7 DEF Put
<1>9. /\ Record(a, key, Larger(hist[key].top, a.conf))
      /\ event' = "new" /\ open' = open \cup {key}
  BY DEF AddNew
<1>10. closed' = closed \ {key}
  BY DEF AddNew, IInv, TablesAgree
<1>11. hist[key].n = 0 /\ hist[key].top = 0 /\ hist[key].doms = {}
  BY DEF AddNew, IInv, HistoryKept, FreshInv
<1>12. Larger(hist[key].top, a.conf) = a.conf
  BY <1>1, <1>11 DEF Larger
<1>13. a.ts - a.ts < UpdateEvery
  BY <1>1, AggregatorAssumption
<1>14. AggTypeOK /\ Record(a, key, a.conf)
  BY <1>9, <1>12 DEF IInv
<1>15. now' \in Nat
  BY <1>14, ObserveType
<1>16. /\ fed' \in Nat
       /\ hist' \in [Keys -> [n : Nat, newest : Nat, top : 0..100,
                              doms : SUBSET Domains]]
       /\ hist'[key].n = hist[key].n + 1
       /\ hist'[key].doms = hist[key].doms \cup DomainOf(a.sub)
       /\ hist'[key].top = a.conf
       /\ \A k \in Keys \ {key} : hist'[k] = hist[k]
  BY <1>1, <1>14, RecordDef
<1>17. /\ inc'[key] \in Incident /\ inc'[key].status = "open"
       /\ inc'[key].count = hist[key].n + 1
       /\ inc'[key].domains = hist[key].doms \cup DomainOf(a.sub)
       /\ inc'[key].peak = a.conf /\ inc'[key].severity = severity_for(a.conf)
  BY <1>3, <1>5, <1>6, <1>11
<1>18. lastEmit'[key] \in Nat /\ inc'[key].last - lastEmit'[key] < UpdateEvery
  BY <1>1, <1>5, <1>6, <1>8, <1>13
<1>19. event' \in {"none", "new", "update"}
  BY <1>9
<1> QED
  BY <1>1, <1>6, <1>8, <1>9, <1>10, <1>15, <1>16, <1>17, <1>18, <1>19, FoldStep

\* An alert of a closed incident: its peak and severity stay.
LEMMA ReopenStep ==
  ASSUME IInv, NEW a \in Alerts, NEW key \in Keys, Observe(a), Reopen(a, key)
  PROVE  IInv'
<1> DEFINE i == inc[key]
           j == Noted(i, a, i.peak)
<1>1. key \notin open /\ key \in DOMAIN inc
  BY DEF Reopen
<1>2. a.ts \in Nat /\ i \in Incident
  BY <1>1, AlertType DEF IInv, AggTypeOK
<1>3. i.peak \in 0..100
  BY <1>2 DEF Incident
<1>4. /\ i.count = hist[key].n /\ i.domains = hist[key].doms
      /\ i.peak = hist[key].top /\ i.severity = severity_for(i.peak)
  BY <1>1 DEF IInv, HistoryKept, SeverityOfPeak
<1> HIDE DEF i
<1>5. /\ j \in Incident /\ j.last = a.ts /\ j.count = i.count + 1
      /\ j.peak = i.peak
      /\ j.severity = IF i.peak > i.peak THEN severity_for(i.peak)
                                         ELSE i.severity
      /\ j.domains = i.domains \cup DomainOf(a.sub) /\ j.status = "open"
  <2>1. DomainOf(a.sub) \in SUBSET Domains
    BY AlertType
  <2>2. severity_for(i.peak) \in Severities
    BY <1>3, SeverityType
  <2> QED
    BY <1>2, <1>3, <2>1, <2>2 DEF Noted, Incident
<1>6. j.severity = i.severity
  BY <1>3, <1>5
<1>7. /\ inc' = [inc EXCEPT ![key] = Noted(@, a, @.peak)]
      /\ lastEmit' = Put(lastEmit, key, a.ts)
      /\ open' = open \cup {key} /\ closed' = closed \ {key}
      /\ event' = "update" /\ Record(a, key, hist[key].top)
  BY DEF Reopen
<1>8. Record(a, key, i.peak)
  BY <1>4, <1>7
<1>9. AggTypeOK
  BY DEF IInv
<1>10. now' \in Nat
  BY <1>9, ObserveType
<1>11. /\ fed' \in Nat
       /\ hist' \in [Keys -> [n : Nat, newest : Nat, top : 0..100,
                              doms : SUBSET Domains]]
       /\ hist'[key].n = hist[key].n + 1
       /\ hist'[key].doms = hist[key].doms \cup DomainOf(a.sub)
       /\ hist'[key].top = i.peak
       /\ \A k \in Keys \ {key} : hist'[k] = hist[k]
  BY <1>3, <1>8, <1>9, RecordDef
<1> HIDE DEF j
<1>12. /\ DOMAIN inc' = DOMAIN inc \cup {key} /\ inc'[key] = j
       /\ \A k \in DOMAIN inc \ {key} : inc'[k] = inc[k]
  BY <1>1, <1>7 DEF i, j
<1>13. DOMAIN lastEmit = open
  BY DEF IInv, TablesAgree
<1>14. /\ DOMAIN lastEmit' = open \cup {key} /\ lastEmit'[key] = a.ts
       /\ \A k \in open \ {key} : lastEmit'[k] = lastEmit[k]
  BY <1>7, <1>13 DEF Put
<1>15. /\ inc'[key] \in Incident /\ inc'[key].status = "open"
       /\ inc'[key].count = hist[key].n + 1
       /\ inc'[key].domains = hist[key].doms \cup DomainOf(a.sub)
       /\ inc'[key].peak = i.peak /\ inc'[key].severity = severity_for(i.peak)
  BY <1>4, <1>5, <1>6, <1>12
<1>16. lastEmit'[key] \in Nat /\ inc'[key].last - lastEmit'[key] < UpdateEvery
  BY <1>2, <1>5, <1>12, <1>14, AggregatorAssumption
<1>17. event' \in {"none", "new", "update"}
  BY <1>7
<1> QED
  BY <1>3, <1>7, <1>10, <1>11, <1>12, <1>14, <1>15, <1>16, <1>17, FoldStep

\* An alert of an open incident. When it is not reported, the last report is
\* younger than update_every: that is the case add() calls not due.
LEMMA OpenStep ==
  ASSUME IInv, NEW a \in Alerts, NEW key \in Keys, Observe(a), AddToOpen(a, key)
  PROVE  IInv'
<1> DEFINE i == inc[key]
           top == Larger(hist[key].top, a.conf)
           j == Noted(i, a, top)
<1>1. key \in open /\ key \in DOMAIN inc /\ key \notin closed
  BY DEF AddToOpen, IInv, TablesAgree
<1>2. a.ts \in Nat /\ a.conf \in 0..100 /\ i \in Incident
  BY <1>1, AlertType DEF IInv, AggTypeOK
<1>3. i.peak \in 0..100
  BY <1>2 DEF Incident
<1>4. /\ i.count = hist[key].n /\ i.domains = hist[key].doms
      /\ i.peak = hist[key].top /\ i.severity = severity_for(i.peak)
  BY <1>1 DEF IInv, HistoryKept, SeverityOfPeak
<1>5. top \in 0..100 /\ (top > i.peak \/ top = i.peak)
  <2>1. \A m, n \in 0..100 :
           Larger(m, n) \in 0..100 /\ (Larger(m, n) > m \/ Larger(m, n) = m)
    BY DEF Larger
  <2> QED
    BY <1>2, <1>3, <1>4, <2>1
<1>6. /\ inc' = [inc EXCEPT ![key] = Noted(@, a, Larger(@.peak, a.conf))]
      /\ Record(a, key, top) /\ open' = open /\ closed' = closed
  BY DEF AddToOpen
<1>7. inc' = [inc EXCEPT ![key] = j]
  BY <1>4, <1>6
<1> HIDE DEF i, top
<1>8. /\ j \in Incident /\ j.last = a.ts /\ j.count = i.count + 1
      /\ j.peak = top
      /\ j.severity = IF top > i.peak THEN severity_for(top) ELSE i.severity
      /\ j.domains = i.domains \cup DomainOf(a.sub) /\ j.status = "open"
  <2>1. DomainOf(a.sub) \in SUBSET Domains
    BY AlertType
  <2>2. severity_for(top) \in Severities
    BY <1>5, SeverityType
  <2> QED
    BY <1>2, <1>5, <2>1, <2>2 DEF Noted, Incident
<1> HIDE DEF j
<1>9. j.severity = severity_for(top)
  BY <1>3, <1>4, <1>5, <1>8
<1>10. AggTypeOK
  BY DEF IInv
<1>11. now' \in Nat
  BY <1>10, ObserveType
<1>12. /\ fed' \in Nat
       /\ hist' \in [Keys -> [n : Nat, newest : Nat, top : 0..100,
                              doms : SUBSET Domains]]
       /\ hist'[key].n = hist[key].n + 1
       /\ hist'[key].doms = hist[key].doms \cup DomainOf(a.sub)
       /\ hist'[key].top = top
       /\ \A k \in Keys \ {key} : hist'[k] = hist[k]
  BY <1>5, <1>6, <1>10, RecordDef
<1>13. /\ DOMAIN inc' = DOMAIN inc \cup {key} /\ inc'[key] = j
       /\ \A k \in DOMAIN inc \ {key} : inc'[k] = inc[k]
  BY <1>1, <1>7
<1>14. DOMAIN lastEmit = open /\ lastEmit[key] \in Nat
  BY <1>1 DEF IInv, TablesAgree, AggTypeOK
<1>15. /\ inc'[key] \in Incident /\ inc'[key].status = "open"
       /\ inc'[key].count = hist[key].n + 1
       /\ inc'[key].domains = hist[key].doms \cup DomainOf(a.sub)
       /\ inc'[key].peak = top /\ inc'[key].severity = severity_for(top)
       /\ inc'[key].last = a.ts
  BY <1>4, <1>8, <1>9, <1>13
<1>16. open' = open \cup {key} /\ closed' = closed \ {key}
  BY <1>1, <1>6
<1>17. /\ DOMAIN lastEmit' = open \cup {key} /\ lastEmit'[key] \in Nat
       /\ \A k \in open \ {key} : lastEmit'[k] = lastEmit[k]
       /\ inc'[key].last - lastEmit'[key] < UpdateEvery
       /\ event' \in {"none", "new", "update"}
  <2>1. CASE Jumped(a, key) \/ Due(a, key)
    <3>1. event' = "update" /\ lastEmit' = [lastEmit EXCEPT ![key] = a.ts]
      BY <2>1 DEF AddToOpen
    <3> QED
      BY <1>1, <1>2, <1>14, <1>15, <3>1, AggregatorAssumption
  <2>2. CASE ~ (Jumped(a, key) \/ Due(a, key))
    <3>1. event' = "none" /\ lastEmit' = lastEmit
      BY <2>2 DEF AddToOpen
    <3>2. a.ts - lastEmit[key] < UpdateEvery
      BY <1>2, <1>14, <2>2, AggregatorAssumption DEF Due
    <3> QED
      BY <1>1, <1>14, <1>15, <3>1, <3>2
  <2> QED
    BY <2>1, <2>2
<1> QED
  BY <1>5, <1>11, <1>12, <1>13, <1>15, <1>16, <1>17, FoldStep

LEMMA AddStep ==
  ASSUME IInv, NEW a \in Alerts, Add(a)
  PROVE  IInv'
<1> DEFINE key == incident_key(a.sub)
<1>1. key \in Keys
  BY AlertType
<1>2. Observe(a) /\ (AddNew(a, key) \/ Reopen(a, key) \/ AddToOpen(a, key))
  BY DEF Add
<1> HIDE DEF key
<1>3. CASE AddNew(a, key)
  BY <1>1, <1>2, <1>3, NewStep
<1>4. CASE Reopen(a, key)
  BY <1>1, <1>2, <1>4, ReopenStep
<1>5. CASE AddToOpen(a, key)
  BY <1>1, <1>2, <1>5, OpenStep
<1> QED
  BY <1>2, <1>3, <1>4, <1>5

\* expire() moves incidents between the tables and changes only their status.
LEMMA ExpireFrame ==
  ASSUME IInv, Expire
  PROVE  /\ DOMAIN inc' = DOMAIN inc
         /\ \A k \in DOMAIN inc :
              /\ inc'[k] \in Incident
              /\ inc'[k].first = inc[k].first /\ inc'[k].last = inc[k].last
              /\ inc'[k].count = inc[k].count /\ inc'[k].peak = inc[k].peak
              /\ inc'[k].severity = inc[k].severity
              /\ inc'[k].domains = inc[k].domains
              /\ inc'[k].status = IF k \in open /\ Quiet(k) THEN "closed"
                                                           ELSE inc[k].status
<1>1. \A k \in DOMAIN inc : inc[k] \in Incident
  BY DEF IInv, AggTypeOK
<1>2. inc' = [k \in DOMAIN inc |->
                 IF k \in open /\ Quiet(k)
                 THEN [inc[k] EXCEPT !.status = "closed"] ELSE inc[k]]
  BY DEF Expire
<1> QED
  BY <1>1, <1>2 DEF Incident

LEMMA ExpireStep == IInv /\ Expire => IInv'
<1> SUFFICES ASSUME IInv, Expire PROVE IInv'
  OBVIOUS
<1> DEFINE dead == {k \in open : Quiet(k)}
<1>1. /\ open' = open \ dead /\ closed' = closed \cup dead
      /\ lastEmit' = [k \in DOMAIN lastEmit \ dead |-> lastEmit[k]]
      /\ now' = now /\ event' = event /\ fed' = fed /\ hist' = hist
  BY DEF Expire
<1>2. /\ DOMAIN inc' = DOMAIN inc
      /\ \A k \in DOMAIN inc :
           /\ inc'[k] \in Incident
           /\ inc'[k].last = inc[k].last
           /\ inc'[k].count = inc[k].count /\ inc'[k].peak = inc[k].peak
           /\ inc'[k].severity = inc[k].severity
           /\ inc'[k].domains = inc[k].domains
           /\ inc'[k].status = IF k \in dead THEN "closed" ELSE inc[k].status
  BY ExpireFrame
<1>3. dead \subseteq open
  OBVIOUS
<1> HIDE DEF dead
<1>4. AggTypeOK'
  BY <1>1, <1>2, <1>3 DEF IInv, AggTypeOK
<1>5. TablesAgree'
  BY <1>1, <1>2, <1>3 DEF IInv, TablesAgree
<1>6. HistoryKept' /\ FreshInv' /\ SeverityOfPeak'
  BY <1>1, <1>2 DEF IInv, HistoryKept, FreshInv, SeverityOfPeak
<1>7. ReportedInTime'
  BY <1>1, <1>2, <1>3 DEF IInv, TablesAgree, ReportedInTime
<1> QED
  BY <1>4, <1>5, <1>6, <1>7 DEF IInv

LEMMA StepIInv == IInv /\ [AggNext]_aggVars => IInv'
<1> SUFFICES ASSUME IInv, [AggNext]_aggVars PROVE IInv'
  OBVIOUS
<1>1. CASE \E a \in Alerts : Add(a)
  BY <1>1, AddStep
<1>2. CASE Expire
  BY <1>2, ExpireStep
<1>3. CASE UNCHANGED aggVars
  BY <1>3 DEF aggVars, IInv, AggTypeOK, TablesAgree, HistoryKept, FreshInv,
              SeverityOfPeak, ReportedInTime
<1> QED
  BY <1>1, <1>2, <1>3 DEF AggNext

LEMMA IInvCorrect == AggSpec => []IInv
<1> QED
  BY InitIInv, StepIInv, PTL DEF AggSpec

\* What NeverShrinks says of one incident before and after a step.
Grows(i, j) == /\ j.first = i.first /\ j.count >= i.count /\ j.peak >= i.peak
               /\ i.domains \subseteq j.domains

\* add() changes one incident, which grows.
LEMMA AddGrows ==
  ASSUME IInv, NEW a \in Alerts, Add(a)
  PROVE  /\ DOMAIN inc \subseteq DOMAIN inc'
         /\ \A k \in DOMAIN inc : Grows(inc[k], inc'[k])
<1> DEFINE key == incident_key(a.sub)
<1>1. \A k \in DOMAIN inc : inc[k] \in Incident
  BY DEF IInv, AggTypeOK
<1>2. \A k \in DOMAIN inc : Grows(inc[k], inc[k])
  BY <1>1 DEF Grows, Incident
<1>3. key \in Keys /\ a.conf \in 0..100
  BY AlertType
<1>4. AddNew(a, key) \/ Reopen(a, key) \/ AddToOpen(a, key)
  BY DEF Add
<1> HIDE DEF key
<1>5. CASE AddNew(a, key)
  <2>1. /\ DOMAIN inc' = DOMAIN inc \cup {key}
        /\ \A k \in DOMAIN inc : inc'[k] = inc[k]
    BY <1>5 DEF AddNew, Put
  <2> QED
    BY <1>2, <2>1
<1>6. CASE Reopen(a, key)
  <2>1. /\ key \in DOMAIN inc
        /\ inc' = [inc EXCEPT ![key] = Noted(inc[key], a, inc[key].peak)]
    BY <1>6 DEF Reopen
  <2>2. inc[key] \in Incident
    BY <1>1, <2>1
  <2>3. Grows(inc[key], Noted(inc[key], a, inc[key].peak))
    BY <2>2 DEF Grows, Noted, Incident
  <2> QED
    BY <1>2, <2>1, <2>3
<1>7. CASE AddToOpen(a, key)
  <2>1. /\ key \in DOMAIN inc
        /\ inc' = [inc EXCEPT ![key] =
                      Noted(inc[key], a, Larger(inc[key].peak, a.conf))]
    BY <1>7 DEF AddToOpen, IInv, TablesAgree
  <2>2. inc[key] \in Incident
    BY <1>1, <2>1
  <2>3. Grows(inc[key], Noted(inc[key], a, Larger(inc[key].peak, a.conf)))
    BY <1>3, <2>2 DEF Grows, Noted, Incident, Larger
  <2> QED
    BY <1>2, <2>1, <2>3
<1> QED
  BY <1>4, <1>5, <1>6, <1>7

LEMMA ExpireGrows ==
  ASSUME IInv, Expire
  PROVE  /\ DOMAIN inc' = DOMAIN inc
         /\ \A k \in DOMAIN inc : Grows(inc[k], inc'[k])
<1>1. DOMAIN inc' = DOMAIN inc
  BY ExpireFrame
<1>2. ASSUME NEW k \in DOMAIN inc PROVE Grows(inc[k], inc'[k])
  <2>1. inc[k] \in Incident
    BY DEF IInv, AggTypeOK
  <2>2. /\ inc'[k].first = inc[k].first /\ inc'[k].count = inc[k].count
        /\ inc'[k].peak = inc[k].peak /\ inc'[k].domains = inc[k].domains
    BY ExpireFrame
  <2> QED
    BY <2>1, <2>2 DEF Grows, Incident
<1> QED
  BY <1>1, <1>2

LEMMA StepGrows ==
  ASSUME IInv, AggNext
  PROVE  /\ DOMAIN inc \subseteq DOMAIN inc'
         /\ \A k \in DOMAIN inc : Grows(inc[k], inc'[k])
  BY AddGrows, ExpireGrows DEF AggNext

-----------------------------------------------------------------------------
(* The theorems.                                                           *)

\* Whatever alerts arrive, every variable keeps its type.
THEOREM AggTypeCorrect == AggSpec => []AggTypeOK
<1>1. IInv => AggTypeOK
  BY DEF IInv
<1> QED
  BY <1>1, IInvCorrect, PTL

\* The open table, the closed list, the statuses and the times of last report
\* never disagree, however incidents close and resume.
THEOREM TablesAgreeCorrect == AggSpec => []TablesAgree
<1>1. IInv => TablesAgree
  BY DEF IInv
<1> QED
  BY <1>1, IInvCorrect, PTL

\* Across closing, reopening and new peaks, an incident counts exactly the
\* alerts with its key and lists exactly the domains they named.
THEOREM HistoryKeptCorrect == AggSpec => []HistoryKept
<1>1. IInv => HistoryKept
  BY DEF IInv
<1> QED
  BY <1>1, IInvCorrect, PTL

\* The severity add() leaves on an incident is always that of its peak, and the
\* peak the highest confidence it weighed.
THEOREM SeverityOfPeakCorrect == AggSpec => []SeverityOfPeak
<1>1. IInv => SeverityOfPeak
  BY DEF IInv
<1> QED
  BY <1>1, IInvCorrect, PTL

\* add() never answers None once the last report of an open incident is
\* update_every old, also when timestamps go back.
THEOREM ReportedInTimeCorrect == AggSpec => []ReportedInTime
<1>1. IInv => ReportedInTime
  BY DEF IInv
<1> QED
  BY <1>1, IInvCorrect, PTL

\* add() and expire() never take anything back from an incident.
THEOREM NeverShrinksCorrect == AggSpec => NeverShrinks
<1> DEFINE A == \A k \in DOMAIN inc :
                   /\ k \in DOMAIN inc'
                   /\ inc'[k].first = inc[k].first
                   /\ inc'[k].count >= inc[k].count
                   /\ inc'[k].peak >= inc[k].peak
                   /\ inc[k].domains \subseteq inc'[k].domains
<1>1. IInv /\ [AggNext]_aggVars => [A]_aggVars
  <2>1. IInv /\ AggNext => A
    BY StepGrows DEF Grows
  <2> QED
    BY <2>1
<1> QED
  BY <1>1, IInvCorrect, PTL DEF AggSpec, NeverShrinks
=============================================================================
