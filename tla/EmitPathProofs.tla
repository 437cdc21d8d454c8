--------------------------- MODULE EmitPathProofs ---------------------------
(***************************************************************************)
(* For any alerts, thresholds and commit interval, and whenever the        *)
(* process dies: the file never shows an incident without its alerts, what *)
(* it shows only grows, and a run that ends has stored its final state.    *)
(***************************************************************************)
EXTENDS EmitPath, AggregatorProofs

-----------------------------------------------------------------------------
(* The inductive invariant.                                                *)

\* A database has two tables, and no row counts more alerts than there are.
Consistent(db) ==
    /\ db = [alerts |-> db.alerts, incidents |-> db.incidents]
    /\ StoreTypeOK(db)
    /\ \A k \in DOMAIN db.incidents : db.incidents[k].count <= db.alerts[k]

\* Every alert folded into an incident was written, and the one about to be.
WrittenInv ==
    /\ \A k \in Keys : hist[k].n <= work.alerts[k]
    /\ pc = "wrote" => hist[curKey].n < work.alerts[curKey]

\* The row of an open incident is from when it was last reported.
Shown(k) == k \in DOMAIN work.incidents /\ work.incidents[k].last = lastEmit[k]

ReportInv ==
    /\ pc \in {"running", "wrote"} => \A k \in open : Shown(k)
    /\ pc = "folded" =>
          /\ curKey \in open
          /\ \A k \in open \ {curKey} : Shown(k)
          /\ IF event = "none" THEN Shown(curKey)
                               ELSE lastEmit[curKey] = inc[curKey].last

\* At the end of the run, what is not left to be stored is stored.
FinalInv ==
    pc = "closing" =>
        /\ left \subseteq DOMAIN inc
        /\ \A k \in DOMAIN inc \ left :
              k \in DOMAIN work.incidents /\ SameRow(work.incidents[k], inc[k])

\* Rows of one table are in the other too, and no greater than there.
Behind(rows, others) ==
    \A k \in DOMAIN rows :
        /\ k \in DOMAIN others
        /\ rows[k].count <= others[k].count
        /\ rows[k].peak <= others[k].peak

\* On a new database the file is behind the open transaction, and that behind
\* the incidents in memory.
GrowInv ==
    ~kept => /\ Behind(disk.incidents, work.incidents)
             /\ pc # "down" => Behind(work.incidents, inc)

ControlInv ==
    /\ pc \in {"running", "wrote", "folded", "closing", "ended", "down"}
    /\ pc \in {"wrote", "folded"} => cur \in Alerts
    /\ cur \in Alerts \cup {NoAlert}
    /\ pending \in 0..(CommitEvery - 1)
    /\ left \subseteq Keys
    /\ runs \in 1..MaxRuns
    /\ kept \in BOOLEAN

EmitInv ==
    /\ IInv
    /\ ControlInv
    /\ Consistent(disk) /\ Consistent(work)
    /\ WrittenInv /\ ReportInv /\ FinalInv /\ FinalStateStored /\ GrowInv

-----------------------------------------------------------------------------
(* The store.                                                              *)

\* A write may commit: then readers of the file see the transaction.
LEMMA CommitOrNot ==
  ASSUME pending \in 0..(CommitEvery - 1), Store!_maybe_commit
  PROVE  /\ disk' \in {disk, work'}
         /\ pending' \in 0..(CommitEvery - 1)
<1>1. CASE pending + 1 >= CommitEvery
  BY <1>1, EmitAssumption DEF Store!_maybe_commit
<1>2. CASE ~(pending + 1 >= CommitEvery)
  BY <1>2, EmitAssumption DEF Store!_maybe_commit
<1> QED
  BY <1>1, <1>2

LEMMA WriteStep ==
  ASSUME Consistent(work), NEW key \in Keys, Store!write_alert(key)
  PROVE  /\ Consistent(work')
         /\ work'.incidents = work.incidents
         /\ work'.alerts[key] = work.alerts[key] + 1
         /\ \A k \in Keys \ {key} : work'.alerts[k] = work.alerts[k]
<1>1. /\ work'.alerts = [work.alerts EXCEPT ![key] = @ + 1]
      /\ work'.incidents = work.incidents
      /\ work' = [alerts |-> work'.alerts, incidents |-> work'.incidents]
  BY DEF Store!write_alert, Consistent
<1>2. work.alerts \in [Keys -> Nat]
  BY DEF Consistent, StoreTypeOK
<1>3. /\ work'.alerts \in [Keys -> Nat]
      /\ work'.alerts[key] = work.alerts[key] + 1
      /\ \A k \in Keys \ {key} : work'.alerts[k] = work.alerts[k]
  BY <1>1, <1>2
<1>4. \A k \in Keys : work.alerts[k] <= work'.alerts[k]
  BY <1>2, <1>3
<1>5. \A k \in DOMAIN work'.incidents :
         work'.incidents[k].count <= work'.alerts[k]
  <2> SUFFICES ASSUME NEW k \in DOMAIN work.incidents
               PROVE  work.incidents[k].count <= work'.alerts[k]
    BY <1>1
  <2>1. /\ k \in Keys
        /\ work.incidents[k] \in Incident
        /\ work.incidents[k].count <= work.alerts[k]
    BY DEF Consistent, StoreTypeOK
  <2>2. work.incidents[k].count \in Nat
    BY <2>1 DEF Incident
  <2> QED
    BY <1>2, <1>3, <1>4, <2>1, <2>2
<1> QED
  BY <1>1, <1>3, <1>5 DEF Consistent, StoreTypeOK

\* The row is the incident, but for its start.
LEMMA UpsertStep ==
  ASSUME Consistent(work), NEW key \in Keys, NEW row \in Incident,
         row.count <= work.alerts[key], Store!upsert_incident(key, row)
  PROVE  /\ Consistent(work')
         /\ work'.alerts = work.alerts
         /\ DOMAIN work'.incidents = DOMAIN work.incidents \cup {key}
         /\ \A k \in DOMAIN work.incidents \ {key} :
               work'.incidents[k] = work.incidents[k]
         /\ SameRow(work'.incidents[key], row)
<1>1. /\ work'.alerts = work.alerts
      /\ work'.incidents = Store!Upserted(work.incidents, key, row)
      /\ work' = [alerts |-> work'.alerts, incidents |-> work'.incidents]
  BY DEF Store!upsert_incident, Consistent
<1>2. /\ DOMAIN work'.incidents = DOMAIN work.incidents \cup {key}
      /\ \A k \in DOMAIN work.incidents \ {key} :
            work'.incidents[k] = work.incidents[k]
      /\ work'.incidents[key] =
            IF key \in DOMAIN work.incidents
            THEN [row EXCEPT !.first = work.incidents[key].first] ELSE row
  BY <1>1 DEF Store!Upserted
<1>3. /\ DOMAIN work.incidents \subseteq Keys
      /\ \A k \in DOMAIN work.incidents : work.incidents[k] \in Incident
  BY DEF Consistent, StoreTypeOK
<1>4. work'.incidents[key] \in Incident /\ SameRow(work'.incidents[key], row)
  <2>1. CASE key \in DOMAIN work.incidents
    <3>1. work.incidents[key].first \in Nat
      BY <1>3, <2>1 DEF Incident
    <3> QED
      BY <1>2, <2>1, <3>1 DEF Incident, SameRow
  <2>2. CASE key \notin DOMAIN work.incidents
    BY <1>2, <2>2 DEF SameRow
  <2> QED
    BY <2>1, <2>2
<1>5. work'.incidents[key].count <= work'.alerts[key]
  BY <1>1, <1>4 DEF SameRow
<1>6. StoreTypeOK(work')
  BY <1>1, <1>2, <1>3, <1>4 DEF StoreTypeOK, Consistent
<1>7. \A k \in DOMAIN work'.incidents :
         work'.incidents[k].count <= work'.alerts[k]
  BY <1>1, <1>2, <1>5 DEF Consistent
<1> QED
  BY <1>1, <1>2, <1>4, <1>6, <1>7 DEF Consistent

LEMMA EmptyStore ==
  /\ Consistent(Store!Empty)
  /\ \A k \in Keys : Store!Empty.alerts[k] = 0
  /\ DOMAIN Store!Empty.incidents = {}
<1>1. DOMAIN <<>> = {}
  OBVIOUS
<1>2. /\ Store!Empty.alerts = [k \in Keys |-> 0]
      /\ Store!Empty.incidents = <<>>
      /\ Store!Empty = [alerts |-> Store!Empty.alerts,
                        incidents |-> Store!Empty.incidents]
  BY DEF Store!Empty
<1> QED
  BY <1>1, <1>2 DEF Consistent, StoreTypeOK

-----------------------------------------------------------------------------
(* Rows only grow.                                                         *)

LEMMA BehindSelf ==
  ASSUME NEW rows, \A k \in DOMAIN rows : rows[k] \in Incident
  PROVE  Behind(rows, rows)
  BY DEF Behind, Incident

LEMMA BehindTrans ==
  ASSUME NEW r, NEW s, NEW t,
         \A k \in DOMAIN r : r[k] \in Incident,
         \A k \in DOMAIN s : s[k] \in Incident,
         \A k \in DOMAIN t : t[k] \in Incident,
         Behind(r, s), Behind(s, t)
  PROVE  Behind(r, t)
<1> SUFFICES ASSUME NEW k \in DOMAIN r
             PROVE  /\ k \in DOMAIN t
                    /\ r[k].count <= t[k].count /\ r[k].peak <= t[k].peak
  BY DEF Behind
<1>1. k \in DOMAIN s /\ k \in DOMAIN t
  BY DEF Behind
<1>2. /\ r[k].count \in Nat /\ s[k].count \in Nat /\ t[k].count \in Nat
      /\ r[k].peak \in Nat /\ s[k].peak \in Nat /\ t[k].peak \in Nat
  BY <1>1 DEF Incident
<1>3. /\ r[k].count <= s[k].count /\ r[k].peak <= s[k].peak
      /\ s[k].count <= t[k].count /\ s[k].peak <= t[k].peak
  BY <1>1 DEF Behind
<1> QED
  BY <1>1, <1>2, <1>3

\* What a write to the transaction does to the file.
LEMMA WriteKeepsOrder ==
  ASSUME Consistent(disk), Consistent(work), Consistent(work'),
         disk' \in {disk, work'}
  PROVE  /\ Consistent(disk')
         /\ Behind(disk.incidents, work.incidents)
            /\ Behind(work.incidents, work'.incidents)
            => /\ Behind(disk.incidents, disk'.incidents)
               /\ Behind(disk'.incidents, work'.incidents)
<1>1. /\ \A k \in DOMAIN disk.incidents : disk.incidents[k] \in Incident
      /\ \A k \in DOMAIN work.incidents : work.incidents[k] \in Incident
      /\ \A k \in DOMAIN work'.incidents : work'.incidents[k] \in Incident
  BY DEF Consistent, StoreTypeOK
<1>2. /\ Behind(disk.incidents, disk.incidents)
      /\ Behind(work'.incidents, work'.incidents)
  BY <1>1, BehindSelf
<1>3. Behind(disk.incidents, work.incidents)
      /\ Behind(work.incidents, work'.incidents)
      => Behind(disk.incidents, work'.incidents)
  BY <1>1, BehindTrans
<1>4. CASE disk' = disk
  BY <1>2, <1>3, <1>4
<1>5. CASE disk' = work'
  BY <1>2, <1>3, <1>5
<1> QED
  BY <1>4, <1>5

FileGrows == ~kept => Behind(disk.incidents, disk'.incidents)

-----------------------------------------------------------------------------
(* The initial state, and that of a new process.                           *)

LEMMA EmitInitIInv == Init => EmitInv
<1> SUFFICES ASSUME Init PROVE EmitInv
  OBVIOUS
<1>1. IInv
  BY InitIInv DEF Init
<1>2. /\ Consistent(disk) /\ Consistent(work)
      /\ DOMAIN disk.incidents = {} /\ DOMAIN work.incidents = {}
      /\ \A k \in Keys : work.alerts[k] = 0
  BY EmptyStore DEF Init, Store!StoreInit
<1>3. ControlInv
  <2>1. /\ pc = "running" /\ cur = NoAlert /\ left = {} /\ runs = 1
        /\ kept = FALSE /\ pending = 0
    BY DEF Init, Store!StoreInit
  <2>2. pending \in 0..(CommitEvery - 1) /\ runs \in 1..MaxRuns
    BY <2>1, EmitAssumption
  <2> QED
    BY <2>1, <2>2 DEF ControlInv
<1>4. pc = "running" /\ open = {} /\ \A k \in Keys : hist[k].n = 0
  BY DEF Init, AggInit
<1>5. WrittenInv /\ ReportInv /\ FinalInv /\ FinalStateStored
  BY <1>2, <1>4 DEF WrittenInv, ReportInv, FinalInv, FinalStateStored
<1>6. GrowInv
  BY <1>2 DEF GrowInv, Behind
<1> QED
  BY <1>1, <1>2, <1>3, <1>5, <1>6 DEF EmitInv

LEMMA ResetIInv ==
  ASSUME AggReset
  PROVE  /\ IInv'
         /\ open' = {} /\ DOMAIN inc' = {} /\ \A k \in Keys : hist'[k].n = 0
<1> USE DEF AggReset
<1>1. DOMAIN inc' = {} /\ DOMAIN lastEmit' = {}
  OBVIOUS
<1>2. hist' \in [Keys -> [n : Nat, newest : Nat, top : 0..100,
                          doms : SUBSET Domains]]
  OBVIOUS
<1> QED
  BY <1>1, <1>2 DEF IInv, AggTypeOK, TablesAgree, HistoryKept, FreshInv,
                    SeverityOfPeak, ReportedInTime

-----------------------------------------------------------------------------
(* The steps of _emit().                                                   *)

\* Facts about the invariant every step starts from.
LEMMA InvFacts ==
  ASSUME EmitInv
  PROVE  /\ \A k \in DOMAIN inc : /\ k \in Keys /\ inc[k] \in Incident
                                  /\ inc[k].count = hist[k].n
         /\ open \subseteq DOMAIN inc /\ DOMAIN lastEmit = open
         /\ \A k \in Keys : hist[k].n \in Nat /\ work.alerts[k] \in Nat
         /\ \A k \in DOMAIN work.incidents : work.incidents[k] \in Incident
<1>1. IInv /\ Consistent(work)
  BY DEF EmitInv
<1>2. \A k \in DOMAIN inc : k \in Keys /\ inc[k] \in Incident
  BY <1>1 DEF IInv, AggTypeOK
<1>3. \A k \in DOMAIN inc : inc[k].count = hist[k].n
  BY <1>1, <1>2 DEF IInv, HistoryKept
<1>4. open \subseteq DOMAIN inc /\ DOMAIN lastEmit = open
  BY <1>1 DEF IInv, TablesAgree
<1>5. \A k \in Keys : hist[k].n \in Nat
  BY <1>1 DEF IInv, AggTypeOK
<1> QED
  BY <1>1, <1>2, <1>3, <1>4, <1>5 DEF Consistent, StoreTypeOK

LEMMA AggStutter ==
  ASSUME IInv, UNCHANGED aggVars
  PROVE  IInv'
  BY DEF aggVars, IInv, AggTypeOK, TablesAgree, HistoryKept, FreshInv,
         SeverityOfPeak, ReportedInTime

LEMMA WriteAlertStep ==
  ASSUME EmitInv, WriteAlert
  PROVE  EmitInv' /\ FileGrows
<1>1. PICK a \in Alerts : /\ Store!write_alert(incident_key(a.sub))
                          /\ cur' = a
  BY DEF WriteAlert
<1> DEFINE key == incident_key(a.sub)
<1>2. /\ pc = "running" /\ pc' = "wrote" /\ UNCHANGED <<left, runs, kept>>
      /\ now' = now /\ inc' = inc /\ open' = open /\ closed' = closed
      /\ lastEmit' = lastEmit /\ event' = event /\ fed' = fed /\ hist' = hist
      /\ UNCHANGED aggVars
  BY DEF WriteAlert, aggVars
<1>3. key \in Keys /\ curKey' = key
  BY <1>1, AlertType DEF curKey
<1>4. Store!write_alert(key) /\ Store!_maybe_commit
  BY <1>1 DEF Store!write_alert
<1> HIDE DEF key
<1>5. /\ Consistent(disk) /\ Consistent(work)
      /\ pending \in 0..(CommitEvery - 1)
  BY DEF EmitInv, ControlInv
<1>6. disk' \in {disk, work'} /\ pending' \in 0..(CommitEvery - 1)
  BY <1>4, <1>5, CommitOrNot
<1>7. /\ Consistent(work') /\ work'.incidents = work.incidents
      /\ work'.alerts[key] = work.alerts[key] + 1
      /\ \A k \in Keys \ {key} : work'.alerts[k] = work.alerts[k]
  BY <1>3, <1>4, <1>5, WriteStep
<1>8. /\ Consistent(disk')
      /\ Behind(work.incidents, work'.incidents)
      /\ Behind(disk.incidents, work.incidents)
         => /\ Behind(disk.incidents, disk'.incidents)
            /\ Behind(disk'.incidents, work'.incidents)
  <2>1. Behind(work.incidents, work.incidents)
    BY InvFacts, BehindSelf
  <2> QED
    BY <1>5, <1>6, <1>7, <2>1, WriteKeepsOrder
<1>9. IInv'
  BY <1>2, AggStutter DEF EmitInv
<1>10. ControlInv'
  BY <1>1, <1>2, <1>6 DEF EmitInv, ControlInv
<1>11. WrittenInv'
  <2>1. \A k \in Keys : /\ hist[k].n \in Nat /\ work.alerts[k] \in Nat
                        /\ hist[k].n <= work.alerts[k]
    BY InvFacts DEF EmitInv, WrittenInv
  <2> QED
    BY <1>2, <1>3, <1>7, <2>1 DEF WrittenInv
<1>12. ReportInv'
  BY <1>2, <1>7 DEF EmitInv, ReportInv, Shown
<1>13. FinalInv' /\ FinalStateStored'
  BY <1>2 DEF FinalInv, FinalStateStored
<1>14. GrowInv' /\ FileGrows
  BY <1>2, <1>7, <1>8 DEF EmitInv, GrowInv, FileGrows
<1> QED
  BY <1>7, <1>8, <1>9, <1>10, <1>11, <1>12, <1>13, <1>14 DEF EmitInv

\* What add() does to the tables, apart from the incident itself.
LEMMA AddTables ==
  ASSUME IInv, NEW a \in Alerts, Add(a)
  PROVE  LET key == incident_key(a.sub)
         IN  /\ open' = open \cup {key}
             /\ \A k \in open \ {key} : lastEmit'[k] = lastEmit[k]
             /\ IF event' = "none"
                THEN key \in open /\ lastEmit'[key] = lastEmit[key]
                ELSE lastEmit'[key] = inc'[key].last
             /\ hist'[key].n = hist[key].n + 1
             /\ \A k \in Keys \ {key} : hist'[k].n = hist[k].n
<1> DEFINE key == incident_key(a.sub)
<1>1. key \in Keys
  BY AlertType
<1>2. AddNew(a, key) \/ Reopen(a, key) \/ AddToOpen(a, key)
  BY DEF Add
<1>3. DOMAIN lastEmit = open /\ open \subseteq DOMAIN inc
  BY DEF IInv, TablesAgree
<1>4. hist \in [Keys -> [n : Nat, newest : Nat, top : 0..100,
                         doms : SUBSET Domains]]
  BY DEF IInv, AggTypeOK
<1> HIDE DEF key
<1>5. hist'[key].n = hist[key].n + 1 /\ \A k \in Keys \ {key} : hist'[k].n = hist[k].n
  BY <1>1, <1>2, <1>4 DEF AddNew, Reopen, AddToOpen, Record
<1>6. CASE AddNew(a, key)
  <2>1. inc'[key].last = a.ts /\ lastEmit' = Put(lastEmit, key, a.ts)
    BY <1>6 DEF AddNew, Put
  <2>2. event' = "new" /\ open' = open \cup {key}
    BY <1>6 DEF AddNew
  <2> QED
    BY <1>3, <1>5, <2>1, <2>2 DEF Put, key
<1>7. CASE Reopen(a, key)
  <2>1. /\ key \in DOMAIN inc
        /\ inc' = [inc EXCEPT ![key] = Noted(inc[key], a, inc[key].peak)]
        /\ lastEmit' = Put(lastEmit, key, a.ts)
        /\ event' = "update" /\ open' = open \cup {key}
    BY <1>7 DEF Reopen
  <2>2. inc'[key].last = a.ts
    BY <2>1 DEF Noted
  <2> QED
    BY <1>3, <1>5, <2>1, <2>2 DEF Put, key
<1>8. CASE AddToOpen(a, key)
  <2>1. /\ key \in open /\ open' = open
        /\ inc' = [inc EXCEPT ![key] =
                      Noted(inc[key], a, Larger(inc[key].peak, a.conf))]
    BY <1>8 DEF AddToOpen
  <2>2. inc'[key].last = a.ts
    BY <1>3, <2>1 DEF Noted
  <2>3. \/ event' = "update" /\ lastEmit' = [lastEmit EXCEPT ![key] = a.ts]
        \/ event' = "none" /\ lastEmit' = lastEmit
    BY <1>8 DEF AddToOpen
  <2> QED
    BY <1>3, <1>5, <2>1, <2>2, <2>3 DEF key
<1> QED
  BY <1>2, <1>6, <1>7, <1>8 DEF key

LEMMA FoldAlertStep ==
  ASSUME EmitInv, FoldAlert
  PROVE  EmitInv' /\ FileGrows
<1>1. /\ pc = "wrote" /\ pc' = "folded" /\ Add(cur) /\ cur' = cur
      /\ disk' = disk /\ work' = work /\ pending' = pending
      /\ left' = left /\ runs' = runs /\ kept' = kept
  BY DEF FoldAlert, storeVars
<1>2. cur \in Alerts
  BY <1>1 DEF EmitInv, ControlInv
<1>3. IInv /\ IInv'
  BY <1>1, <1>2, AddStep DEF EmitInv
<1>4. curKey \in Keys /\ curKey' = curKey
  BY <1>1, <1>2, AlertType DEF curKey
<1>5. /\ open' = open \cup {curKey}
      /\ \A k \in open \ {curKey} : lastEmit'[k] = lastEmit[k]
      /\ IF event' = "none"
         THEN curKey \in open /\ lastEmit'[curKey] = lastEmit[curKey]
         ELSE lastEmit'[curKey] = inc'[curKey].last
      /\ hist'[curKey].n = hist[curKey].n + 1
      /\ \A k \in Keys \ {curKey} : hist'[k].n = hist[k].n
  BY <1>1, <1>2, <1>3, AddTables DEF curKey
<1>6. Consistent(disk') /\ Consistent(work') /\ ControlInv'
  BY <1>1, <1>2 DEF EmitInv, ControlInv
<1>7. WrittenInv'
  <2>1. \A k \in Keys : hist[k].n \in Nat /\ work.alerts[k] \in Nat
    BY InvFacts
  <2> QED
    BY <1>1, <1>4, <1>5, <2>1 DEF EmitInv, WrittenInv
<1>8. ReportInv'
  BY <1>1, <1>4, <1>5 DEF EmitInv, ReportInv, Shown
<1>9. FinalInv' /\ FinalStateStored'
  BY <1>1 DEF FinalInv, FinalStateStored
<1>10. GrowInv' /\ FileGrows
  <2>1. /\ \A k \in DOMAIN work.incidents : work.incidents[k] \in Incident
        /\ \A k \in DOMAIN inc : inc[k] \in Incident
    BY InvFacts
  <2>2. \A k \in DOMAIN inc' : inc'[k] \in Incident
    BY <1>3 DEF IInv, AggTypeOK
  <2>3. Behind(inc, inc')
    BY <1>1, <1>2, <1>3, AddGrows DEF Behind, Grows, Incident
  <2>4. Behind(work.incidents, inc) => Behind(work.incidents, inc')
    BY <2>1, <2>2, <2>3, BehindTrans
  <2>5. Behind(disk.incidents, disk.incidents)
    BY BehindSelf DEF EmitInv, Consistent, StoreTypeOK
  <2> QED
    BY <1>1, <2>4, <2>5 DEF EmitInv, GrowInv, FileGrows
<1> QED
  BY <1>3, <1>6, <1>7, <1>8, <1>9, <1>10 DEF EmitInv

\* A row is written of an incident in memory.
LEMMA StoreRow ==
  ASSUME EmitInv, NEW key \in DOMAIN inc, Store!upsert_incident(key, inc[key]),
         pc # "down", kept' = kept
  PROVE  /\ Consistent(work') /\ Consistent(disk')
         /\ pending' \in 0..(CommitEvery - 1)
         /\ work'.alerts = work.alerts
         /\ DOMAIN work'.incidents = DOMAIN work.incidents \cup {key}
         /\ \A k \in DOMAIN work.incidents \ {key} :
               work'.incidents[k] = work.incidents[k]
         /\ SameRow(work'.incidents[key], inc[key])
         /\ ~kept => /\ Behind(disk.incidents, disk'.incidents)
                     /\ Behind(disk'.incidents, work'.incidents)
                     /\ Behind(work'.incidents, inc)
<1>1. /\ Consistent(disk) /\ Consistent(work)
      /\ pending \in 0..(CommitEvery - 1)
  BY DEF EmitInv, ControlInv
<1>2. key \in Keys /\ inc[key] \in Incident /\ inc[key].count <= work.alerts[key]
  BY InvFacts DEF EmitInv, WrittenInv
<1>3. Store!_maybe_commit
  BY DEF Store!upsert_incident
<1>4. disk' \in {disk, work'} /\ pending' \in 0..(CommitEvery - 1)
  BY <1>1, <1>3, CommitOrNot
<1>5. /\ Consistent(work')
      /\ work'.alerts = work.alerts
      /\ DOMAIN work'.incidents = DOMAIN work.incidents \cup {key}
      /\ \A k \in DOMAIN work.incidents \ {key} :
            work'.incidents[k] = work.incidents[k]
      /\ SameRow(work'.incidents[key], inc[key])
  BY <1>1, <1>2, UpsertStep
<1>6. /\ \A k \in DOMAIN work.incidents : work.incidents[k] \in Incident
      /\ \A k \in DOMAIN work'.incidents : work'.incidents[k] \in Incident
      /\ \A k \in DOMAIN inc : inc[k] \in Incident
  BY <1>5, InvFacts DEF Consistent, StoreTypeOK
<1>7. ~kept => Behind(work.incidents, inc)
  BY DEF EmitInv, GrowInv
<1>8. ~kept => Behind(work.incidents, work'.incidents)
  <2> SUFFICES ASSUME ~kept, NEW k \in DOMAIN work.incidents
               PROVE  /\ k \in DOMAIN work'.incidents
                      /\ work.incidents[k].count <= work'.incidents[k].count
                      /\ work.incidents[k].peak <= work'.incidents[k].peak
    BY DEF Behind
  <2>1. CASE k = key
    BY <1>5, <1>7, <2>1 DEF Behind, SameRow
  <2>2. CASE k # key
    BY <1>5, <1>6, <2>2, BehindSelf DEF Behind
  <2> QED
    BY <2>1, <2>2
<1>9. ~kept => Behind(work'.incidents, inc)
  <2> SUFFICES ASSUME ~kept, NEW k \in DOMAIN work'.incidents
               PROVE  /\ k \in DOMAIN inc
                      /\ work'.incidents[k].count <= inc[k].count
                      /\ work'.incidents[k].peak <= inc[k].peak
    BY DEF Behind
  <2>1. CASE k = key
    BY <1>5, <1>6, <2>1, BehindSelf DEF Behind, SameRow
  <2>2. CASE k # key
    BY <1>5, <1>7, <2>2 DEF Behind
  <2> QED
    BY <2>1, <2>2
<1>10. ~kept => Behind(disk.incidents, work.incidents)
  BY DEF EmitInv, GrowInv
<1>11. Consistent(disk')
  BY <1>1, <1>4, <1>5
<1>12. ~kept => /\ Behind(disk.incidents, disk'.incidents)
               /\ Behind(disk'.incidents, work'.incidents)
  BY <1>1, <1>4, <1>5, <1>8, <1>10, WriteKeepsOrder
<1> QED
  BY <1>4, <1>5, <1>9, <1>11, <1>12

LEMMA StoreChangeStep ==
  ASSUME EmitInv, StoreChange
  PROVE  EmitInv' /\ FileGrows
<1>1. /\ pc = "folded" /\ pc' = "running" /\ cur' = NoAlert
      /\ inc' = inc /\ open' = open /\ lastEmit' = lastEmit
      /\ event' = event /\ hist' = hist
      /\ UNCHANGED aggVars /\ left' = left /\ runs' = runs /\ kept' = kept
  BY DEF StoreChange, aggVars
<1>2. IInv'
  BY <1>1, AggStutter DEF EmitInv
<1>3. FinalInv' /\ FinalStateStored'
  BY <1>1 DEF FinalInv, FinalStateStored
<1>4. curKey \in open /\ curKey \in DOMAIN inc
  BY <1>1, InvFacts DEF EmitInv, ReportInv
<1>5. CASE event = "none"
  <2>1. disk' = disk /\ work' = work /\ pending' = pending
    BY <1>5 DEF StoreChange, storeVars
  <2>2. ControlInv'
    BY <1>1, <2>1 DEF EmitInv, ControlInv
  <2>3. WrittenInv' /\ ReportInv'
    BY <1>1, <1>5, <2>1 DEF EmitInv, WrittenInv, ReportInv, Shown
  <2>4. Behind(disk.incidents, disk.incidents)
    BY BehindSelf DEF EmitInv, Consistent, StoreTypeOK
  <2>5. GrowInv' /\ FileGrows
    BY <1>1, <2>1, <2>4 DEF EmitInv, GrowInv, FileGrows
  <2> QED
    BY <1>2, <1>3, <2>1, <2>2, <2>3, <2>5 DEF EmitInv
<1>6. CASE event # "none"
  <2>1. Store!upsert_incident(curKey, inc[curKey])
    BY <1>6 DEF StoreChange
  <2>2. /\ Consistent(work') /\ Consistent(disk')
        /\ pending' \in 0..(CommitEvery - 1)
        /\ work'.alerts = work.alerts
        /\ DOMAIN work'.incidents = DOMAIN work.incidents \cup {curKey}
        /\ \A k \in DOMAIN work.incidents \ {curKey} :
              work'.incidents[k] = work.incidents[k]
        /\ SameRow(work'.incidents[curKey], inc[curKey])
        /\ ~kept => /\ Behind(disk.incidents, disk'.incidents)
                    /\ Behind(disk'.incidents, work'.incidents)
                    /\ Behind(work'.incidents, inc)
    BY <1>1, <1>4, <2>1, StoreRow
  <2>3. ControlInv'
    BY <1>1, <2>2 DEF EmitInv, ControlInv
  <2>4. WrittenInv'
    BY <1>1, <2>2 DEF EmitInv, WrittenInv
  <2>5. ReportInv'
    <3>1. \A k \in open \ {curKey} : Shown(k)
      BY <1>1 DEF EmitInv, ReportInv
    <3>2. lastEmit[curKey] = inc[curKey].last
      BY <1>1, <1>6 DEF EmitInv, ReportInv
    <3>3. \A k \in open : k \in DOMAIN work'.incidents
                          /\ work'.incidents[k].last = lastEmit[k]
      BY <2>2, <3>1, <3>2 DEF Shown, SameRow
    <3> QED
      BY <1>1, <3>3 DEF ReportInv, Shown
  <2>6. GrowInv' /\ FileGrows
    BY <1>1, <2>2 DEF GrowInv, FileGrows
  <2> QED
    BY <1>2, <1>3, <2>2, <2>3, <2>4, <2>5, <2>6 DEF EmitInv
<1> QED
  BY <1>5, <1>6
-----------------------------------------------------------------------------
(* expire(), and the end of the run.                                       *)

\* What expiring leaves of the invariant, whatever comes next.
LEMMA ExpireKeeps ==
  ASSUME EmitInv, Expire, pc = "running", UNCHANGED <<storeVars, cur, runs, kept>>
  PROVE  /\ IInv' /\ Consistent(disk') /\ Consistent(work')
         /\ DOMAIN inc' = DOMAIN inc
         /\ hist' = hist
         /\ \A k \in open' : Shown(k)'
         /\ ~kept => Behind(work.incidents, inc')
         /\ FileGrows
<1>1. /\ disk' = disk /\ work' = work /\ kept' = kept
  BY DEF storeVars
<1>2. IInv /\ IInv'
  BY ExpireStep DEF EmitInv
<1>3. hist' = hist /\ DOMAIN inc' = DOMAIN inc
  BY <1>2, ExpireGrows DEF Expire
<1>4. \A k \in open' : Shown(k)'
  <2>1. \A k \in open' : k \in open /\ lastEmit'[k] = lastEmit[k]
    BY InvFacts DEF Expire
  <2> QED
    BY <1>1, <2>1 DEF EmitInv, ReportInv, Shown
<1>5. ~kept => Behind(work.incidents, inc')
  <2>1. /\ \A k \in DOMAIN work.incidents : work.incidents[k] \in Incident
        /\ \A k \in DOMAIN inc : inc[k] \in Incident
    BY InvFacts
  <2>2. \A k \in DOMAIN inc' : inc'[k] \in Incident
    BY <1>2 DEF IInv, AggTypeOK
  <2>3. Behind(inc, inc')
    BY <1>2, ExpireGrows, <2>1, <2>2 DEF Behind, Grows, Incident
  <2>4. ~kept => Behind(work.incidents, inc)
    BY DEF EmitInv, GrowInv
  <2> QED
    BY <2>1, <2>2, <2>3, <2>4, BehindTrans
<1>6. FileGrows
  BY <1>1, BehindSelf DEF EmitInv, Consistent, StoreTypeOK, FileGrows
<1> QED
  BY <1>1, <1>2, <1>3, <1>4, <1>5, <1>6 DEF EmitInv

LEMMA PeriodicExpireStep ==
  ASSUME EmitInv, PeriodicExpire
  PROVE  EmitInv' /\ FileGrows
<1>1. /\ pc = "running" /\ pc' = pc /\ Expire
      /\ UNCHANGED <<storeVars, cur, runs, kept>>
      /\ disk' = disk /\ work' = work /\ pending' = pending
      /\ left' = left /\ cur' = cur /\ runs' = runs /\ kept' = kept
  BY DEF PeriodicExpire, storeVars
<1>2. /\ IInv' /\ Consistent(disk') /\ Consistent(work') /\ hist' = hist
      /\ \A k \in open' : Shown(k)'
      /\ ~kept => Behind(work.incidents, inc')
      /\ FileGrows
  BY <1>1, ExpireKeeps
<1>3. ControlInv'
  BY <1>1 DEF EmitInv, ControlInv
<1>4. WrittenInv' /\ ReportInv' /\ FinalInv' /\ FinalStateStored'
  BY <1>1, <1>2
  DEF EmitInv, WrittenInv, ReportInv, FinalInv, FinalStateStored
<1>5. GrowInv'
  BY <1>1, <1>2 DEF EmitInv, GrowInv
<1> QED
  BY <1>2, <1>3, <1>4, <1>5 DEF EmitInv

LEMMA EndOfStreamStep ==
  ASSUME EmitInv, EndOfStream
  PROVE  EmitInv' /\ FileGrows
<1>1. /\ pc = "running" /\ pc' = "closing" /\ Expire
      /\ UNCHANGED <<storeVars, cur, runs, kept>>
      /\ disk' = disk /\ work' = work /\ pending' = pending
      /\ left' = DOMAIN inc /\ cur' = cur /\ runs' = runs /\ kept' = kept
  BY DEF EndOfStream, storeVars
<1>2. /\ IInv' /\ Consistent(disk') /\ Consistent(work') /\ hist' = hist
      /\ DOMAIN inc' = DOMAIN inc
      /\ ~kept => Behind(work.incidents, inc')
      /\ FileGrows
  BY <1>1, ExpireKeeps
<1>3. left' \subseteq Keys
  BY <1>1, InvFacts
<1>4. ControlInv'
  BY <1>1, <1>3 DEF EmitInv, ControlInv
<1>5. WrittenInv' /\ ReportInv' /\ FinalInv' /\ FinalStateStored'
  BY <1>1, <1>2
  DEF EmitInv, WrittenInv, ReportInv, FinalInv, FinalStateStored
<1>6. GrowInv'
  BY <1>1, <1>2 DEF EmitInv, GrowInv
<1> QED
  BY <1>2, <1>4, <1>5, <1>6 DEF EmitInv

LEMMA StoreFinalStep ==
  ASSUME EmitInv, StoreFinal
  PROVE  EmitInv' /\ FileGrows
<1>1. PICK key \in left : /\ Store!upsert_incident(key, inc[key])
                          /\ left' = left \ {key}
  BY DEF StoreFinal
<1>2. /\ pc = "closing" /\ pc' = pc /\ cur' = cur /\ runs' = runs /\ kept' = kept
      /\ inc' = inc /\ open' = open /\ hist' = hist /\ UNCHANGED aggVars
  BY DEF StoreFinal, aggVars
<1>3. key \in DOMAIN inc
  BY <1>2 DEF EmitInv, FinalInv
<1>4. /\ Consistent(work') /\ Consistent(disk')
      /\ pending' \in 0..(CommitEvery - 1)
      /\ work'.alerts = work.alerts
      /\ DOMAIN work'.incidents = DOMAIN work.incidents \cup {key}
      /\ \A k \in DOMAIN work.incidents \ {key} :
            work'.incidents[k] = work.incidents[k]
      /\ SameRow(work'.incidents[key], inc[key])
      /\ ~kept => /\ Behind(disk.incidents, disk'.incidents)
                  /\ Behind(disk'.incidents, work'.incidents)
                  /\ Behind(work'.incidents, inc)
  BY <1>1, <1>2, <1>3, StoreRow
<1>5. IInv'
  BY <1>2, AggStutter DEF EmitInv
<1>6. ControlInv'
  BY <1>1, <1>2, <1>4 DEF EmitInv, ControlInv
<1>7. WrittenInv' /\ ReportInv' /\ FinalStateStored'
  BY <1>2, <1>4 DEF EmitInv, WrittenInv, ReportInv, FinalStateStored
<1>8. FinalInv'
  <2>1. /\ left \subseteq DOMAIN inc
        /\ \A k \in DOMAIN inc \ left :
              k \in DOMAIN work.incidents /\ SameRow(work.incidents[k], inc[k])
    BY <1>2 DEF EmitInv, FinalInv
  <2>2. \A k \in DOMAIN inc \ left' :
           k \in DOMAIN work'.incidents /\ SameRow(work'.incidents[k], inc[k])
    <3> TAKE k \in DOMAIN inc \ left'
    <3>1. CASE k = key
      BY <1>4, <3>1
    <3>2. CASE k # key
      BY <1>1, <1>4, <2>1, <3>2
    <3> QED
      BY <3>1, <3>2
  <2>3. left' \subseteq DOMAIN inc
    BY <1>1, <2>1
  <2> QED
    BY <1>2, <2>2, <2>3 DEF FinalInv, SameRow
<1>9. GrowInv' /\ FileGrows
  BY <1>2, <1>4 DEF GrowInv, FileGrows
<1> QED
  BY <1>4, <1>5, <1>6, <1>7, <1>8, <1>9 DEF EmitInv

LEMMA FinalFlushStep ==
  ASSUME EmitInv, FinalFlush
  PROVE  EmitInv' /\ FileGrows
<1>1. /\ pc = "closing" /\ left = {} /\ pc' = "ended"
      /\ disk' = work /\ work' = work /\ pending' = 0
      /\ cur' = cur /\ left' = left /\ runs' = runs /\ kept' = kept
      /\ inc' = inc /\ open' = open /\ hist' = hist /\ UNCHANGED aggVars
  BY DEF FinalFlush, Store!flush, aggVars
<1>2. IInv' /\ Consistent(disk') /\ Consistent(work')
  BY <1>1, AggStutter DEF EmitInv
<1>3. ControlInv'
  <2>1. pending' \in 0..(CommitEvery - 1)
    BY <1>1, EmitAssumption
  <2> QED
    BY <1>1, <2>1 DEF EmitInv, ControlInv
<1>4. WrittenInv' /\ ReportInv' /\ FinalInv'
  BY <1>1 DEF EmitInv, WrittenInv, ReportInv, FinalInv
<1>5. FinalStateStored'
  <2>1. \A k \in DOMAIN inc :
           k \in DOMAIN work.incidents /\ SameRow(work.incidents[k], inc[k])
    BY <1>1 DEF EmitInv, FinalInv
  <2>2. \A k \in DOMAIN inc : inc[k].count <= work.alerts[k]
    BY InvFacts DEF EmitInv, WrittenInv
  <2>3. \A k \in DOMAIN inc : work.alerts[k] >= inc[k].count
    BY <2>2, InvFacts DEF Incident
  <2> QED
    BY <1>1, <2>1, <2>3 DEF FinalStateStored, SameRow
<1>6. GrowInv' /\ FileGrows
  <2>1. Behind(work.incidents, work.incidents)
    BY InvFacts, BehindSelf
  <2> QED
    BY <1>1, <2>1 DEF EmitInv, GrowInv, FileGrows
<1> QED
  BY <1>2, <1>3, <1>4, <1>5, <1>6 DEF EmitInv

-----------------------------------------------------------------------------
(* The process dies and is started again.                                  *)

LEMMA CrashStep ==
  ASSUME EmitInv, Crash
  PROVE  EmitInv' /\ FileGrows
<1>1. /\ pc' = "down" /\ disk' = disk /\ work' = disk /\ pending' = 0
      /\ cur' = NoAlert /\ left' = {} /\ runs' = runs /\ kept' = kept /\ AggReset
  BY DEF Crash, Store!Rollback
<1>2. IInv' /\ \A k \in Keys : hist'[k].n = 0
  BY <1>1, ResetIInv
<1>3. Consistent(disk') /\ Consistent(work')
  BY <1>1 DEF EmitInv
<1>4. ControlInv'
  <2>1. pending' \in 0..(CommitEvery - 1)
    BY <1>1, EmitAssumption
  <2> QED
    BY <1>1, <2>1 DEF EmitInv, ControlInv
<1>5. WrittenInv' /\ ReportInv' /\ FinalInv' /\ FinalStateStored'
  <2>1. \A k \in Keys : work'.alerts[k] \in Nat
    BY <1>3 DEF Consistent, StoreTypeOK
  <2> QED
    BY <1>1, <1>2, <2>1 DEF WrittenInv, ReportInv, FinalInv, FinalStateStored
<1>6. GrowInv' /\ FileGrows
  <2>1. Behind(disk.incidents, disk.incidents)
    BY BehindSelf DEF EmitInv, Consistent, StoreTypeOK
  <2> QED
    BY <1>1, <2>1 DEF GrowInv, FileGrows
<1> QED
  BY <1>2, <1>3, <1>4, <1>5, <1>6 DEF EmitInv

LEMMA RestartStep ==
  ASSUME EmitInv, Restart
  PROVE  EmitInv' /\ runs' # runs
<1>1. /\ pc' = "running" /\ kept' \in BOOLEAN
      /\ disk' = (IF ~kept' THEN Store!Empty ELSE disk)
      /\ work' = disk' /\ pending' = 0
      /\ cur' = NoAlert /\ left' = {} /\ runs' = runs + 1 /\ runs < MaxRuns
      /\ AggReset
  BY DEF Restart, Store!Reconnect
<1>2. /\ IInv' /\ open' = {} /\ \A k \in Keys : hist'[k].n = 0
  BY <1>1, ResetIInv
<1>3. Consistent(disk') /\ Consistent(work')
  <2>1. CASE kept'
    BY <1>1, <2>1 DEF EmitInv
  <2>2. CASE ~kept'
    BY <1>1, <2>2, EmptyStore
  <2> QED
    BY <2>1, <2>2
<1>4. ControlInv' /\ runs' # runs
  <2>1. pending' \in 0..(CommitEvery - 1)
    BY <1>1, EmitAssumption
  <2>2. runs' \in 1..MaxRuns /\ runs' # runs
    BY <1>1, EmitAssumption DEF EmitInv, ControlInv
  <2> QED
    BY <1>1, <2>1, <2>2 DEF ControlInv
<1>5. WrittenInv' /\ ReportInv' /\ FinalInv' /\ FinalStateStored'
  <2>1. \A k \in Keys : work'.alerts[k] \in Nat
    BY <1>3 DEF Consistent, StoreTypeOK
  <2> QED
    BY <1>1, <1>2, <2>1 DEF WrittenInv, ReportInv, FinalInv, FinalStateStored
<1>6. GrowInv'
  <2>1. ~kept' => DOMAIN disk'.incidents = {} /\ DOMAIN work'.incidents = {}
    BY <1>1, EmptyStore
  <2> QED
    BY <1>1, <2>1 DEF GrowInv, Behind
<1> QED
  BY <1>2, <1>3, <1>4, <1>5, <1>6 DEF EmitInv

-----------------------------------------------------------------------------

LEMMA EmitStep ==
  ASSUME EmitInv, Next
  PROVE  EmitInv' /\ (runs' = runs => FileGrows)
  BY WriteAlertStep, FoldAlertStep, StoreChangeStep, PeriodicExpireStep,
     EndOfStreamStep, StoreFinalStep, FinalFlushStep, CrashStep, RestartStep
  DEF Next

LEMMA EmitStutter == EmitInv /\ UNCHANGED vars => EmitInv'
<1> SUFFICES ASSUME EmitInv, UNCHANGED vars PROVE EmitInv'
  OBVIOUS
<1>1. /\ UNCHANGED aggVars /\ inc' = inc /\ open' = open /\ lastEmit' = lastEmit
      /\ event' = event /\ hist' = hist
      /\ disk' = disk /\ work' = work /\ pending' = pending
      /\ pc' = pc /\ cur' = cur /\ left' = left /\ runs' = runs /\ kept' = kept
  BY DEF vars, aggVars, storeVars
<1>2. IInv'
  BY <1>1, AggStutter DEF EmitInv
<1>3. ControlInv' /\ Consistent(disk') /\ Consistent(work')
  BY <1>1 DEF EmitInv, ControlInv
<1>4. WrittenInv' /\ ReportInv' /\ FinalInv' /\ FinalStateStored' /\ GrowInv'
  BY <1>1 DEF EmitInv, WrittenInv, ReportInv, Shown, FinalInv,
              FinalStateStored, GrowInv, curKey
<1> QED
  BY <1>2, <1>3, <1>4 DEF EmitInv

LEMMA EmitInvCorrect == Spec => []EmitInv
<1>1. EmitInv /\ [Next]_vars => EmitInv'
  BY EmitStep, EmitStutter
<1> QED
  BY EmitInitIInv, <1>1, PTL DEF Spec

-----------------------------------------------------------------------------
(* The theorems.                                                           *)

\* Whatever alerts come and whenever the process dies, every variable of the
\* aggregator, the store and the pipeline keeps its type.
THEOREM EmitTypeCorrect == Spec => []TypeOK
<1>1. EmitInv => TypeOK
  BY DEF EmitInv, IInv, ControlInv, Consistent, TypeOK
<1> QED
  BY <1>1, EmitInvCorrect, PTL

\* Wherever a commit or a crash falls among the writes of _emit(), the file
\* has an alert for each one its incidents count.
THEOREM IncidentsHaveAlertsCorrect == Spec => []IncidentsHaveAlerts
<1>1. EmitInv => IncidentsHaveAlerts
  BY DEF EmitInv, Consistent, IncidentsHaveAlerts
<1> QED
  BY <1>1, EmitInvCorrect, PTL

\* run() that came to its end left the final state of all its incidents in the
\* file, also those whose last changes _emit() did not store.
THEOREM FinalStateStoredCorrect == Spec => []FinalStateStored
<1>1. EmitInv => FinalStateStored
  BY DEF EmitInv
<1> QED
  BY <1>1, EmitInvCorrect, PTL

\* Between two alerts, what the store was told of an open incident is what
\* add() last reported, and less than update_every old.
THEOREM RowsAreRecentCorrect == Spec => []RowsAreRecent
<1>1. EmitInv => RowsAreRecent
  BY DEF EmitInv, IInv, ReportedInTime, ReportInv, Shown, RowsAreRecent
<1> QED
  BY <1>1, EmitInvCorrect, PTL

\* On a new database, no commit takes back a row, a count or a peak.
THEOREM FileOnlyGrowsCorrect == Spec => FileOnlyGrows
<1> DEFINE A == runs' = runs /\ ~kept =>
                  \A k \in DOMAIN disk.incidents :
                     /\ k \in DOMAIN disk'.incidents
                     /\ disk'.incidents[k].count >= disk.incidents[k].count
                     /\ disk'.incidents[k].peak >= disk.incidents[k].peak
<1>1. EmitInv /\ EmitInv' /\ [Next]_vars => [A]_vars
  <2> SUFFICES ASSUME EmitInv, EmitInv', Next, runs' = runs, ~kept,
                      NEW k \in DOMAIN disk.incidents
               PROVE  /\ k \in DOMAIN disk'.incidents
                      /\ disk'.incidents[k].count >= disk.incidents[k].count
                      /\ disk'.incidents[k].peak >= disk.incidents[k].peak
    OBVIOUS
  <2>1. /\ k \in DOMAIN disk'.incidents
        /\ disk.incidents[k].count <= disk'.incidents[k].count
        /\ disk.incidents[k].peak <= disk'.incidents[k].peak
    BY EmitStep DEF FileGrows, Behind
  <2>2. disk.incidents[k] \in Incident /\ disk'.incidents[k] \in Incident
    BY <2>1 DEF EmitInv, Consistent, StoreTypeOK
  <2> QED
    BY <2>1, <2>2 DEF Incident
<1> QED
  BY <1>1, EmitInvCorrect, PTL DEF Spec, FileOnlyGrows
=============================================================================
