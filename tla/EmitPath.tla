------------------------------ MODULE EmitPath ------------------------------
(***************************************************************************)
(* The way of an alert through the pipeline (src/pipeline.py): _emit()     *)
(* writes it to the store, folds it into an incident and stores the        *)
(* incident if something worth reporting changed; run() stores every       *)
(* incident once more at the end of the stream. The process may die        *)
(* between any two of these steps and be started again.                    *)
(*                                                                         *)
(* The aggregator and the store are the modules Aggregator and AlertStore. *)
(* Which alerts the detectors raise is left open: any alert may come next. *)
(***************************************************************************)
EXTENDS Aggregator

CONSTANTS
    CommitEvery,  \* writes per commit of the store
    MaxRuns       \* bound: how often the pipeline is started

ASSUME EmitAssumption ==
    CommitEvery \in Nat \ {0} /\ MaxRuns \in Nat \ {0}

VARIABLES
    disk, work, pending,   \* the store's
    pc,                    \* where the pipeline is
    cur,                   \* the alert being emitted
    left,                  \* incidents run() has still to store at the end
    runs,                  \* history: runs so far
    kept                   \* history: this run was started with --keep-db

Store == INSTANCE AlertStore WITH IncidentKeys <- Keys

storeVars == <<disk, work, pending>>
vars == <<aggVars, storeVars, pc, cur, left, runs, kept>>

NoAlert == <<>>

Init ==
    /\ AggInit
    /\ Store!StoreInit
    /\ pc = "running"
    /\ cur = NoAlert
    /\ left = {}
    /\ runs = 1
    /\ kept = FALSE

curKey == incident_key(cur.sub)

-----------------------------------------------------------------------------
(* _emit(alert).                                                           *)

\* Mutant: alerts of an open incident are taken for duplicates.
WriteAlert_dedups ==
    /\ pc = "running"
    /\ fed < MaxAlerts
    /\ \E a \in Alerts :
        /\ IF incident_key(a.sub) \in open THEN UNCHANGED storeVars
                             ELSE Store!write_alert(incident_key(a.sub))
        /\ cur' = a
    /\ pc' = "wrote"
    /\ UNCHANGED <<aggVars, left, runs, kept>>

WriteAlert ==
    /\ pc = "running"
    /\ fed < MaxAlerts
    /\ \E a \in Alerts :
        /\ Store!write_alert(incident_key(a.sub))
        /\ cur' = a
    /\ pc' = "wrote"
    /\ UNCHANGED <<aggVars, left, runs, kept>>

FoldAlert ==
    /\ pc = "wrote"
    /\ Add(cur)
    /\ pc' = "folded"
    /\ UNCHANGED <<storeVars, cur, left, runs, kept>>

\* Mutant: only new incidents are stored.
StoreChange_newOnly ==
    /\ pc = "folded"
    /\ IF event # "new" THEN UNCHANGED storeVars
                        ELSE Store!upsert_incident(curKey, inc[curKey])
    /\ pc' = "running"
    /\ cur' = NoAlert
    /\ UNCHANGED <<aggVars, left, runs, kept>>

StoreChange ==
    /\ pc = "folded"
    /\ IF event = "none" THEN UNCHANGED storeVars
                         ELSE Store!upsert_incident(curKey, inc[curKey])
    /\ pc' = "running"
    /\ cur' = NoAlert
    /\ UNCHANGED <<aggVars, left, runs, kept>>

-----------------------------------------------------------------------------
(* on_conn() every 20000th connection, and the end of run().               *)

\* The incidents it closes are not stored before the end of the run.
PeriodicExpire ==
    /\ pc = "running"
    /\ Expire
    /\ UNCHANGED <<storeVars, pc, cur, left, runs, kept>>

\* Mutant: the end of the run stores the open incidents only.
EndOfStream_openOnly ==
    /\ pc = "running"
    /\ Expire
    /\ left' = open'
    /\ pc' = "closing"
    /\ UNCHANGED <<storeVars, cur, runs, kept>>

EndOfStream ==
    /\ pc = "running"
    /\ Expire
    /\ left' = DOMAIN inc
    /\ pc' = "closing"
    /\ UNCHANGED <<storeVars, cur, runs, kept>>

StoreFinal ==
    /\ pc = "closing"
    /\ \E key \in left :
        /\ Store!upsert_incident(key, inc[key])
        /\ left' = left \ {key}
    /\ UNCHANGED <<aggVars, pc, cur, runs, kept>>

FinalFlush ==
    /\ pc = "closing"
    /\ left = {}
    /\ Store!flush
    /\ pc' = "ended"
    /\ UNCHANGED <<aggVars, cur, left, runs, kept>>

-----------------------------------------------------------------------------
(* The process dies (the replay kills it, or a handler raises), and the    *)
(* pipeline is started again, with or without --keep-db.                   *)

Crash ==
    /\ pc \notin {"ended", "down"}
    /\ Store!Rollback
    /\ AggReset
    /\ pc' = "down"
    /\ cur' = NoAlert
    /\ left' = {}
    /\ UNCHANGED <<runs, kept>>

Restart ==
    /\ pc \in {"ended", "down"}
    /\ runs < MaxRuns
    /\ kept' \in BOOLEAN
    /\ Store!Reconnect(~kept')
    /\ AggReset
    /\ pc' = "running"
    /\ cur' = NoAlert
    /\ left' = {}
    /\ runs' = runs + 1

Next ==
    \/ WriteAlert \/ FoldAlert \/ StoreChange \/ PeriodicExpire
    \/ EndOfStream \/ StoreFinal \/ FinalFlush \/ Crash \/ Restart

Spec == Init /\ [][Next]_vars

-----------------------------------------------------------------------------
(* Safety.                                                                 *)

StoreTypeOK(db) ==
    /\ db.alerts \in [Keys -> Nat]
    /\ DOMAIN db.incidents \subseteq Keys
    /\ \A k \in DOMAIN db.incidents : db.incidents[k] \in Incident

\* Type invariant.
TypeOK ==
    /\ AggTypeOK
    /\ StoreTypeOK(disk) /\ StoreTypeOK(work)
    /\ pending \in 0..(CommitEvery - 1)
    /\ pc \in {"running", "wrote", "folded", "closing", "ended", "down"}
    /\ cur \in Alerts \cup {NoAlert}
    /\ left \subseteq Keys
    /\ runs \in 1..MaxRuns
    /\ kept \in BOOLEAN

\* Whatever moment a commit or a crash picks, the file never shows an incident
\* that counts more alerts than the alerts table has rows for it.
IncidentsHaveAlerts ==
    \A k \in DOMAIN disk.incidents : disk.incidents[k].count <= disk.alerts[k]

SameRow(row, i) ==
    /\ row.last = i.last /\ row.count = i.count /\ row.peak = i.peak
    /\ row.severity = i.severity /\ row.domains = i.domains
    /\ row.status = i.status

\* A run that reached its end has stored the final state of every incident it
\* holds and every alert it raised, also those no update reported before.
FinalStateStored ==
    pc = "ended" =>
        \A k \in DOMAIN inc :
            /\ k \in DOMAIN disk.incidents
            /\ SameRow(disk.incidents[k], inc[k])
            /\ disk.alerts[k] >= inc[k].count

\* Between alerts, every open incident has a row, and that row is less than
\* update_every behind it on the traffic clock.
RowsAreRecent ==
    pc = "running" =>
        \A k \in open :
            /\ k \in DOMAIN work.incidents
            /\ work.incidents[k].last = lastEmit[k]
            /\ inc[k].last - work.incidents[k].last < UpdateEvery

\* While a run on a new database lasts, what readers of the file see of an
\* incident only grows: a commit never takes back a row, a count or a peak. (A
\* run on a kept database counts from one again and overwrites the old rows.)
FileOnlyGrows ==
    [][runs' = runs /\ ~kept =>
          \A k \in DOMAIN disk.incidents :
              /\ k \in DOMAIN disk'.incidents
              /\ disk'.incidents[k].count >= disk.incidents[k].count
              /\ disk'.incidents[k].peak >= disk.incidents[k].peak]_vars
=============================================================================
