----------------------------- MODULE AlertStore -----------------------------
(***************************************************************************)
(* AlertStore of src/alerts/store.py: the SQLite database of alerts and    *)
(* incidents. Every write opens or joins a transaction and the store       *)
(* commits every fiftieth write; whoever reads the file sees the last      *)
(* commit, and a process that dies loses what came after it.               *)
(*                                                                         *)
(* The alerts table only grows, so it is kept as the number of rows per    *)
(* incident key.                                                           *)
(***************************************************************************)
EXTENDS Integers

CONSTANTS
    IncidentKeys,  \* keys alerts and incidents may have
    CommitEvery    \* writes per commit (50 in the code)

VARIABLES
    disk,      \* the database as of the last commit
    work,      \* the database as the writing connection sees it
    pending    \* writes since the last commit

storeVars == <<disk, work, pending>>

Empty == [alerts |-> [k \in IncidentKeys |-> 0], incidents |-> <<>>]

StoreInit ==
    /\ disk = Empty
    /\ work = Empty
    /\ pending = 0

\* Mutant: one write too many before the commit.
_maybe_commit_late ==
    IF pending + 1 > CommitEvery
    THEN disk' = work' /\ pending' = 0
    ELSE pending' = pending + 1 /\ UNCHANGED disk

\* Called after every write: commit when enough of them have gathered.
_maybe_commit ==
    IF pending + 1 >= CommitEvery
    THEN disk' = work' /\ pending' = 0
    ELSE pending' = pending + 1 /\ UNCHANGED disk

write_alert(key) ==
    /\ work' = [work EXCEPT !.alerts[key] = @ + 1]
    /\ _maybe_commit

\* INSERT ... ON CONFLICT(key) DO UPDATE: first_seen stays that of the row.
Upserted(rows, key, row) ==
    [k \in DOMAIN rows \cup {key} |->
        IF k # key THEN rows[k]
        ELSE IF key \in DOMAIN rows THEN [row EXCEPT !.first = rows[key].first]
        ELSE row]

upsert_incident(key, row) ==
    /\ work' = [work EXCEPT !.incidents = Upserted(@, key, row)]
    /\ _maybe_commit

flush ==
    /\ disk' = work
    /\ pending' = 0
    /\ UNCHANGED work

\* The writing process dies: SQLite rolls the open transaction back.
Rollback ==
    /\ work' = disk
    /\ pending' = 0
    /\ UNCHANGED disk

\* A new AlertStore on the same path; reset deletes the file first.
Reconnect(reset) ==
    /\ disk' = IF reset THEN Empty ELSE disk
    /\ work' = disk'
    /\ pending' = 0
=============================================================================
