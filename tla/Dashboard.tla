----------------------------- MODULE Dashboard ------------------------------
(***************************************************************************)
(* How what the pipeline stores gets to a page (dashboard/api.py and the   *)
(* App of dashboard/index.html). The pipeline deletes and recreates the    *)
(* database and commits to it; the socket handler of a page polls the      *)
(* newest alert id and, when it has changed, queries the summary and then  *)
(* the incidents and pushes both; the page also loads them once by itself. *)
(* Sockets break and are opened again. Every query is on a connection of   *)
(* its own and may fail, with a locked or deleted database for instance,   *)
(* and one that fails reports nothing.                                     *)
(*                                                                         *)
(* Of the database file the model keeps its newest alert id and the        *)
(* revision of its incidents, and of a summary or a list of incidents the  *)
(* database it was read from. The changes of the file are numbered, so     *)
(* that what two queries saw can be told older from newer. The queries of  *)
(* one summary are taken as one, and of the page its incidents are kept.   *)
(***************************************************************************)
EXTENDS Naturals, Sequences

CONSTANTS
    Room,         \* messages under way with which sock.send_json() waits
    MaxRuns,      \* bound: pipelines started
    MaxCommits,   \* bound: commits of one pipeline
    MaxFailures   \* bound: queries of a database that fail

ASSUME DashboardAssumption ==
    /\ Room \in Nat \ {0}
    /\ {MaxRuns, MaxCommits, MaxFailures} \subseteq Nat

VARIABLES
    file,      \* the database as a query sees it now
    commits,   \* commits of the pipeline so far
    writer,    \* where the pipeline is
    failures,  \* queries that have failed so far
    ws,        \* where the socket's handler is
    last,      \* its last_alert_id
    msg,       \* what it has queried for the message it builds
    wire,      \* messages sent and not yet received by the page
    load,      \* the page's own request for the incidents
    shown,     \* the incidents on the page
    reached,   \* history: the change up to which pushes have brought the page
    pushed,    \* history: the message last sent on the socket, if any
    opened     \* history: whose database was there when it was opened

pipeline == <<file, commits, writer>>
handler == <<ws, last, msg, pushed, opened>>
page == <<load, shown, reached>>
vars == <<pipeline, failures, handler, wire, page>>

\* What a query finds in a database: run is the pipeline that made it.
\* "Nothing to report" is what it finds in none.
NoFile == [number |-> 0, run |-> 0, ids |-> 0, rev |-> 0]

\* The parts of a message.
Parts == {"summary", "incidents"}
Nothing == [part \in Parts |-> NoFile]

Init ==
    /\ file = NoFile
    /\ commits = 0
    /\ writer = "none"
    /\ failures = 0
    /\ ws = "closed"
    /\ last = 0
    /\ msg = Nothing
    /\ wire = <<>>
    /\ load = [at |-> "asked", with |-> NoFile]
    /\ shown = NoFile
    /\ reached = 0
    /\ pushed = <<>>
    /\ opened = 0

-----------------------------------------------------------------------------
(* The pipeline.                                                           *)

\* Mutant: the old file stays.
Unlink_keeps ==
    /\ writer \in {"none", "ended"}
    /\ file.run < MaxRuns
    /\ file' = [file EXCEPT !.number = @ + 1, !.run = @ + 1]
    /\ commits' = 0
    /\ writer' = "running"
    /\ UNCHANGED <<failures, handler, wire, page>>

\* A new pipeline deletes the file and makes an empty one. (In between there is
\* no file, and a query has the same answer as when it fails.)
Unlink ==
    /\ writer \in {"none", "ended"}
    /\ file.run < MaxRuns
    /\ file' = [file EXCEPT !.number = @ + 1, !.run = @ + 1, !.ids = 0, !.rev = 0]
    /\ commits' = 0
    /\ writer' = "running"
    /\ UNCHANGED <<failures, handler, wire, page>>

\* Fifty writes: each update of an incident follows a write of its alert.
Commit ==
    /\ writer = "running"
    /\ commits < MaxCommits
    /\ commits' = commits + 1
    /\ file' = [file EXCEPT !.number = @ + 1, !.ids = @ + 1, !.rev = @ + 1]
    /\ UNCHANGED <<writer, failures, handler, wire, page>>

\* The end of run(): the final states of the incidents, with the alerts that
\* are not committed yet, if there are any. (Taken as one commit.)
FinalCommit ==
    /\ writer = "running"
    /\ \E new \in {0, 1} :
        file' = [file EXCEPT !.number = @ + 1, !.ids = @ + new, !.rev = @ + 1]
    /\ writer' = "ended"
    /\ UNCHANGED <<commits, failures, handler, wire, page>>

\* It is killed or dies, and what it has not committed is lost.
Die ==
    /\ writer = "running"
    /\ writer' = "ended"
    /\ UNCHANGED <<file, commits, failures, handler, wire, page>>

-----------------------------------------------------------------------------
(* query() and ws(), the handler of the page's socket.                     *)

\* A query finds what there is, or fails (any sqlite3.Error), which is nothing
\* to report.
query(answer) ==
    \/ answer = file /\ UNCHANGED failures
    \/ /\ failures < MaxFailures /\ file # NoFile
       /\ answer = NoFile /\ failures' = failures + 1

\* Mutant: a new socket starts from the alerts there are.
Connect_fromNow ==
    /\ ws = "closed"
    /\ ws' = "poll"
    /\ last' = file.ids
    /\ opened' = file.run
    /\ UNCHANGED <<pipeline, failures, msg, pushed, wire, page>>

Connect ==
    /\ ws = "closed"
    /\ ws' = "poll"
    /\ last' = 0
    /\ opened' = file.run
    /\ UNCHANGED <<pipeline, failures, msg, pushed, wire, page>>

\* SELECT MAX(id): news if it differs, a database that was reset included, and
\* a query that fails, which counts as none.
Poll ==
    /\ ws = "poll"
    /\ \E answer \in {file, NoFile} :
        /\ query(answer)
        /\ answer.ids # last
        /\ last' = answer.ids
    /\ ws' = "summary"
    /\ UNCHANGED <<pipeline, msg, pushed, opened, wire, page>>

\* The part of the message that comes next is queried, on a connection of its
\* own, some time after the poll and after the part before it.
Query ==
    /\ ws \in Parts
    /\ \E answer \in {file, NoFile} :
        query(answer) /\ msg' = [msg EXCEPT ![ws] = answer]
    /\ ws' = IF ws = "summary" THEN "incidents" ELSE "send"
    /\ UNCHANGED <<pipeline, last, pushed, opened, wire, page>>

\* send_json() waits while the transport has no room.
Send ==
    /\ ws = "send"
    /\ Len(wire) < Room
    /\ wire' = Append(wire, msg)
    /\ pushed' = <<msg>>
    /\ ws' = "poll"
    /\ msg' = Nothing
    /\ UNCHANGED <<pipeline, failures, last, opened, page>>

\* The socket breaks, with what was under way on it. (Its handler notices at
\* its next send; what it does until then reaches nobody.)
Disconnect ==
    /\ ws # "closed"
    /\ ws' = "closed"
    /\ wire' = <<>>
    /\ last' = 0 /\ msg' = Nothing /\ pushed' = <<>> /\ opened' = 0
    /\ UNCHANGED <<pipeline, failures, page>>

-----------------------------------------------------------------------------
(* The page.                                                               *)

Show(incidents) ==
    /\ shown' = incidents
    /\ reached' = IF incidents = NoFile THEN reached ELSE incidents.number

\* Mutant: the message that came last is handled first.
Receive_newestFirst ==
    /\ wire # <<>>
    /\ Show(wire[Len(wire)]["incidents"])
    /\ wire' = SubSeq(wire, 1, Len(wire) - 1)
    /\ UNCHANGED <<pipeline, failures, handler, load>>

\* sock.onmessage: the pushed incidents replace those on the page.
Receive ==
    /\ wire # <<>>
    /\ Show(Head(wire)["incidents"])
    /\ wire' = Tail(wire)
    /\ UNCHANGED <<pipeline, failures, handler, load>>

\* GET /api/incidents, asked for when the page is loaded. The server works on
\* it in a thread of its own, so its answer and a push may pass each other.
Answer ==
    /\ load.at = "asked"
    /\ \E answer \in {file, NoFile} :
        query(answer) /\ load' = [at |-> "answered", with |-> answer]
    /\ UNCHANGED <<pipeline, handler, wire, shown, reached>>

Loaded ==
    /\ load.at = "answered"
    /\ load' = [at |-> "done", with |-> NoFile]
    /\ shown' = load.with
    /\ UNCHANGED <<pipeline, failures, handler, wire, reached>>

Next ==
    \/ Unlink \/ Commit \/ FinalCommit \/ Die
    \/ Connect \/ Poll \/ Query \/ Send \/ Disconnect
    \/ Receive \/ Answer \/ Loaded

Spec == Init /\ [][Next]_vars

\* An open socket's handler polls every second, and its polls do not fail for
\* ever. (One that fails with last at 0 changes nothing.) The page handles what
\* reaches it. Nothing is assumed of the other queries, of the pipeline or of
\* the network.
FairSpec == Spec /\ WF_vars(Poll \/ Query \/ Send) /\ WF_vars(Receive)

-----------------------------------------------------------------------------
(* Properties.                                                             *)

Database == [number : 0..(MaxRuns * (MaxCommits + 2)), run : 0..MaxRuns,
             ids : 0..(MaxCommits + 1), rev : 0..(MaxCommits + 1)]

\* Type invariant.
TypeOK ==
    /\ file \in Database
    /\ commits \in 0..MaxCommits
    /\ writer \in {"none", "running", "ended"}
    /\ failures \in 0..MaxFailures
    /\ ws \in {"closed", "poll", "send"} \cup Parts
    /\ last \in 0..(MaxCommits + 1)
    /\ msg \in [Parts -> Database] /\ wire \in Seq([Parts -> Database])
    /\ load \in [at : {"asked", "answered", "done"}, with : Database]
    /\ shown \in Database /\ reached \in 0..(MaxRuns * (MaxCommits + 2))
    /\ pushed \in Seq([Parts -> Database])
    /\ opened \in 0..MaxRuns

\* What a query found, if it did not fail, is no older than that change.
NotBehind(found, number) == found = NoFile \/ number <= found.number

\* No part of a message is older than a part queried before it, for this
\* message or for one before.
InOrder(messages) ==
    \A j \in DOMAIN messages :
        /\ NotBehind(messages[j]["incidents"], messages[j]["summary"].number)
        /\ \A i \in 1..(j - 1), before, part \in Parts :
              NotBehind(messages[j][part], messages[i][before].number)

\* However sockets break and reopen, queries fail and databases come and go, no
\* push takes the page back behind an earlier push, other than to nothing when
\* its query failed, and the summary never counts what the incidents pushed
\* with it do not show yet. (The page's own first load is no push: its answer
\* and a push may pass each other.)
PushesGoForward ==
    [][/\ shown' # shown /\ load' = load => NotBehind(shown', reached)
       /\ InOrder(wire')]_vars

\* Each query of the last message failed, or found such a database.
Pushed(Found(_)) ==
    /\ pushed # <<>>
    /\ \A part \in Parts : pushed[1][part] = NoFile \/ Found(pushed[1][part])

\* On a socket opened to a database, every commit with new alerts is polled and
\* leads to a push of that commit or a later one, but for what a query that
\* fails leaves out, unless the socket breaks or the database is replaced.
AlertsReachTheSocket ==
    \A r \in 1..MaxRuns, k \in 1..(MaxCommits + 1) :
        LET Found(found) == found.run = r /\ found.ids >= k
        IN  (ws # "closed" /\ opened = r /\ file.run = r /\ file.ids = k)
            ~> \/ ws = "closed" \/ file.run # r
               \/ ws = "poll" /\ last >= k /\ Pushed(Found)

\* "Push incident changes as the pipeline writes them": the same of every
\* commit that changes incidents, polled or not.
ChangesReachTheSocket ==
    \A r \in 1..MaxRuns, v \in 1..(MaxCommits + 1) :
        LET Found(found) == found.run = r /\ found.rev >= v
        IN  (ws # "closed" /\ opened = r /\ file.run = r /\ file.rev = v)
            ~> ws = "closed" \/ file.run # r \/ Pushed(Found)
=============================================================================
