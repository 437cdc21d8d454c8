-------------------------- MODULE DashboardProofs --------------------------
(***************************************************************************)
(* For every value of the constants: the variables of the dashboard's      *)
(* feed keep their types, and no push takes the page back behind an        *)
(* earlier one.                                                            *)
(***************************************************************************)
EXTENDS Dashboard, SequenceTheorems, TLAPS

Numbers == MaxCommits + 2      \* changes of the file that one pipeline makes
FinalCommits(w) == IF w = "ended" THEN 1 ELSE 0

\* A pipeline changes the file as often as it commits, once more when it
\* makes the file and once more when it ends.
CountInv ==
    /\ file.ids <= commits + FinalCommits(writer)
    /\ file.rev <= commits + FinalCommits(writer)
    /\ writer = "none" => file = NoFile
    /\ writer # "none" =>
          /\ file.run >= 1
          /\ file.number <=
                (file.run - 1) * Numbers + 1 + commits + FinalCommits(writer)

\* What has been queried is not newer than the file, and what is queried now
\* is not older than what was sent.
OrderInv ==
    /\ InOrder(wire)
    /\ \A j \in DOMAIN wire, part \in Parts : wire[j][part].number <= file.number
    /\ \A part \in Parts : msg[part].number <= file.number
    /\ \A j \in DOMAIN wire, before, part \in Parts :
          NotBehind(msg[part], wire[j][before].number)
    /\ NotBehind(msg["incidents"], msg["summary"].number)
    /\ ws # "send" => msg["incidents"] = NoFile

\* Nothing on its way is behind what a push has shown, if its query did not
\* fail.
ReachedInv ==
    /\ reached <= file.number
    /\ \A j \in DOMAIN wire, part \in Parts : NotBehind(wire[j][part], reached)
    /\ \A part \in Parts : NotBehind(msg[part], reached)

FeedInv == TypeOK /\ CountInv /\ OrderInv /\ ReachedInv

-----------------------------------------------------------------------------
(* The bound on the numbers of the changes.                                *)

LEMMA NumberBound ==
  ASSUME NEW r \in 1..MaxRuns, NEW m \in Nat, m <= Numbers,
         NEW n \in Nat, n <= (r - 1) * Numbers + m
  PROVE  /\ n <= r * Numbers
         /\ n \in 0..(MaxRuns * (MaxCommits + 2))
         /\ r * Numbers = ((r + 1) - 1) * Numbers
<1>1. MaxRuns \in Nat /\ Numbers \in Nat /\ Numbers = MaxCommits + 2 /\ r \in Nat
  BY DashboardAssumption DEF Numbers
<1> HIDE DEF Numbers
<1>2. (r - 1) * Numbers + Numbers = r * Numbers
  BY <1>1
<1>3. r * Numbers <= MaxRuns * Numbers
  <2>1. PICK d \in Nat : MaxRuns = r + d
    <3>1. MaxRuns - r \in Nat /\ MaxRuns = r + (MaxRuns - r)
      BY <1>1
    <3> QED
      BY <3>1
  <2>2. MaxRuns * Numbers = r * Numbers + d * Numbers
    BY <1>1, <2>1
  <2>3. d * Numbers \in Nat /\ r * Numbers \in Nat
    BY <1>1, <2>1
  <2> QED
    BY <2>2, <2>3
<1>4. /\ (r - 1) * Numbers \in Nat /\ r * Numbers \in Nat
      /\ MaxRuns * Numbers \in Nat
  <2>1. r - 1 \in Nat
    BY <1>1
  <2> QED
    BY <1>1, <2>1
<1>5. n <= r * Numbers
  BY <1>1, <1>2, <1>4
<1>6. n \in 0..(MaxRuns * Numbers)
  BY <1>3, <1>4, <1>5
<1>7. r = (r + 1) - 1
  BY <1>1
<1> QED
  BY <1>1, <1>5, <1>6, <1>7

LEMMA InitFeed == Init => FeedInv
<1> SUFFICES ASSUME Init PROVE FeedInv
  OBVIOUS
<1> USE DashboardAssumption DEF Init
<1>1. NoFile \in Database
  <2>1. MaxRuns * (MaxCommits + 2) \in Nat
    OBVIOUS
  <2> QED
    BY <2>1 DEF NoFile, Database
<1>2. Nothing \in [Parts -> Database]
  BY <1>1 DEF Nothing
<1>3. TypeOK
  <2>1. MaxRuns * (MaxCommits + 2) \in Nat
    OBVIOUS
  <2>2. reached \in 0..(MaxRuns * (MaxCommits + 2))
    BY <2>1
  <2> QED
    BY <1>1, <1>2, <2>2 DEF TypeOK
<1>4. CountInv
  BY DEF CountInv, NoFile, FinalCommits
<1>5. DOMAIN wire = {}
  OBVIOUS
<1>6. \A part \in Parts : msg[part] = NoFile /\ NoFile.number = 0
  BY DEF Nothing, NoFile
<1>7. file.number = 0 /\ reached = 0
  BY DEF NoFile
<1>8. OrderInv /\ ReachedInv
  BY <1>5, <1>6, <1>7 DEF OrderInv, ReachedInv, InOrder, NotBehind, Parts
<1> QED
  BY <1>3, <1>4, <1>8 DEF FeedInv

-----------------------------------------------------------------------------
(* Types.                                                                  *)

\* The pipeline's changes of the file.
LEMMA PipelineType ==
  ASSUME TypeOK, CountInv, Unlink \/ Commit \/ FinalCommit \/ Die
  PROVE  /\ file' \in Database /\ commits' \in 0..MaxCommits
         /\ writer' \in {"none", "running", "ended"}
         /\ CountInv' /\ file.number <= file'.number
<1> USE DashboardAssumption
<1>1. /\ file \in Database /\ commits \in 0..MaxCommits
      /\ file.number \in Nat /\ file.run \in 0..MaxRuns
      /\ file.ids \in 0..(MaxCommits + 1) /\ file.rev \in 0..(MaxCommits + 1)
      /\ Numbers \in Nat /\ Numbers = MaxCommits + 2
  <2>1. MaxRuns * (MaxCommits + 2) \in Nat
    OBVIOUS
  <2>2. file \in Database /\ commits \in 0..MaxCommits
    BY DEF TypeOK
  <2>3. /\ file.number \in 0..(MaxRuns * (MaxCommits + 2)) /\ file.run \in 0..MaxRuns
        /\ file.ids \in 0..(MaxCommits + 1) /\ file.rev \in 0..(MaxCommits + 1)
    BY <2>2 DEF Database
  <2>4. Numbers \in Nat /\ Numbers = MaxCommits + 2
    BY DEF Numbers
  <2> QED
    BY <2>1, <2>2, <2>3, <2>4
<1>2. CASE Unlink
  <2>1. /\ commits' = 0 /\ writer' = "running" /\ file.run + 1 \in 1..MaxRuns
        /\ file' = [number |-> file.number + 1, run |-> file.run + 1,
                    ids |-> 0, rev |-> 0]
    <3>1. /\ commits' = 0 /\ writer' = "running" /\ file.run < MaxRuns
          /\ file' = [file EXCEPT !.number = file.number + 1, !.run = file.run + 1,
                                  !.ids = 0, !.rev = 0]
      BY <1>2 DEF Unlink
    <3>2. file.run + 1 \in 1..MaxRuns
      BY <1>1, <3>1
    <3> QED
      BY <1>1, <3>1, <3>2 DEF Database
  <2>2. file.number <= file.run * Numbers
    <3>1. CASE writer = "none"
      BY <1>1, <3>1 DEF CountInv, NoFile
    <3>2. CASE writer = "ended"
      <4>1. /\ file.run \in 1..MaxRuns /\ commits + 2 \in Nat /\ commits + 2 <= Numbers
            /\ file.number <= (file.run - 1) * Numbers + 1 + commits + 1
        BY <1>1, <3>2 DEF CountInv, FinalCommits
      <4>2. (file.run - 1) * Numbers \in Int
        BY <1>1
      <4>3. file.number <= (file.run - 1) * Numbers + (commits + 2)
        BY <1>1, <4>1, <4>2
      <4> QED
        BY <1>1, <4>1, <4>3, NumberBound
    <3> QED
      BY <1>2, <3>1, <3>2 DEF Unlink
  <2>3. /\ file'.number = file.number + 1 /\ file'.run = file.run + 1
        /\ file'.ids = 0 /\ file'.rev = 0
    BY <2>1
  <2>4. file'.number <= (file'.run - 1) * Numbers + 1
    <3>1. file'.run - 1 = file.run /\ file.run * Numbers \in Nat
      BY <1>1, <2>3
    <3> QED
      BY <1>1, <2>2, <2>3, <3>1
  <2>5. file'.number \in 0..(MaxRuns * (MaxCommits + 2))
    <3>1. /\ file'.number \in Nat /\ file'.run \in 1..MaxRuns
          /\ 1 \in Nat /\ 1 <= Numbers
      BY <1>1, <2>1, <2>3
    <3> QED
      BY <2>4, <3>1, NumberBound
  <2>6. file' \in Database
    BY <2>1, <2>3, <2>5 DEF Database
  <2>7. CountInv'
    <3>1. FinalCommits(writer') = 0 /\ (file'.run - 1) * Numbers \in Int
      BY <1>1, <2>1, <2>3 DEF FinalCommits
    <3> QED
      BY <1>1, <2>1, <2>3, <2>4, <3>1 DEF CountInv, Numbers
  <2> QED
    BY <1>1, <2>1, <2>3, <2>6, <2>7
<1>3. CASE Commit \/ FinalCommit
  <2>1. PICK new \in {0, 1} :
           file' = [number |-> file.number + 1, run |-> file.run,
                    ids |-> file.ids + new, rev |-> file.rev + 1]
    BY <1>1, <1>3 DEF Commit, FinalCommit, Database
  <2>2. /\ file'.number = file.number + 1 /\ file'.run = file.run
        /\ file'.ids = file.ids + new /\ file'.rev = file.rev + 1
    BY <2>1
  <2>3. /\ FinalCommits(writer) = 0
        /\ commits' + FinalCommits(writer') = commits + 1
        /\ commits' \in 0..MaxCommits /\ FinalCommits(writer') \in {0, 1}
        /\ writer # "none" /\ writer' \in {"running", "ended"}
    BY <1>1, <1>3 DEF Commit, FinalCommit, FinalCommits
  <2>4. /\ file.run \in 1..MaxRuns
        /\ file.number <= (file.run - 1) * Numbers + 1 + commits
        /\ file.ids <= commits /\ file.rev <= commits
    <3>1. (file.run - 1) * Numbers \in Int
      BY <1>1
    <3> QED
      BY <1>1, <2>3, <3>1 DEF CountInv
  <2>5. /\ file'.number <= (file'.run - 1) * Numbers + 1 + (commits + 1)
        /\ file'.number <= (file'.run - 1) * Numbers + (commits + 2)
    <3>1. (file.run - 1) * Numbers \in Int
      BY <1>1
    <3> QED
      BY <1>1, <2>2, <2>4, <3>1
  <2>6. file'.number \in 0..(MaxRuns * (MaxCommits + 2))
    <3>1. /\ file'.number \in Nat /\ file'.run \in 1..MaxRuns
          /\ commits + 2 \in Nat /\ commits + 2 <= Numbers
      BY <1>1, <2>2, <2>4
    <3> QED
      BY <2>5, <3>1, NumberBound
  <2>7. file'.ids \in 0..(MaxCommits + 1) /\ file'.rev \in 0..(MaxCommits + 1)
    BY <1>1, <2>2, <2>4
  <2>8. file' \in Database
    BY <1>1, <2>1, <2>2, <2>6, <2>7 DEF Database
  <2>9. CountInv'
    <3>1. (file'.run - 1) * Numbers \in Int
      BY <1>1, <2>2
    <3>5. /\ commits \in Nat /\ commits' \in Nat /\ FinalCommits(writer') \in Nat
          /\ commits' + FinalCommits(writer') = commits + 1
      BY <1>1, <2>3
    <3>2. (file'.run - 1) * Numbers + 1 + (commits + 1)
             = (file'.run - 1) * Numbers + 1 + commits' + FinalCommits(writer')
      <4>1. \A e \in Int, a, b, c \in Nat :
               b + c = a + 1 => e + 1 + (a + 1) = e + 1 + b + c
        OBVIOUS
      <4> QED
        BY <3>1, <3>5, <4>1
    <3>3. /\ file'.ids <= commits' + FinalCommits(writer')
          /\ file'.rev <= commits' + FinalCommits(writer')
      <4>1. file.ids \in Nat /\ file.rev \in Nat
        BY <1>1
      <4>2. file.ids + new <= commits + 1 /\ file.rev + 1 <= commits + 1
        <5>1. file.ids <= commits /\ file.rev <= commits
          BY <2>4
        <5>2. new = 0 \/ new = 1
          OBVIOUS
        <5> QED
          BY <3>5, <4>1, <5>1, <5>2
      <4> QED
        BY <2>2, <3>5, <4>2
    <3>4. writer' # "none" /\ file'.run >= 1
      BY <2>2, <2>3, <2>4
    <3> QED
      BY <2>5, <3>2, <3>3, <3>4 DEF CountInv, Numbers
  <2> QED
    BY <1>1, <2>2, <2>3, <2>8, <2>9
<1>4. CASE Die
  <2>1. file' = file /\ commits' = commits
        /\ FinalCommits(writer) = 0 /\ FinalCommits(writer') = 1
        /\ writer = "running" /\ writer' = "ended"
    BY <1>4 DEF Die, handler, page, FinalCommits
  <2>2. CountInv'
    <3>1. (file.run - 1) * Numbers \in Int /\ commits \in Nat
      BY <1>1
    <3>2. /\ file.ids <= commits + 1 /\ file.rev <= commits + 1
          /\ file.run >= 1
          /\ file.number <= (file.run - 1) * Numbers + 1 + commits + 1
      BY <1>1, <2>1, <3>1 DEF CountInv
    <3> QED
      BY <2>1, <3>2 DEF CountInv, Numbers
  <2> QED
    BY <1>1, <2>1, <2>2
<1> QED
  BY <1>2, <1>3, <1>4

LEMMA TypeStep ==
  TypeOK /\ CountInv /\ [Next]_vars
      => TypeOK' /\ CountInv' /\ file.number <= file'.number
<1> SUFFICES ASSUME TypeOK, CountInv, [Next]_vars
             PROVE  TypeOK' /\ CountInv' /\ file.number <= file'.number
  OBVIOUS
<1> USE DashboardAssumption
<1>1. CASE Unlink \/ Commit \/ FinalCommit \/ Die
  <2>1. UNCHANGED <<failures, handler, wire, page>>
    BY <1>1 DEF Unlink, Commit, FinalCommit, Die
  <2> QED
    BY <1>1, <2>1, PipelineType DEF TypeOK, handler, page
<1>2. CASE UNCHANGED pipeline
  <2>1. /\ file' = file /\ commits' = commits /\ writer' = writer
        /\ file \in Database /\ file.ids \in 0..(MaxCommits + 1)
        /\ file.run \in 0..MaxRuns /\ file.number <= file'.number
        /\ commits \in 0..MaxCommits
        /\ writer \in {"none", "running", "ended"}
    <3>1. file \in Database /\ file.number \in 0..(MaxRuns * (MaxCommits + 2))
      BY DEF TypeOK, Database
    <3>2. MaxRuns * (MaxCommits + 2) \in Nat
      OBVIOUS
    <3>3. file.number <= file.number
      BY <3>1, <3>2
    <3> QED
      BY <1>2, <3>1, <3>3 DEF pipeline, TypeOK, Database
  <2>2. CountInv'
    BY <2>1 DEF CountInv, Numbers
  <2>3. NoFile \in Database /\ Nothing \in [Parts -> Database]
    <3>1. MaxRuns * (MaxCommits + 2) \in Nat
      OBVIOUS
    <3> QED
      BY <3>1 DEF Nothing, NoFile, Database
  <2>4. /\ ws' \in {"closed", "poll", "send"} \cup Parts
        /\ last' \in 0..(MaxCommits + 1)
        /\ opened' \in 0..MaxRuns
    <3>1. CASE Poll
      <4>1. PICK answer \in {file, NoFile} : last' = answer.ids
        BY <3>1 DEF Poll
      <4>2. answer.ids \in 0..(MaxCommits + 1)
        BY <2>1, <2>3 DEF Database
      <4> QED
        BY <3>1, <4>1, <4>2 DEF Poll, TypeOK, Parts
    <3>2. CASE Connect \/ Disconnect
      BY <2>1, <3>2 DEF Connect, Disconnect, TypeOK
    <3>3. CASE last' = last /\ opened' = opened /\ ~Poll /\ ~Connect /\ ~Disconnect
      <4>1. ws' \in {ws, "poll", "send", "incidents"}
        BY <3>3 DEF Next, Query, Send, Receive, Answer, Loaded, handler, vars,
           Unlink, Commit, FinalCommit, Die
      <4> QED
        BY <3>3, <4>1 DEF TypeOK, Parts
    <3> QED
      BY <3>1, <3>2, <3>3 DEF Next, Query, Send, Receive, Answer, Loaded, handler, vars,
         Unlink, Commit, FinalCommit, Die
  <2>5. msg' \in [Parts -> Database]
    <3>1. CASE Query
      <4>1. PICK answer \in {file, NoFile} : msg' = [msg EXCEPT ![ws] = answer]
        BY <3>1 DEF Query
      <4>2. answer \in Database
        BY <2>1, <2>3
      <4> QED
        BY <3>1, <4>1, <4>2 DEF TypeOK
    <3>2. CASE msg' \in {msg, Nothing}
      BY <2>3, <3>2 DEF TypeOK
    <3> QED
      BY <3>1, <3>2 DEF Next, Connect, Poll, Send, Disconnect, Receive, Answer, Loaded,
         handler, vars, Unlink, Commit, FinalCommit, Die
  <2>6. wire' \in Seq([Parts -> Database]) /\ shown' \in Database
        /\ reached' \in 0..(MaxRuns * (MaxCommits + 2))
    <3>1. CASE Send
      BY <3>1 DEF TypeOK, Send, page
    <3>2. CASE Receive
      <4>1. wire \in Seq([Parts -> Database]) /\ wire # <<>>
        BY <3>2 DEF TypeOK, Receive
      <4>2. Head(wire) \in [Parts -> Database]
            /\ Tail(wire) \in Seq([Parts -> Database])
        BY <4>1, HeadTailProperties
      <4>3. Head(wire)["incidents"] \in Database
        BY <4>2 DEF Parts
      <4>4. shown' \in Database
        BY <3>2, <4>3 DEF Receive, Show
      <4>5. reached' \in {reached, Head(wire)["incidents"].number}
        BY <3>2 DEF Receive, Show
      <4>6. reached' \in 0..(MaxRuns * (MaxCommits + 2))
        BY <4>3, <4>5 DEF TypeOK, Database
      <4> QED
        BY <3>2, <4>2, <4>4, <4>6 DEF Receive
    <3>3. CASE Disconnect
      BY <3>3 DEF TypeOK, Disconnect, page
    <3>4. CASE Connect \/ Poll \/ Query
      BY <3>4 DEF TypeOK, Connect, Poll, Query, page
    <3>5. CASE Answer \/ Loaded \/ UNCHANGED vars
      BY <3>5 DEF TypeOK, Answer, Loaded, vars, page
    <3>6. CASE Unlink \/ Commit \/ FinalCommit \/ Die
      BY <3>6 DEF TypeOK, Unlink, Commit, FinalCommit, Die, page
    <3> QED
      BY <3>1, <3>2, <3>3, <3>4, <3>5, <3>6 DEF Next
  <2>8. pushed' \in Seq([Parts -> Database])
    <3>1. CASE Send
      <4>1. pushed' = <<msg>> /\ msg \in [Parts -> Database]
        BY <3>1 DEF Send, TypeOK
      <4> QED
        BY <4>1
    <3>2. CASE pushed' = pushed \/ pushed' = <<>>
      <4>1. <<>> \in Seq([Parts -> Database]) /\ pushed \in Seq([Parts -> Database])
        BY DEF TypeOK
      <4> QED
        BY <3>2, <4>1
    <3> QED
      BY <3>1, <3>2 DEF Next, Connect, Poll, Query, Disconnect, Receive, Answer, Loaded,
         handler, vars, Unlink, Commit, FinalCommit, Die
  <2>9. failures' \in 0..MaxFailures
    <3>1. CASE \E answer \in {file, NoFile} : query(answer)
      BY <3>1 DEF query, TypeOK
    <3>2. CASE failures' = failures
      BY <3>2 DEF TypeOK
    <3> QED
      BY <3>1, <3>2 DEF Next, Connect, Poll, Query, Send, Disconnect, Receive, Answer,
         Loaded, vars, Unlink, Commit, FinalCommit, Die
  <2>7. load' \in [at : {"asked", "answered", "done"}, with : Database]
    <3>1. CASE Answer
      BY <2>1, <2>3, <3>1 DEF Answer
    <3>2. CASE Loaded
      BY <2>3, <3>2 DEF Loaded
    <3>3. CASE load' = load
      BY <3>3 DEF TypeOK
    <3> QED
      BY <3>1, <3>2, <3>3 DEF Next, Connect, Poll, Query, Send, Disconnect, Receive,
         Unlink, Commit, FinalCommit, Die, page, vars
  <2> QED
    BY <2>1, <2>2, <2>4, <2>5, <2>6, <2>7, <2>8, <2>9 DEF TypeOK
<1> QED
  BY <1>1, <1>2 DEF Next, Connect, Poll, Query, Send, Disconnect, Receive, Answer,
     Loaded, vars

-----------------------------------------------------------------------------
(* The order of what is on its way.                                        *)

\* The numbers there are to compare.
LEMMA NumberTypes ==
  ASSUME TypeOK
  PROVE  /\ file.number \in Nat /\ reached \in Nat
         /\ \A part \in Parts : msg[part].number \in Nat
         /\ \A j \in DOMAIN wire, part \in Parts : wire[j][part].number \in Nat
<1>1. \A d \in Database : d.number \in Nat
  <2>1. MaxRuns * (MaxCommits + 2) \in Nat
    BY DashboardAssumption
  <2> QED
    BY <2>1 DEF Database
<1>2. /\ file \in Database /\ msg \in [Parts -> Database]
      /\ wire \in Seq([Parts -> Database])
      /\ reached \in 0..(MaxRuns * (MaxCommits + 2))
  BY DEF TypeOK
<1>4. MaxRuns * (MaxCommits + 2) \in Nat
  BY DashboardAssumption
<1>3. \A j \in DOMAIN wire : wire[j] \in [Parts -> Database]
  BY <1>2, ElementOfSeq
<1> QED
  BY <1>1, <1>2, <1>3, <1>4

\* A message built from later queries goes to the end of the wire.
LEMMA SendOrder ==
  ASSUME TypeOK, OrderInv, ReachedInv, Send
  PROVE  OrderInv' /\ ReachedInv'
<1>1. /\ wire' = Append(wire, msg) /\ msg' = Nothing
      /\ UNCHANGED <<file, shown, reached>>
  BY DEF Send, pipeline, page
<1>2. /\ Len(wire) \in Nat /\ DOMAIN wire = 1..Len(wire)
      /\ DOMAIN wire' = 1..(Len(wire) + 1)
      /\ wire'[Len(wire) + 1] = msg
      /\ \A j \in 1..Len(wire) : wire'[j] = wire[j]
  <2>1. wire \in Seq([Parts -> Database]) /\ msg \in [Parts -> Database]
    BY DEF TypeOK
  <2> QED
    BY <1>1, <2>1, AppendProperties
<1>3. \A j \in DOMAIN wire' :
         \/ j \in DOMAIN wire /\ wire'[j] = wire[j]
         \/ j = Len(wire) + 1 /\ wire'[j] = msg
  BY <1>2
<1>4. \A j \in DOMAIN wire' : \A i \in 1..(j - 1) :
         i \in DOMAIN wire /\ wire'[i] = wire[i]
  BY <1>2
<1>5. InOrder(wire')
  <2> SUFFICES ASSUME NEW j \in DOMAIN wire'
               PROVE  /\ NotBehind(wire'[j]["incidents"], wire'[j]["summary"].number)
                      /\ \A i \in 1..(j - 1), before, part \in Parts :
                            NotBehind(wire'[j][part], wire'[i][before].number)
    BY DEF InOrder
  <2>1. CASE j \in DOMAIN wire /\ wire'[j] = wire[j]
    BY <1>4, <2>1 DEF OrderInv, InOrder
  <2>2. CASE wire'[j] = msg
    BY <1>4, <2>2 DEF OrderInv
  <2> QED
    BY <1>3, <2>1, <2>2
<1>6. \A part \in Parts : msg'[part] = NoFile /\ NoFile.number = 0
  BY <1>1 DEF Nothing, NoFile
<1>7. OrderInv'
  <2>1. \A j \in DOMAIN wire', part \in Parts : wire'[j][part].number <= file'.number
    BY <1>1, <1>3 DEF OrderInv
  <2>2. \A part \in Parts : msg'[part].number <= file'.number
    BY <1>1, <1>6, NumberTypes
  <2>3. /\ \A j \in DOMAIN wire', before, part \in Parts :
              NotBehind(msg'[part], wire'[j][before].number)
        /\ NotBehind(msg'["incidents"], msg'["summary"].number)
        /\ msg'["incidents"] = NoFile
    BY <1>6 DEF NotBehind, Parts
  <2> QED
    BY <1>5, <2>1, <2>2, <2>3 DEF OrderInv
<1>8. ReachedInv'
  <2>1. \A j \in DOMAIN wire', part \in Parts : NotBehind(wire'[j][part], reached)
    BY <1>3 DEF ReachedInv
  <2>2. \A part \in Parts : NotBehind(msg'[part], reached)
    BY <1>6 DEF NotBehind
  <2> QED
    BY <1>1, <2>1, <2>2 DEF ReachedInv
<1> QED
  BY <1>7, <1>8

\* What a push shows is not newer than what comes after it.
LEMMA ReceiveOrder ==
  ASSUME TypeOK, OrderInv, ReachedInv, Receive
  PROVE  OrderInv' /\ ReachedInv' /\ NotBehind(shown', reached)
<1> DEFINE first == wire[1]["incidents"]
<1>1. /\ wire # <<>> /\ shown' = first /\ wire' = Tail(wire)
      /\ reached' = IF first = NoFile THEN reached ELSE first.number
      /\ UNCHANGED <<file, ws, msg>>
  BY DEF Receive, Show, pipeline, handler
<1>2. /\ Len(wire) \in Nat \ {0} /\ DOMAIN wire = 1..Len(wire)
      /\ DOMAIN wire' = 1..(Len(wire) - 1)
      /\ \A j \in 1..(Len(wire) - 1) : wire'[j] = wire[j + 1]
  <2>1. wire \in Seq([Parts -> Database]) /\ wire # <<>>
    BY <1>1 DEF TypeOK
  <2> QED
    BY <1>1, <2>1, HeadTailProperties
<1>3. \A j \in DOMAIN wire' :
         /\ j + 1 \in DOMAIN wire /\ wire'[j] = wire[j + 1] /\ 1 \in 1..((j + 1) - 1)
         /\ \A i \in 1..(j - 1) :
               i \in DOMAIN wire' /\ i + 1 \in 1..((j + 1) - 1)
  BY <1>2
<1>4. InOrder(wire')
  <2> SUFFICES ASSUME NEW j \in DOMAIN wire'
               PROVE  /\ NotBehind(wire'[j]["incidents"], wire'[j]["summary"].number)
                      /\ \A i \in 1..(j - 1), before, part \in Parts :
                            NotBehind(wire'[j][part], wire'[i][before].number)
    BY DEF InOrder
  <2>1. NotBehind(wire'[j]["incidents"], wire'[j]["summary"].number)
    BY <1>3 DEF OrderInv, InOrder
  <2>2. ASSUME NEW i \in 1..(j - 1), NEW before \in Parts, NEW part \in Parts
        PROVE  NotBehind(wire'[j][part], wire'[i][before].number)
    <3>1. /\ j + 1 \in DOMAIN wire /\ i + 1 \in 1..((j + 1) - 1)
          /\ wire'[j] = wire[j + 1] /\ wire'[i] = wire[i + 1]
      BY <1>3, <2>2
    <3> QED
      BY <3>1 DEF OrderInv, InOrder
  <2> QED
    BY <2>1, <2>2
<1>5. OrderInv'
  BY <1>1, <1>3, <1>4 DEF OrderInv
<1>6. 1 \in DOMAIN wire /\ "incidents" \in Parts
  BY <1>2 DEF Parts
<1> HIDE DEF first
<1>7. /\ NotBehind(first, reached) /\ first.number <= file.number
      /\ \A part \in Parts : NotBehind(msg[part], first.number)
  BY <1>6 DEF OrderInv, ReachedInv, first
<1>8. \A j \in DOMAIN wire', part \in Parts :
         /\ NotBehind(wire'[j][part], reached)
         /\ NotBehind(wire'[j][part], first.number)
  BY <1>3, <1>6 DEF OrderInv, ReachedInv, InOrder, first
<1>9. ReachedInv'
  BY <1>1, <1>7, <1>8 DEF ReachedInv
<1> QED
  BY <1>1, <1>5, <1>7, <1>9

\* A query finds the file of now, or nothing.
LEMMA QueryOrder ==
  ASSUME TypeOK, OrderInv, ReachedInv, Query
  PROVE  OrderInv' /\ ReachedInv'
<1>1. /\ ws \in Parts /\ UNCHANGED <<file, wire, reached>>
      /\ ws' = IF ws = "summary" THEN "incidents" ELSE "send"
  BY DEF Query, pipeline, page
<1>2. PICK answer \in {file, NoFile} : msg' = [msg EXCEPT ![ws] = answer]
  BY DEF Query
<1>3. /\ msg'[ws] = answer
      /\ \A part \in Parts : part = ws \/ msg'[part] = msg[part]
  BY <1>1, <1>2 DEF TypeOK
<1>4. /\ answer.number <= file.number
      /\ \A n \in Nat : n <= file.number => NotBehind(answer, n)
  BY NumberTypes DEF NotBehind, NoFile
<1>5. \A j \in DOMAIN wire, before \in Parts : NotBehind(answer, wire[j][before].number)
  BY <1>4, NumberTypes DEF OrderInv
<1>6. NotBehind(answer, reached)
  BY <1>4, NumberTypes DEF ReachedInv
<1>7. /\ NotBehind(msg'["incidents"], msg'["summary"].number)
      /\ ws' # "send" => msg'["incidents"] = NoFile
  <2>1. CASE ws = "summary"
    <3>1. msg'["incidents"] = NoFile
      BY <1>3, <2>1 DEF OrderInv, Parts
    <3> QED
      BY <3>1 DEF NotBehind
  <2>2. CASE ws = "incidents"
    <3>1. msg'["incidents"] = answer /\ msg'["summary"] = msg["summary"] /\ ws' = "send"
      BY <1>1, <1>3, <2>2 DEF Parts
    <3>2. msg["summary"].number \in Nat /\ msg["summary"].number <= file.number
      BY NumberTypes DEF OrderInv, Parts
    <3> QED
      BY <1>4, <3>1, <3>2
  <2> QED
    BY <1>1, <2>1, <2>2 DEF Parts
<1>8. OrderInv'
  <2>1. \A part \in Parts : msg'[part].number <= file.number
    BY <1>3, <1>4 DEF OrderInv
  <2>2. \A j \in DOMAIN wire, before, part \in Parts :
           NotBehind(msg'[part], wire[j][before].number)
    BY <1>3, <1>5 DEF OrderInv
  <2> QED
    BY <1>1, <1>7, <2>1, <2>2 DEF OrderInv
<1>9. ReachedInv'
  BY <1>1, <1>3, <1>6 DEF ReachedInv
<1> QED
  BY <1>8, <1>9

\* The pipeline only adds to the numbers.
LEMMA OtherOrder ==
  ASSUME TypeOK, OrderInv, ReachedInv, [Next]_vars, ~Send, ~Receive, ~Query,
         file.number <= file'.number, file'.number \in Nat
  PROVE  /\ OrderInv' /\ ReachedInv'
         /\ shown' # shown => load' # load
<1>1. CASE Unlink \/ Commit \/ FinalCommit \/ Die
  <2>1. UNCHANGED <<ws, msg, wire, load, shown, reached>>
    BY <1>1 DEF Unlink, Commit, FinalCommit, Die, handler, page
  <2>2. \A n \in Nat : n <= file.number => n <= file'.number
    BY NumberTypes
  <2>3. OrderInv'
    BY <2>1, <2>2, NumberTypes DEF OrderInv
  <2>4. ReachedInv'
    BY <2>1, <2>2, NumberTypes DEF ReachedInv
  <2> QED
    BY <2>1, <2>3, <2>4
<1>2. CASE Connect \/ Poll
  <2>1. UNCHANGED <<file, msg, wire, load, shown, reached>> /\ ws # "send"
    BY <1>2 DEF Connect, Poll, pipeline, page
  <2> QED
    BY <2>1 DEF OrderInv, ReachedInv
<1>3. CASE Disconnect
  <2>1. UNCHANGED <<file, shown, reached>> /\ wire' = <<>> /\ msg' = Nothing
    BY <1>3 DEF Disconnect, pipeline, page
  <2>2. DOMAIN wire' = {}
    BY <2>1
  <2>3. \A part \in Parts : msg'[part] = NoFile /\ NoFile.number = 0
    BY <2>1 DEF Nothing, NoFile
  <2>4. 0 <= file.number
    BY NumberTypes
  <2>5. OrderInv'
    BY <2>1, <2>2, <2>3, <2>4 DEF OrderInv, InOrder, NotBehind, Parts
  <2>6. ReachedInv'
    BY <2>1, <2>2, <2>3 DEF ReachedInv, NotBehind
  <2> QED
    BY <2>1, <2>5, <2>6
<1>4. CASE Answer \/ UNCHANGED vars
  <2>1. UNCHANGED <<file, ws, msg, wire, shown, reached>>
    BY <1>4 DEF Answer, vars, pipeline, handler, page
  <2> QED
    BY <2>1 DEF OrderInv, ReachedInv
<1>5. CASE Loaded
  <2>1. /\ UNCHANGED <<file, ws, msg, wire, reached>>
        /\ load.at = "answered" /\ load'.at = "done"
    BY <1>5 DEF Loaded, pipeline, handler
  <2> QED
    BY <2>1 DEF OrderInv, ReachedInv
<1> QED
  BY <1>1, <1>2, <1>3, <1>4, <1>5 DEF Next

LEMMA StepFeed ==
  FeedInv /\ [Next]_vars
      => /\ FeedInv'
         /\ shown' # shown /\ load' = load => NotBehind(shown', reached)
<1> SUFFICES ASSUME FeedInv, [Next]_vars
             PROVE  /\ FeedInv'
                    /\ shown' # shown /\ load' = load => NotBehind(shown', reached)
  OBVIOUS
<1>1. TypeOK' /\ CountInv' /\ file.number <= file'.number
  BY TypeStep DEF FeedInv
<1>2. file'.number \in Nat
  <2>1. MaxRuns * (MaxCommits + 2) \in Nat
    BY DashboardAssumption
  <2> QED
    BY <1>1, <2>1 DEF TypeOK, Database
<1>3. CASE Send
  <2>1. shown' = shown
    BY <1>3 DEF Send, page
  <2> QED
    BY <1>1, <1>3, <2>1, SendOrder DEF FeedInv
<1>4. CASE Receive
  BY <1>1, <1>4, ReceiveOrder DEF FeedInv
<1>5. CASE Query
  <2>1. shown' = shown
    BY <1>5 DEF Query, page
  <2> QED
    BY <1>1, <1>5, <2>1, QueryOrder DEF FeedInv
<1>6. CASE ~Send /\ ~Receive /\ ~Query
  BY <1>1, <1>2, <1>6, OtherOrder DEF FeedInv
<1> QED
  BY <1>3, <1>4, <1>5, <1>6

LEMMA FeedCorrect == Spec => []FeedInv
  BY InitFeed, StepFeed, PTL DEF Spec

-----------------------------------------------------------------------------

\* The variables of the feed keep their types, and no pipeline changes the file
\* more often than its commits allow.
THEOREM DashboardTypeCorrect == Spec => []TypeOK
<1>1. FeedInv => TypeOK
  BY DEF FeedInv
<1> QED
  BY <1>1, FeedCorrect, PTL

\* However sockets break and reopen, queries fail and databases come and go, no
\* push takes the page back behind an earlier push, other than to nothing, and
\* the messages on the wire are in the order in which their parts were read
\* (ws() and the page's onmessage).
THEOREM PushesGoForwardCorrect == Spec => PushesGoForward
<1>1. FeedInv' => InOrder(wire')
  BY DEF FeedInv, OrderInv
<1>2. FeedInv /\ [Next]_vars =>
         [/\ shown' # shown /\ load' = load => NotBehind(shown', reached)
          /\ InOrder(wire')]_vars
  BY <1>1, StepFeed
<1> QED
  BY <1>2, FeedCorrect, PTL DEF Spec, PushesGoForward
=============================================================================
