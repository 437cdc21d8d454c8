---------------------------- MODULE ReplayProofs ----------------------------
(***************************************************************************)
(* For any number of pages, replays and records: as long as no start() has *)
(* overlapped another call and no join has given up on a thread, one       *)
(* thread is at work at most, and the object knows of it and of its        *)
(* processes. Whatever breaks that is one of the two.                      *)
(***************************************************************************)
EXTENDS Replay, TLAPS

-----------------------------------------------------------------------------
(* The inductive invariants.                                               *)

BeforeFeed == {"none", "cleanup", "spawnZeek", "waitZeek", "zeekEnded", "load"}

\* A feed never runs past its capture, since it looks before every record.
FeedInv ==
    /\ TypeOK
    /\ fed \in [Runs -> Nat]
    /\ \A r \in Runs : /\ r > started => pc[r] = "none"
                       /\ pc[r] \in BeforeFeed => fed[r] = 0
                       /\ pc[r] = "write" => fed[r] < total[r]

\* The only thread at work is the one started last, and "running" and the
\* phase show that it is.
ThreadInv ==
    /\ thread = started
    /\ \A r \in Runs : Active(r) => r = started /\ running /\ phase # "stopped"

\* A call that starts a replay is alone, and where a call has made sure that
\* no thread is at work.
CallInv ==
    \A c \in Clients :
        /\ api[c] \in Starting => \A d \in Clients \ {c} : api[d] = "idle"
        /\ api[c] \in Starting \cup {"joined"} => \A r \in Runs : ~Active(r)
        /\ api[c] = "prepared" => running /\ phase # "stopped"

\* Where in its run a thread has a process, and that the object knows of it.
Spawned == {"announce", "feed", "write", "close", "mark", "drain"}
Ending == {"finally", "killPipeline"}

ProcessOf(r) ==
    /\ pc[r] \in BeforeFeed \cup {"spawnPipeline"} => pipes[r] = "none"
    /\ zeeks[r] = "alive" => pc[r] = "waitZeek"
    /\ pipes[r] = "alive" =>
          /\ pc[r] \in Spawned \cup Ending \cup {"release", "done"}
          /\ Active(r) => proc = r
          /\ pc[r] \in Ending => flag \/ r \in failed
          /\ pc[r] \in {"release", "done"} => r \in failed

\* The markers of a run at work are its own, and mean that it has been fed.
MarkerOf(r) ==
    /\ pc[r] = "close" => flag \/ fed[r] = total[r]
    /\ pc[r] = "mark" => fed[r] = total[r]
    /\ Active(r) /\ pc[r] # "cleanup" /\ marker =>
          \/ r \in failed
          \/ /\ pc[r] \in {"drain", "drained", "release"} \cup Ending
             /\ fed[r] = total[r]

CompleteOf(r) == r \notin failed /\ pipes[r] = "drained" => fed[r] = total[r]

RunInv == \A r \in Runs : ProcessOf(r) /\ MarkerOf(r) /\ CompleteOf(r)

ReplayInv ==
    FeedInv /\ ThreadInv /\ CallInv /\ RunInv

\* What holds until a disturbance.
GuardedInv == FeedInv /\ (Undisturbed => ReplayInv)

-----------------------------------------------------------------------------
(* Types, and the feed: for any callers, and threads that outlive a stop.  *)

LEMMA InitFeed == Init => FeedInv
<1> SUFFICES ASSUME Init PROVE FeedInv
  OBVIOUS
<1>1. \A r \in Runs : pc[r] = "none" /\ fed[r] = 0 /\ total[r] = 0
  BY DEF Init
<1>2. TypeOK
  <2>1. 0 \in 0..MaxRuns /\ 0 \in 0..0 /\ 0 \in 0..MaxRecords
    BY ReplayAssumption
  <2> QED
    BY <2>1 DEF Init, TypeOK, Phases, None, Starting, Stopping
<1> QED
  BY <1>1, <1>2 DEF Init, FeedInv, BeforeFeed

LEMMA KillType ==
  ASSUME NEW S, "killed" \in S, NEW table \in [Runs -> S], NEW p
  PROVE  _kill(table, p) \in [Runs -> S]
  BY DEF _kill

LEMMA StartThreadFeed ==
  ASSUME FeedInv, NEW c \in Clients, StartThread(c)
  PROVE  FeedInv'
<1>1. started \in 0..MaxRuns /\ MaxRuns \in Nat
  BY ReplayAssumption DEF FeedInv, TypeOK
<1>2. started < MaxRuns /\ started' = started + 1 /\ thread' = started'
  BY DEF StartThread
<1>3. /\ started' \in Runs /\ started' \in 0..MaxRuns /\ thread' \in 0..started'
      /\ 0..started \subseteq 0..started'
  BY <1>1, <1>2 DEF Runs
<1>4. zeek' \in 0..started' /\ proc' \in 0..started'
  BY <1>3 DEF FeedInv, TypeOK, StartThread, object
<1>5. /\ pc' = [pc EXCEPT ![started'] = "cleanup"]
      /\ api' = [api EXCEPT ![c] = "idle"]
      /\ UNCHANGED <<flag, running, phase, capture, processes, history>>
  BY DEF StartThread
<1>6. TypeOK' /\ fed' \in [Runs -> Nat]
  BY <1>3, <1>4, <1>5 DEF FeedInv, TypeOK, Phases, processes, capture, history,
     Starting, Stopping
<1>7. \A r \in Runs : /\ r > started' => pc'[r] = "none"
                      /\ pc'[r] \in BeforeFeed => fed'[r] = 0
                      /\ pc'[r] = "write" => fed'[r] < total'[r]
  <2> TAKE r \in Runs
  <2>1. CASE r = started'
    <3>1. pc[r] = "none" /\ pc'[r] = "cleanup" /\ fed'[r] = fed[r]
      BY <1>1, <1>2, <1>3, <1>5, <2>1 DEF FeedInv, TypeOK, capture
    <3> QED
      BY <1>1, <1>2, <2>1, <3>1 DEF FeedInv, BeforeFeed
  <2>2. CASE r # started'
    <3>1. pc'[r] = pc[r] /\ fed'[r] = fed[r] /\ total'[r] = total[r]
      BY <1>5, <2>2 DEF FeedInv, TypeOK, capture
    <3>2. r > started' => r > started
      BY <1>1, <1>2 DEF Runs
    <3> QED
      BY <3>1, <3>2 DEF FeedInv
  <2> QED
    BY <2>1, <2>2
<1> QED
  BY <1>6, <1>7 DEF FeedInv

LEMMA ClientFeed ==
  ASSUME FeedInv, NEW c \in Clients, Client(c)
  PROVE  FeedInv'
<1> USE ReplayAssumption
    DEF FeedInv, TypeOK, Phases, BeforeFeed, object, processes, capture, history,
        None, Starting, Stopping
<1>1. CASE StartCheck(c)
  BY <1>1 DEF StartCheck
<1>2. CASE StartClear(c)
  BY <1>2 DEF StartClear
<1>3. CASE StartState(c)
  BY <1>3 DEF StartState
<1>4. CASE StartThread(c)
  BY <1>4, StartThreadFeed
<1>5. CASE StopFlag(c)
  BY <1>5 DEF StopFlag
<1>6. CASE StopKillZeek(c)
  BY <1>6, KillType DEF StopKillZeek
<1>7. CASE StopKillProc(c)
  BY <1>7, KillType DEF StopKillProc
<1>8. CASE StopJoin(c)
  BY <1>8 DEF StopJoin
<1>9. CASE StopDone(c)
  BY <1>9 DEF StopDone
<1> QED
  BY <1>1, <1>2, <1>3, <1>4, <1>5, <1>6, <1>7, <1>8, <1>9 DEF Client

LEMMA FeedBounds ==
  ASSUME FeedInv, NEW r \in Runs
  PROVE  /\ fed[r] \in Nat /\ total[r] \in Nat
         /\ fed[r] # total[r] => fed[r] < total[r]
         /\ fed[r] < total[r] => fed[r] + 1 \in 0..total[r]
<1>1. fed[r] \in 0..total[r] /\ total[r] \in 0..MaxRecords
  BY DEF FeedInv, TypeOK
<1>2. MaxRecords \in Nat
  BY ReplayAssumption
<1>3. fed[r] \in Nat /\ total[r] \in Nat /\ fed[r] <= total[r]
  BY <1>1, <1>2
<1> QED
  BY <1>3

LEMMA LoadFeed ==
  ASSUME FeedInv, NEW r \in Runs, Load(r), r \in 0..started
  PROVE  FeedInv'
<1>1. PICK n \in 0..MaxRecords :
         /\ total' = [total EXCEPT ![r] = n]
         /\ Goto(r, "load", IF n = 0 THEN "finally" ELSE "spawnPipeline")
         /\ phase' = IF n = 0 THEN "empty" ELSE phase
  BY DEF Load
<1>2. /\ pc[r] = "load"
      /\ pc' = [pc EXCEPT ![r] = IF n = 0 THEN "finally" ELSE "spawnPipeline"]
      /\ UNCHANGED <<flag, running, thread, zeek, proc, api, started, fed,
                     marker, processes, history>>
  BY <1>1 DEF Load, Goto
<1>3. fed[r] = 0
  BY <1>2 DEF FeedInv, BeforeFeed
<1>4. 0 \in 0..n
  BY ReplayAssumption
<1>5. \A s \in Runs : fed[s] \in 0..total'[s]
  BY <1>1, <1>3, <1>4 DEF FeedInv, TypeOK
<1>6. phase' \in Phases /\ total' \in [Runs -> 0..MaxRecords]
  BY <1>1 DEF FeedInv, TypeOK, Phases
<1>7. TypeOK' /\ fed' \in [Runs -> Nat]
  BY <1>2, <1>5, <1>6 DEF FeedInv, TypeOK, processes, history
<1>8. \A s \in Runs : /\ s > started' => pc'[s] = "none"
                      /\ pc'[s] \in BeforeFeed => fed'[s] = 0
                      /\ pc'[s] = "write" => fed'[s] < total'[s]
  <2> TAKE s \in Runs
  <2>1. CASE s = r
    <3>1. ~(r > started)
      BY ReplayAssumption, FeedBounds DEF FeedInv, TypeOK
    <3> QED
      BY <1>2, <1>3, <2>1, <3>1 DEF FeedInv, TypeOK
  <2>2. CASE s # r
    BY <1>1, <1>2, <2>2 DEF FeedInv, TypeOK
  <2> QED
    BY <2>1, <2>2
<1> QED
  BY <1>7, <1>8 DEF FeedInv

LEMMA RecordFeed ==
  ASSUME FeedInv, NEW r \in Runs, NextRecord(r) \/ WriteRecord(r),
         r \in 0..started
  PROVE  FeedInv'
<1>1. ~(r > started)
  BY ReplayAssumption DEF FeedInv, TypeOK
<1>2. CASE NextRecord(r)
  <2>1. /\ pc' = [pc EXCEPT ![r] = IF flag \/ fed[r] = total[r] THEN "close"
                                                             ELSE "write"]
        /\ UNCHANGED <<object, api, started, capture, processes, history>>
    BY <1>2 DEF NextRecord, Goto
  <2>2. TypeOK' /\ fed' \in [Runs -> Nat]
    BY <2>1 DEF FeedInv, TypeOK, Phases, object, capture, processes, history
  <2>3. \A s \in Runs : /\ s > started' => pc'[s] = "none"
                        /\ pc'[s] \in BeforeFeed => fed'[s] = 0
                        /\ pc'[s] = "write" => fed'[s] < total'[s]
    <3> TAKE s \in Runs
    <3>1. CASE s = r
      <4>1. pc'[r] = "write" => fed[r] < total[r]
        BY <2>1, FeedBounds DEF FeedInv, TypeOK
      <4>2. pc'[r] \in {"close", "write"}
        BY <2>1 DEF FeedInv, TypeOK
      <4> QED
        BY <1>1, <2>1, <3>1, <4>1, <4>2 DEF BeforeFeed, capture
    <3>2. CASE s # r
      BY <2>1, <3>2 DEF FeedInv, TypeOK, capture
    <3> QED
      BY <3>1, <3>2
  <2> QED
    BY <2>2, <2>3 DEF FeedInv
<1>3. CASE WriteRecord(r)
  <2>1. /\ pc[r] = "write"
        /\ pc' = [pc EXCEPT ![r] = "feed"]
        /\ fed' = [fed EXCEPT ![r] = fed[r] + 1]
        /\ UNCHANGED <<object, api, started, total, marker, processes, history>>
    BY <1>3 DEF WriteRecord, Goto
  <2>2. fed[r] + 1 \in 0..total[r] /\ fed[r] + 1 \in Nat
    <3>1. fed[r] < total[r]
      BY <2>1 DEF FeedInv
    <3>2. fed[r] \in Nat /\ fed[r] + 1 \in 0..total[r]
      BY <3>1, FeedBounds
    <3> QED
      BY <3>2
  <2>3. \A s \in Runs : fed'[s] \in 0..total'[s]
    BY <2>1, <2>2 DEF FeedInv, TypeOK
  <2>4. fed' \in [Runs -> Nat]
    BY <2>1, <2>2 DEF FeedInv
  <2>5. TypeOK'
    BY <2>1, <2>3 DEF FeedInv, TypeOK, Phases, object, processes, history
  <2>6. \A s \in Runs : /\ s > started' => pc'[s] = "none"
                        /\ pc'[s] \in BeforeFeed => fed'[s] = 0
                        /\ pc'[s] = "write" => fed'[s] < total'[s]
    <3> TAKE s \in Runs
    <3>1. CASE s = r
      BY <1>1, <2>1, <3>1 DEF FeedInv, TypeOK, BeforeFeed
    <3>2. CASE s # r
      BY <2>1, <3>2 DEF FeedInv, TypeOK
    <3> QED
      BY <3>1, <3>2
  <2> QED
    BY <2>4, <2>5, <2>6 DEF FeedInv
<1> QED
  BY <1>2, <1>3

LEMMA ThreadFeed ==
  ASSUME FeedInv, NEW r \in Runs, Thread(r)
  PROVE  FeedInv'
<1>1. r \in 0..started /\ 0 \in 0..started
  <2>1. pc[r] # "none"
    BY DEF Thread, Goto, CleanUp, SpawnZeek, WaitZeek, AfterZeek, Load,
       _start_pipeline, Announce, NextRecord, WriteRecord, CloseLogs,
       DropMarkers, _await_pipeline, Finished, KillZeek, KillPipeline, Release
  <2>2. started \in Nat /\ r \in Nat /\ ~(r > started)
    BY <2>1, ReplayAssumption DEF FeedInv, TypeOK, Runs
  <2> QED
    BY <2>2
<1> USE ReplayAssumption
    DEF FeedInv, TypeOK, Phases, BeforeFeed, object, processes, capture, history,
        None, Starting, Stopping, Goto
<1>2. CASE CleanUp(r)
  BY <1>1, <1>2 DEF CleanUp
<1>3. CASE SpawnZeek(r)
  BY <1>1, <1>3 DEF SpawnZeek
<1>4. CASE WaitZeek(r)
  BY <1>1, <1>4 DEF WaitZeek
<1>5. CASE AfterZeek(r)
  BY <1>1, <1>5 DEF AfterZeek
<1>6. CASE Load(r)
  BY <1>1, <1>6, LoadFeed
<1>7. CASE _start_pipeline(r)
  BY <1>1, <1>7 DEF _start_pipeline
<1>8. CASE Announce(r)
  BY <1>1, <1>8 DEF Announce
<1>9. CASE NextRecord(r) \/ WriteRecord(r)
  BY <1>1, <1>9, RecordFeed
<1>11. CASE CloseLogs(r)
  BY <1>1, <1>11 DEF CloseLogs
<1>12. CASE DropMarkers(r)
  BY <1>1, <1>12 DEF DropMarkers
<1>13. CASE _await_pipeline(r)
  BY <1>1, <1>13, KillType DEF _await_pipeline
<1>14. CASE Finished(r)
  BY <1>1, <1>14 DEF Finished
<1>15. CASE KillZeek(r)
  BY <1>1, <1>15, KillType DEF KillZeek
<1>16. CASE KillPipeline(r)
  BY <1>1, <1>16, KillType DEF KillPipeline
<1>17. CASE Release(r)
  BY <1>1, <1>17 DEF Release
<1> QED
  BY <1>2, <1>3, <1>4, <1>5, <1>6, <1>7, <1>8, <1>9, <1>11,
     <1>12, <1>13, <1>14, <1>15, <1>16, <1>17 DEF Thread

LEMMA OtherFeed ==
  ASSUME FeedInv, NEW r \in Runs,
         Fail(r) \/ ReleaseFails(r) \/ ZeekEnds(r) \/ PipelineEnds(r)
  PROVE  FeedInv'
<1>1. CASE Fail(r)
  <2>1. /\ pc[r] # "none"
        /\ pc' = [pc EXCEPT ![r] = "finally"]
        /\ phase' \in {"error", phase}
        /\ failed' = failed \cup {r}
        /\ UNCHANGED <<flag, running, thread, zeek, proc, api, started, capture,
                       processes, overlapped, outlived>>
    BY <1>1 DEF Fail
  <2>2. ~(r > started)
    BY <2>1 DEF FeedInv
  <2>3. TypeOK' /\ fed' \in [Runs -> Nat]
    BY <2>1 DEF FeedInv, TypeOK, Phases, capture, processes
  <2> QED
    BY <2>1, <2>2, <2>3 DEF FeedInv, TypeOK, BeforeFeed, capture
<1>2. CASE ReleaseFails(r)
  <2>1. /\ pc[r] = "release"
        /\ pc' = [pc EXCEPT ![r] = "done"]
        /\ failed' = failed \cup {r}
        /\ UNCHANGED <<object, api, started, capture, processes, overlapped,
                       outlived>>
    BY <1>2 DEF ReleaseFails, Goto
  <2>2. ~(r > started)
    BY <2>1 DEF FeedInv
  <2>3. TypeOK' /\ fed' \in [Runs -> Nat]
    BY <2>1 DEF FeedInv, TypeOK, Phases, object, capture, processes
  <2> QED
    BY <2>1, <2>2, <2>3 DEF FeedInv, TypeOK, BeforeFeed, capture
<1>3. CASE ZeekEnds(r)
  BY <1>3 DEF ZeekEnds, FeedInv, TypeOK, Phases, object, capture, history
<1>4. CASE PipelineEnds(r)
  BY <1>4 DEF PipelineEnds, FeedInv, TypeOK, Phases, object, capture, history
<1> QED
  BY <1>1, <1>2, <1>3, <1>4

LEMMA FeedStep == FeedInv /\ [Next]_vars => FeedInv'
<1> SUFFICES ASSUME FeedInv, [Next]_vars PROVE FeedInv'
  OBVIOUS
<1>1. CASE UNCHANGED vars
  BY <1>1 DEF vars, FeedInv, TypeOK, Phases, object, capture, processes, history
<1>2. CASE Next
  BY <1>2, ClientFeed, ThreadFeed, OtherFeed DEF Next
<1> QED
  BY <1>1, <1>2

\* The variables have their types, and no run writes more records than its
\* capture has, whoever calls stop() and whenever (_run(), the feeding loop).
THEOREM ReplayTypeCorrect == Spec => []TypeOK
<1>1. FeedInv => TypeOK
  BY DEF FeedInv
<1> QED
  BY <1>1, InitFeed, FeedStep, PTL DEF Spec

-----------------------------------------------------------------------------
(* What a step of a thread does to the runs.                               *)

LEMMA KillEffect ==
  ASSUME NEW table, NEW p, NEW s \in Runs
  PROVE  /\ _kill(table, p)[s] # table[s] =>
               table[s] = "alive" /\ _kill(table, p)[s] = "killed"
         /\ s = p => _kill(table, p)[s] # "alive"
  BY DEF _kill

\* A thread at work moves itself, and leaves the other runs alone but for what
\* it kills.
LEMMA ThreadMoves ==
  ASSUME FeedInv, NEW r \in Runs, Thread(r) \/ Fail(r) \/ ReleaseFails(r)
  PROVE  /\ Active(r) /\ pc'[r] # "none"
         /\ UNCHANGED <<flag, thread, api, started>>
         /\ phase' = phase \/ phase' # "stopped"
         /\ running' = running \/ pc'[r] = "done"
         /\ failed \subseteq failed'
         /\ \A s \in Runs \ {r} :
               /\ pc'[s] = pc[s]
               /\ zeeks'[s] = "alive" => zeeks[s] = "alive"
               /\ pipes'[s] # pipes[s] =>
                     pipes[s] = "alive" /\ pipes'[s] = "killed"
               /\ fed'[s] = fed[s] /\ total'[s] = total[s]
<1>1. /\ pc \in [Runs -> {"none", "cleanup", "spawnZeek", "waitZeek",
                          "zeekEnded", "load", "spawnPipeline", "announce",
                          "feed", "write", "close", "mark", "drain", "drained",
                          "finally", "killPipeline", "release", "done"}]
      /\ total \in [Runs -> 0..MaxRecords]
      /\ fed \in [Runs -> Nat]
      /\ zeeks \in [Runs -> {"none", "alive", "ok", "failed", "killed"}]
      /\ pipes \in [Runs -> {"none", "alive", "drained", "gaveUp", "crashed",
                             "killed"}]
  BY DEF FeedInv, TypeOK
<1> USE <1>1 DEF Goto, Active, object, capture, processes, history
<1>2. CASE CleanUp(r)
  BY <1>2 DEF CleanUp
<1>3. CASE SpawnZeek(r)
  BY <1>3 DEF SpawnZeek
<1>4. CASE WaitZeek(r)
  BY <1>4 DEF WaitZeek
<1>5. CASE AfterZeek(r)
  BY <1>5 DEF AfterZeek
<1>6. CASE Load(r)
  BY <1>6 DEF Load
<1>7. CASE _start_pipeline(r)
  BY <1>7 DEF _start_pipeline
<1>8. CASE Announce(r)
  BY <1>8 DEF Announce
<1>9. CASE NextRecord(r)
  BY <1>9 DEF NextRecord
<1>10. CASE WriteRecord(r)
  BY <1>10 DEF WriteRecord
<1>11. CASE CloseLogs(r)
  BY <1>11 DEF CloseLogs
<1>12. CASE DropMarkers(r)
  BY <1>12 DEF DropMarkers
<1>13. CASE _await_pipeline(r)
  BY <1>13, KillEffect DEF _await_pipeline
<1>14. CASE Finished(r)
  BY <1>14 DEF Finished
<1>15. CASE KillZeek(r)
  BY <1>15, KillEffect DEF KillZeek
<1>16. CASE KillPipeline(r)
  BY <1>16, KillEffect DEF KillPipeline
<1>17. CASE Release(r)
  BY <1>17 DEF Release
<1>18. CASE Fail(r)
  BY <1>18 DEF Fail
<1>19. CASE ReleaseFails(r)
  BY <1>19 DEF ReleaseFails
<1> QED
  BY <1>2, <1>3, <1>4, <1>5, <1>6, <1>7, <1>8, <1>9, <1>10, <1>11, <1>12,
     <1>13, <1>14, <1>15, <1>16, <1>17, <1>18, <1>19 DEF Thread

LEMMA ThreadControl ==
  ASSUME ReplayInv, NEW r \in Runs, Thread(r) \/ Fail(r) \/ ReleaseFails(r)
  PROVE  ThreadInv' /\ CallInv'
<1>1. /\ Active(r)
      /\ UNCHANGED <<flag, thread, api, started>>
      /\ phase' = phase \/ phase' # "stopped"
      /\ running' = running \/ pc'[r] = "done"
      /\ \A s \in Runs \ {r} : pc'[s] = pc[s]
  BY ThreadMoves DEF ReplayInv
<1>2. ThreadInv'
  <2>1. thread' = started' /\ r = started /\ running /\ phase # "stopped"
    BY <1>1 DEF ReplayInv, ThreadInv
  <2>2. \A s \in Runs \ {r} : ~Active(s)'
    BY <1>1, <2>1 DEF ReplayInv, ThreadInv, Active
  <2>3. Active(r)' => r = started' /\ running' /\ phase' # "stopped"
    BY <1>1, <2>1 DEF Active
  <2> QED
    BY <2>1, <2>2, <2>3 DEF ThreadInv
<1>3. CallInv'
  <2>1. \A c \in Clients : api[c] \notin Starting \cup {"joined"}
    BY <1>1 DEF ReplayInv, CallInv
  <2> QED
    BY <1>1, <2>1 DEF CallInv, Starting
<1> QED
  BY <1>2, <1>3

LEMMA OtherRuns ==
  ASSUME ReplayInv, NEW r \in Runs, Thread(r) \/ Fail(r) \/ ReleaseFails(r), NEW s \in Runs, s # r
  PROVE  ProcessOf(s)' /\ MarkerOf(s)' /\ CompleteOf(s)'
<1>1. ~Active(s)
  BY ThreadMoves DEF ReplayInv, ThreadInv
<1>2. /\ pc'[s] = pc[s]
      /\ zeeks'[s] = "alive" => zeeks[s] = "alive"
      /\ pipes'[s] # pipes[s] => pipes[s] = "alive" /\ pipes'[s] = "killed"
      /\ fed'[s] = fed[s] /\ total'[s] = total[s]
      /\ failed \subseteq failed'
  BY ThreadMoves DEF ReplayInv
<1>3. pc[s] \in {"none", "done"}
  BY <1>1 DEF Active
<1>4. ProcessOf(s) /\ CompleteOf(s)
  BY DEF ReplayInv, RunInv
<1>5. ProcessOf(s)'
  BY <1>2, <1>3, <1>4 DEF ProcessOf, BeforeFeed, Spawned, Ending, Active
<1>6. MarkerOf(s)'
  BY <1>2, <1>3 DEF MarkerOf, Active
<1>7. CompleteOf(s)'
  BY <1>2, <1>4 DEF CompleteOf
<1> QED
  BY <1>5, <1>6, <1>7

LEMMA OwnRun ==
  ASSUME ReplayInv, NEW r \in Runs, Thread(r) \/ Fail(r) \/ ReleaseFails(r)
  PROVE  ProcessOf(r)' /\ MarkerOf(r)' /\ CompleteOf(r)'
<1>1. /\ pc \in [Runs -> {"none", "cleanup", "spawnZeek", "waitZeek",
                          "zeekEnded", "load", "spawnPipeline", "announce",
                          "feed", "write", "close", "mark", "drain", "drained",
                          "finally", "killPipeline", "release", "done"}]
      /\ fed \in [Runs -> Nat]
      /\ zeeks \in [Runs -> {"none", "alive", "ok", "failed", "killed"}]
      /\ pipes \in [Runs -> {"none", "alive", "drained", "gaveUp", "crashed",
                             "killed"}]
      /\ ProcessOf(r) /\ MarkerOf(r) /\ CompleteOf(r)
  BY DEF ReplayInv, RunInv, FeedInv, TypeOK
<1> USE <1>1 DEF Goto, Active, object, capture, processes, history, ProcessOf, MarkerOf,
                 CompleteOf, BeforeFeed, Spawned, Ending
<1>2. CASE CleanUp(r)
  BY <1>2 DEF CleanUp
<1>3. CASE SpawnZeek(r)
  BY <1>3 DEF SpawnZeek
<1>4. CASE WaitZeek(r)
  BY <1>4 DEF WaitZeek
<1>5. CASE AfterZeek(r)
  BY <1>5 DEF AfterZeek
<1>6. CASE Load(r)
  BY <1>6 DEF Load
<1>7. CASE _start_pipeline(r)
  BY <1>7 DEF _start_pipeline
<1>8. CASE Announce(r)
  BY <1>8 DEF Announce
<1>9. CASE NextRecord(r)
  BY <1>9 DEF NextRecord
<1>10. CASE WriteRecord(r)
  <2>1. pc[r] = "write" /\ fed[r] < total[r] /\ fed[r] # total[r]
    <3>1. pc[r] = "write"
      BY <1>10 DEF WriteRecord
    <3>2. fed[r] < total[r]
      BY <3>1 DEF ReplayInv, FeedInv
    <3>3. fed[r] \in Nat /\ total[r] \in Nat
      BY FeedBounds DEF ReplayInv
    <3> QED
      BY <3>1, <3>2, <3>3
  <2> QED
    BY <1>10, <2>1 DEF WriteRecord
<1>11. CASE CloseLogs(r)
  BY <1>11 DEF CloseLogs
<1>12. CASE DropMarkers(r)
  BY <1>12 DEF DropMarkers
<1>13. CASE _await_pipeline(r)
  BY <1>13, KillEffect DEF _await_pipeline
<1>14. CASE Finished(r)
  BY <1>14 DEF Finished
<1>15. CASE KillZeek(r)
  BY <1>15, KillEffect DEF KillZeek
<1>16. CASE KillPipeline(r)
  BY <1>16, KillEffect DEF KillPipeline
<1>17. CASE Release(r)
  BY <1>17 DEF Release
<1>18. CASE Fail(r)
  BY <1>18 DEF Fail
<1>19. CASE ReleaseFails(r)
  BY <1>19 DEF ReleaseFails
<1> QED
  BY <1>2, <1>3, <1>4, <1>5, <1>6, <1>7, <1>8, <1>9, <1>10, <1>11, <1>12,
     <1>13, <1>14, <1>15, <1>16, <1>17, <1>18, <1>19 DEF Thread

LEMMA ThreadStep ==
  ASSUME ReplayInv, NEW r \in Runs, Thread(r) \/ Fail(r) \/ ReleaseFails(r)
  PROVE  ReplayInv'
<1>1. FeedInv'
  BY ThreadFeed, OtherFeed DEF ReplayInv
<1>2. RunInv'
  BY OtherRuns, OwnRun DEF RunInv
<1> QED
  BY <1>1, <1>2, ThreadControl DEF ReplayInv

-----------------------------------------------------------------------------
(* The calls, none of which disturbs.                                      *)

LEMMA StartThreadStep ==
  ASSUME ReplayInv, NEW c \in Clients, StartThread(c)
  PROVE  ThreadInv' /\ CallInv' /\ RunInv'
<1>1. /\ api[c] = "prepared"
      /\ started < MaxRuns
      /\ started' = started + 1
      /\ thread' = started'
      /\ pc' = [pc EXCEPT ![started'] = "cleanup"]
      /\ api' = [api EXCEPT ![c] = "idle"]
      /\ UNCHANGED <<flag, running, phase, zeek, proc, capture, processes, failed>>
  BY DEF StartThread, history
<1>2. running /\ phase # "stopped" /\ \A r \in Runs : ~Active(r)
  BY <1>1 DEF ReplayInv, CallInv, Starting
<1>3. /\ pc \in [Runs -> {"none", "cleanup", "spawnZeek", "waitZeek",
                          "zeekEnded", "load", "spawnPipeline", "announce",
                          "feed", "write", "close", "mark", "drain", "drained",
                          "finally", "killPipeline", "release", "done"}]
      /\ api \in [Clients -> {"idle"} \cup Starting \cup Stopping]
  BY DEF ReplayInv, FeedInv, TypeOK
<1>4. started' \in Runs /\ pc[started'] = "none"
  <2>1. started \in 0..MaxRuns /\ MaxRuns \in Nat
    BY ReplayAssumption DEF ReplayInv, FeedInv, TypeOK
  <2>2. started' \in Runs /\ started' > started
    BY <1>1, <2>1 DEF Runs
  <2> QED
    BY <2>2 DEF ReplayInv, FeedInv
<1>5. \A r \in Runs : Active(r)' => r = started'
  BY <1>1, <1>2, <1>3 DEF Active
<1>6. ThreadInv'
  BY <1>1, <1>2, <1>5 DEF ThreadInv
<1>7. CallInv'
  <2>1. \A d \in Clients : api'[d] = "idle"
    <3>1. \A d \in Clients \ {c} : api[d] = "idle"
      BY <1>1 DEF ReplayInv, CallInv, Starting
    <3> QED
      BY <1>1, <1>3, <3>1
  <2> QED
    BY <2>1 DEF CallInv, Starting
<1>8. RunInv'
  <2> SUFFICES ASSUME NEW r \in Runs
               PROVE  ProcessOf(r)' /\ MarkerOf(r)' /\ CompleteOf(r)'
    BY DEF RunInv
  <2>1. /\ ProcessOf(r) /\ MarkerOf(r) /\ CompleteOf(r)
        /\ UNCHANGED <<fed, total, zeeks, pipes, marker, flag, proc, failed>>
    BY <1>1 DEF ReplayInv, RunInv, capture, processes
  <2>2. CASE r = started'
    <3>1. pc[r] = "none" /\ pc'[r] = "cleanup"
      BY <1>1, <1>3, <1>4, <2>2
    <3> QED
      BY <2>1, <3>1 DEF ProcessOf, MarkerOf, CompleteOf, BeforeFeed
  <2>3. CASE r # started'
    <3>1. pc'[r] = pc[r]
      BY <1>1, <1>3, <2>3
    <3> QED
      BY <2>1, <3>1 DEF ProcessOf, MarkerOf, CompleteOf, Active
  <2> QED
    BY <2>2, <2>3
<1> QED
  BY <1>6, <1>7, <1>8

\* A call other than the start of the thread leaves the runs where they are.
LEMMA CallRuns ==
  ASSUME ReplayInv, NEW c \in Clients, Client(c), ~StartThread(c)
  PROVE  RunInv' /\ started' = started /\ thread' = thread /\ pc' = pc
<1>1. /\ UNCHANGED <<started, thread, pc, fed, total, marker, proc, failed>>
      /\ flag' = flag \/ flag' = TRUE \/ StartClear(c)
      /\ zeeks' = zeeks \/ zeeks' = _kill(zeeks, zeek)
      /\ pipes' = pipes \/ pipes' = _kill(pipes, proc)
  BY DEF Client, StartCheck, StartClear, StartState, StopFlag, StopKillZeek,
     StopKillProc, StopJoin, StopDone, object, capture, processes, history
<1>2. StartClear(c) => \A r \in Runs : ~Active(r)
  BY DEF StartClear, ReplayInv, CallInv, Starting
<1> SUFFICES ASSUME NEW r \in Runs
             PROVE  ProcessOf(r)' /\ MarkerOf(r)' /\ CompleteOf(r)'
  BY <1>1 DEF RunInv
<1>3. ProcessOf(r) /\ MarkerOf(r) /\ CompleteOf(r)
  BY DEF ReplayInv, RunInv
<1>4. /\ zeeks'[r] = "alive" => zeeks[r] = "alive"
      /\ pipes'[r] # pipes[r] => pipes[r] = "alive" /\ pipes'[r] = "killed"
  BY <1>1, KillEffect
<1>5. flag /\ Active(r) => flag'
  BY <1>1, <1>2
<1>6. ProcessOf(r)'
  BY <1>1, <1>3, <1>4, <1>5 DEF ProcessOf, BeforeFeed, Spawned, Ending, Active
<1>7. MarkerOf(r)'
  BY <1>1, <1>3, <1>5 DEF MarkerOf, Active
<1>8. CompleteOf(r)'
  BY <1>1, <1>3, <1>4 DEF CompleteOf
<1> QED
  BY <1>6, <1>7, <1>8

\* While one call starts a replay the others are idle, or the start, or the
\* stop that met it, is a disturbance.
LEMMA StartsAlone ==
  ASSUME ReplayInv, NEW c \in Clients, Client(c), ~StartThread(c), Undisturbed'
  PROVE  \A d \in Clients : api'[d] \in Starting =>
            \A e \in Clients \ {d} : api'[e] = "idle"
<1>1. /\ api \in [Clients -> {"idle"} \cup Starting \cup Stopping]
      /\ \A d \in Clients : api[d] \in Starting =>
            \A e \in Clients \ {d} : api[e] = "idle"
  BY DEF ReplayInv, FeedInv, TypeOK, CallInv
<1>2. CASE StartCheck(c)
  <2>1. \A d \in Clients \ {c} : api[d] = "idle"
    <3>1. ~Meets(c, Starting \cup Stopping)
      BY <1>2 DEF StartCheck, Undisturbed
    <3> QED
      BY <1>1, <3>1 DEF Meets
  <2>2. api' = [api EXCEPT ![c] = "starting"] /\ "idle" \notin Starting
    BY <1>2 DEF StartCheck, Starting
  <2> QED
    BY <1>1, <2>1, <2>2
<1>3. CASE StopFlag(c)
  <2>1. \A d \in Clients \ {c} : api[d] \notin Starting
    BY <1>3 DEF StopFlag, Undisturbed, Meets
  <2>2. api' = [api EXCEPT ![c] = "killZeek"] /\ "killZeek" \notin Starting
    BY <1>3 DEF StopFlag, Starting
  <2> QED
    BY <1>1, <2>1, <2>2
<1>4. CASE ~StartCheck(c) /\ ~StopFlag(c)
  <2>1. PICK x \in {"idle", "cleared", "prepared", "killProc", "join", "joined"} :
           /\ api' = [api EXCEPT ![c] = x]
           /\ x \in Starting => api[c] \in Starting
           /\ api[c] # "idle"
    BY <1>4 DEF Client, StartClear, StartState, StopKillZeek, StopKillProc,
       StopJoin, StopDone, Starting
  <2> QED
    BY <1>1, <2>1
<1> QED
  BY <1>2, <1>3, <1>4

LEMMA CallControl ==
  ASSUME ReplayInv, NEW c \in Clients, Client(c), ~StartThread(c), Undisturbed'
  PROVE  ThreadInv' /\ CallInv'
<1>1. /\ started' = started /\ thread' = thread /\ pc' = pc
      /\ ThreadInv
      /\ api \in [Clients -> {"idle"} \cup Starting \cup Stopping]
  BY CallRuns DEF ReplayInv, FeedInv, TypeOK
<1>2. api[c] \in Starting \cup {"joined"} => \A r \in Runs : ~Active(r)
  BY DEF ReplayInv, CallInv
<1>3. (\A r \in Runs : Active(r)' <=> Active(r)) /\ UNCHANGED <<started, thread>>
  BY <1>1 DEF Active
<1>4. \A d \in Clients \ {c} : api'[d] = api[d]
  BY <1>1 DEF Client, StartCheck, StartClear, StartState, StopFlag,
     StopKillZeek, StopKillProc, StopJoin, StopDone
<1>5. \A d \in Clients \ {c} :
         /\ api[d] \in Starting \cup {"joined"} => \A r \in Runs : ~Active(r)
         /\ api[d] = "prepared" => running /\ phase # "stopped" /\ api[c] = "idle"
  BY DEF ReplayInv, CallInv, Starting
<1>6. CASE StartCheck(c)
  <2>1. \A r \in Runs : ~Active(r)
    BY <1>1, <1>6 DEF StartCheck, ThreadInv
  <2>2. /\ api'[c] = "starting"
        /\ running' = running /\ phase' = phase
    BY <1>1, <1>6 DEF StartCheck, object
  <2>3. ThreadInv'
    BY <1>1, <1>3, <2>1 DEF ThreadInv
  <2> QED
    BY <1>3, <1>4, <1>5, <2>1, <2>2, <2>3, StartsAlone DEF CallInv
<1>7. CASE StartClear(c) \/ StartState(c)
  <2>1. \A r \in Runs : ~Active(r)
    BY <1>2, <1>7 DEF StartClear, StartState, Starting
  <2>2. /\ api'[c] \in {"cleared", "prepared"}
        /\ api'[c] = "prepared" => running' /\ phase' # "stopped"
        /\ api[c] # "idle"
    BY <1>1, <1>7 DEF StartClear, StartState
  <2>3. ThreadInv'
    BY <1>1, <1>3, <2>1 DEF ThreadInv
  <2> QED
    BY <1>3, <1>4, <1>5, <2>1, <2>2, <2>3, StartsAlone DEF CallInv
<1>8. CASE StopFlag(c) \/ StopKillZeek(c) \/ StopKillProc(c) \/ StopJoin(c)
  <2>1. /\ running' = running /\ phase' = phase
        /\ api'[c] \in {"killZeek", "killProc", "join", "joined"}
        /\ api'[c] = "joined" => StopJoin(c)
    BY <1>1, <1>8 DEF StopFlag, StopKillZeek, StopKillProc, StopJoin, object
  <2>2. StopJoin(c) => \A r \in Runs : ~Active(r)
    <3> SUFFICES ASSUME StopJoin(c), NEW r \in Runs, Active(r) PROVE FALSE
      OBVIOUS
    <3>1. r = thread /\ r # None
      BY <1>1 DEF ThreadInv, Runs, None
    <3> QED
      BY <3>1 DEF StopJoin, Undisturbed
  <2>3. ThreadInv'
    BY <1>1, <1>3, <2>1 DEF ThreadInv
  <2>4. api'[c] \notin Starting
    BY <2>1 DEF Starting
  <2> QED
    BY <1>3, <1>4, <1>5, <2>1, <2>2, <2>3, <2>4, StartsAlone DEF CallInv, Starting
<1>9. CASE StopDone(c)
  <2>1. \A r \in Runs : ~Active(r)
    BY <1>2, <1>9 DEF StopDone
  <2>2. api'[c] = "idle" /\ api[c] # "idle"
    BY <1>1, <1>9 DEF StopDone
  <2>3. ThreadInv'
    BY <1>1, <1>3, <2>1 DEF ThreadInv
  <2> QED
    BY <1>3, <1>4, <1>5, <2>1, <2>2, <2>3, StartsAlone DEF CallInv, Starting
<1> QED
  BY <1>6, <1>7, <1>8, <1>9 DEF Client

LEMMA ClientStep ==
  ASSUME ReplayInv, NEW c \in Clients, Client(c), Undisturbed'
  PROVE  ReplayInv'
<1>1. FeedInv'
  BY ClientFeed DEF ReplayInv
<1>2. CASE StartThread(c)
  BY <1>1, <1>2, StartThreadStep DEF ReplayInv
<1>3. CASE ~StartThread(c)
  BY <1>1, <1>3, CallRuns, CallControl DEF ReplayInv
<1> QED
  BY <1>2, <1>3

-----------------------------------------------------------------------------
(* The subprocesses end.                                                   *)

LEMMA ProcessEnds ==
  ASSUME ReplayInv, NEW r \in Runs, ZeekEnds(r) \/ PipelineEnds(r)
  PROVE  ReplayInv'
<1>1. FeedInv'
  BY OtherFeed DEF ReplayInv
<1>2. UNCHANGED <<object, api, started, pc, capture, failed>>
  BY DEF ZeekEnds, PipelineEnds, history
<1>3. ThreadInv' /\ CallInv'
  BY <1>2 DEF ReplayInv, ThreadInv, CallInv, Active, object
<1>4. /\ zeeks \in [Runs -> {"none", "alive", "ok", "failed", "killed"}]
      /\ pipes \in [Runs -> {"none", "alive", "drained", "gaveUp", "crashed",
                             "killed"}]
  BY DEF ReplayInv, FeedInv, TypeOK
<1>5. RunInv'
  <2> SUFFICES ASSUME NEW s \in Runs
               PROVE  ProcessOf(s)' /\ MarkerOf(s)' /\ CompleteOf(s)'
    BY DEF RunInv
  <2>1. ProcessOf(s) /\ MarkerOf(s) /\ CompleteOf(s)
    BY DEF ReplayInv, RunInv
  <2>2. /\ zeeks'[s] = "alive" => zeeks[s] = "alive"
        /\ pipes'[s] # pipes[s] =>
              /\ pipes[s] = "alive" /\ pipes'[s] \in {"drained", "gaveUp", "crashed"}
              /\ pipes'[s] = "drained" => marker
    BY <1>4 DEF ZeekEnds, PipelineEnds
  <2>3. ProcessOf(s)'
    BY <1>2, <2>1, <2>2 DEF ProcessOf, BeforeFeed, Spawned, Ending, Active, object
  <2>4. MarkerOf(s)'
    BY <1>2, <2>1 DEF MarkerOf, Active, object, capture
  <2>5. CompleteOf(s)'
    BY <1>2, <2>1, <2>2 DEF CompleteOf, ProcessOf, MarkerOf, BeforeFeed, Spawned,
       Ending, Active, capture
  <2> QED
    BY <2>3, <2>4, <2>5
<1> QED
  BY <1>1, <1>3, <1>5 DEF ReplayInv

LEMMA ReplayInit == Init => ReplayInv
<1> SUFFICES ASSUME Init PROVE ReplayInv
  OBVIOUS
<1>1. \A r \in Runs : pc[r] = "none" /\ zeeks[r] = "none" /\ pipes[r] = "none"
  BY DEF Init
<1>2. RunInv
  BY <1>1 DEF RunInv, ProcessOf, MarkerOf, CompleteOf, Active
<1>3. ThreadInv /\ CallInv
  BY <1>1 DEF Init, ThreadInv, CallInv, Active, None
<1> QED
  BY <1>2, <1>3, InitFeed DEF ReplayInv

LEMMA ReplayStutters == ReplayInv /\ UNCHANGED vars => ReplayInv'
<1> SUFFICES ASSUME ReplayInv, UNCHANGED vars PROVE ReplayInv'
  OBVIOUS
<1>1. FeedInv'
  BY FeedStep DEF ReplayInv
<1>2. ThreadInv' /\ CallInv'
  BY DEF ReplayInv, ThreadInv, CallInv, Active, vars, object
<1>3. RunInv'
  BY DEF ReplayInv, RunInv, ProcessOf, MarkerOf, CompleteOf, Active, vars,
     object, capture, processes, history
<1> QED
  BY <1>1, <1>2, <1>3 DEF ReplayInv

\* What has disturbed is not forgotten.
LEMMA Remembered ==
  ASSUME TypeOK, [Next]_vars, Undisturbed'
  PROVE  Undisturbed
<1>1. overlapped \in BOOLEAN /\ outlived \in BOOLEAN
  BY DEF TypeOK
<1>2. (overlapped => overlapped') /\ (outlived => outlived')
  <2>1. CASE UNCHANGED vars
    BY <2>1 DEF vars, history
  <2>2. ASSUME NEW c \in Clients, Client(c)
        PROVE  (overlapped => overlapped') /\ (outlived => outlived')
    BY <1>1, <2>2 DEF Client, StartCheck, StartClear, StartState, StartThread,
       StopFlag, StopKillZeek, StopKillProc, StopJoin, StopDone, history
  <2>3. ASSUME NEW r \in Runs, Thread(r)
        PROVE  (overlapped => overlapped') /\ (outlived => outlived')
    <3>1. UNCHANGED history
      BY <2>3 DEF Thread, CleanUp, SpawnZeek, WaitZeek, AfterZeek, Load,
         _start_pipeline, Announce, NextRecord, WriteRecord, CloseLogs,
         DropMarkers, _await_pipeline, Finished, KillZeek, KillPipeline, Release
    <3> QED
      BY <3>1 DEF history
  <2>4. ASSUME NEW r \in Runs,
               Fail(r) \/ ReleaseFails(r) \/ ZeekEnds(r) \/ PipelineEnds(r)
        PROVE  (overlapped => overlapped') /\ (outlived => outlived')
    BY <2>4 DEF Fail, ReleaseFails, ZeekEnds, PipelineEnds, history
  <2> QED
    BY <2>1, <2>2, <2>3, <2>4 DEF Next
<1> QED
  BY <1>2 DEF Undisturbed

LEMMA GuardedStep == GuardedInv /\ [Next]_vars => GuardedInv'
<1> SUFFICES ASSUME GuardedInv, [Next]_vars, Undisturbed' PROVE ReplayInv'
  BY FeedStep DEF GuardedInv
<1>1. ReplayInv
  BY Remembered DEF GuardedInv, FeedInv
<1>2. CASE UNCHANGED vars
  BY <1>1, <1>2, ReplayStutters
<1>3. CASE Next
  BY <1>1, <1>3, ClientStep, ThreadStep, ProcessEnds DEF Next
<1> QED
  BY <1>2, <1>3

LEMMA ReplayCorrect == Spec => []GuardedInv
<1>1. Init => GuardedInv
  BY ReplayInit, InitFeed DEF GuardedInv
<1> QED
  BY <1>1, GuardedStep, PTL DEF Spec

\* Two threads at work, or one that "running" does not show, mean that a start()
\* overlapped another call or that a join timed out, for any number of pages:
\* nothing else in start(), stop() or _run() brings them about.
THEOREM TwoReplaysExplainedCorrect == Spec => []TwoReplaysExplained
<1>1. GuardedInv => TwoReplaysExplained
  BY DEF GuardedInv, ReplayInv, ThreadInv, TwoReplaysExplained, OneReplay,
     Unseen, Undisturbed
<1> QED
  BY <1>1, ReplayCorrect, PTL

\* Until then a run that is over has left no process behind, save the pipeline
\* of a run that failed, and what stop() reports is so.
THEOREM NothingOutlivesItsRunCorrect == Spec => []NothingOutlivesItsRun
<1>1. GuardedInv => NothingOutlivesItsRun
  <2> SUFFICES ASSUME ReplayInv, NEW r \in Runs
               PROVE  /\ pc[r] = "done" /\ Alive(r) =>
                            r \in failed /\ zeeks[r] # "alive"
                      /\ phase = "stopped" =>
                            ~Active(r) /\ (Alive(r) => r \in failed)
    BY DEF GuardedInv, NothingOutlivesItsRun
  <2>1. phase = "stopped" => ~Active(r)
    BY DEF ReplayInv, ThreadInv
  <2>2. ProcessOf(r)
    BY DEF ReplayInv, RunInv
  <2> QED
    BY <2>1, <2>2 DEF ProcessOf, Alive, Active, Spawned, Ending
<1> QED
  BY <1>1, ReplayCorrect, PTL

\* Until then a pipeline that ends because of the markers has been fed the
\* whole capture (the feeding loop, _drop_markers()).
THEOREM DrainedIsCompleteCorrect == Spec => []DrainedIsComplete
<1>1. GuardedInv => DrainedIsComplete
  BY DEF GuardedInv, ReplayInv, RunInv, CompleteOf, DrainedIsComplete
<1> QED
  BY <1>1, ReplayCorrect, PTL
=============================================================================
