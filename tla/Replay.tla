------------------------------- MODULE Replay -------------------------------
(***************************************************************************)
(* Replay of dashboard/replay.py: HTTP threads call start() and stop(), a  *)
(* run's thread converts a capture with Zeek, spawns the detection         *)
(* pipeline and feeds it, and the two subprocesses end on their own or are *)
(* killed. All of them share the attributes of one object without a lock,  *)
(* so its accesses are steps of their own.                                 *)
(*                                                                         *)
(* A run is known by its number, and so are its thread, its Zeek and its   *)
(* pipeline. Of the log directory the model keeps the .done markers.       *)
(***************************************************************************)
EXTENDS Naturals

CONSTANTS
    Clients,       \* threads of the API server, each in one call at a time
    MaxRuns,       \* bound: replays started
    MaxRecords,    \* bound: records of a capture
    Aftermath      \* bound: what comes after a disturbance is explored, too

Runs == 1..MaxRuns
None == 0

ASSUME ReplayAssumption ==
    MaxRuns \in Nat /\ MaxRecords \in Nat /\ Aftermath \in BOOLEAN

VARIABLES
    flag,      \* stop_flag
    running,   \* state["running"]
    phase,     \* state["phase"]
    thread,    \* self.thread, None before the first run
    zeek,      \* self.zeek
    proc,      \* self.proc
    api,       \* api[c]: where client c's call is
    started,   \* runs started so far
    pc,        \* pc[r]: where the thread of run r is
    total,     \* total[r]: records of its capture
    fed,       \* fed[r]: records it has written
    zeeks,     \* zeeks[r]: its Zeek process
    pipes,     \* pipes[r]: its pipeline process
    marker,    \* the .done markers are in the log directory
    failed,    \* history: runs that ended with an exception
    overlapped,\* history: a start() ran while another call did
    outlived   \* history: a join returned with its thread at work

object == <<flag, running, phase, thread, zeek, proc>>
processes == <<zeeks, pipes>>
capture == <<total, fed, marker>>
history == <<failed, overlapped, outlived>>
vars == <<object, api, started, pc, capture, processes, history>>

Phases == {"idle", "converting", "zeek failed", "empty", "replaying",
           "draining", "finished", "error", "stopped"}

Init ==
    /\ flag = FALSE
    /\ running = FALSE
    /\ phase = "idle"
    /\ thread = None
    /\ zeek = None
    /\ proc = None
    /\ api = [c \in Clients |-> "idle"]
    /\ started = 0
    /\ pc = [r \in Runs |-> "none"]
    /\ total = [r \in Runs |-> 0]
    /\ fed = [r \in Runs |-> 0]
    /\ zeeks = [r \in Runs |-> "none"]
    /\ pipes = [r \in Runs |-> "none"]
    /\ marker = FALSE
    /\ failed = {}
    /\ overlapped = FALSE
    /\ outlived = FALSE

Active(r) == pc[r] \notin {"none", "done"}

\* _kill(): terminate, and kill what does not go. Nothing to do for a process
\* that has ended, or for None.
_kill(table, p) ==
    [r \in Runs |-> IF r = p /\ table[r] = "alive" THEN "killed" ELSE table[r]]

-----------------------------------------------------------------------------
(* start() and stop(), as called by the API server.                        *)

Starting == {"starting", "cleared", "prepared"}
Stopping == {"killZeek", "killProc", "join", "joined"}

Meets(c, calls) == \E d \in Clients \ {c} : api[d] \in calls

\* if self.state["running"]: refuse.
StartCheck(c) ==
    /\ api[c] = "idle"
    /\ started < MaxRuns
    /\ ~running
    /\ api' = [api EXCEPT ![c] = "starting"]
    /\ overlapped' = (overlapped \/ Meets(c, Starting \cup Stopping))
    /\ UNCHANGED <<object, started, pc, capture, processes, failed, outlived>>

StartClear(c) ==
    /\ api[c] = "starting"
    /\ flag' = FALSE
    /\ api' = [api EXCEPT ![c] = "cleared"]
    /\ UNCHANGED <<running, phase, thread, zeek, proc, started, pc, capture,
                   processes, history>>

StartState(c) ==
    /\ api[c] = "cleared"
    /\ running' = TRUE
    /\ phase' = "converting"
    /\ api' = [api EXCEPT ![c] = "prepared"]
    /\ UNCHANGED <<flag, thread, zeek, proc, started, pc, capture, processes,
                   history>>

StartThread(c) ==
    /\ api[c] = "prepared"
    /\ started < MaxRuns
    /\ started' = started + 1
    /\ thread' = started'
    /\ pc' = [pc EXCEPT ![started'] = "cleanup"]
    /\ api' = [api EXCEPT ![c] = "idle"]
    /\ UNCHANGED <<flag, running, phase, zeek, proc, capture, processes, history>>

\* Mutant: the replay is taken for stopped before its thread has ended.
StopFlag_frees(c) ==
    /\ api[c] = "idle"
    /\ flag' = TRUE
    /\ running' = FALSE
    /\ api' = [api EXCEPT ![c] = "killZeek"]
    /\ overlapped' = (overlapped \/ Meets(c, Starting))
    /\ UNCHANGED <<phase, thread, zeek, proc, started, pc, capture, processes,
                   failed, outlived>>

StopFlag(c) ==
    /\ api[c] = "idle"
    /\ flag' = TRUE
    /\ api' = [api EXCEPT ![c] = "killZeek"]
    /\ overlapped' = (overlapped \/ Meets(c, Starting))
    /\ UNCHANGED <<running, phase, thread, zeek, proc, started, pc, capture,
                   processes, failed, outlived>>

StopKillZeek(c) ==
    /\ api[c] = "killZeek"
    /\ zeeks' = _kill(zeeks, zeek)
    /\ api' = [api EXCEPT ![c] = "killProc"]
    /\ UNCHANGED <<object, started, pc, capture, pipes, history>>

StopKillProc(c) ==
    /\ api[c] = "killProc"
    /\ pipes' = _kill(pipes, proc)
    /\ api' = [api EXCEPT ![c] = "join"]
    /\ UNCHANGED <<object, started, pc, capture, zeeks, history>>

\* Mutant: the thread is not waited for.
StopJoin_skips(c) ==
    /\ api[c] = "join"
    /\ api' = [api EXCEPT ![c] = "joined"]
    /\ UNCHANGED <<object, started, pc, capture, processes, history>>

\* self.thread.join(timeout=10): the thread has ended, or ten seconds are over.
StopJoin(c) ==
    /\ api[c] = "join"
    /\ api' = [api EXCEPT ![c] = "joined"]
    /\ outlived' = (outlived \/ (thread # None /\ Active(thread)))
    /\ UNCHANGED <<object, started, pc, capture, processes, failed, overlapped>>

StopDone(c) ==
    /\ api[c] = "joined"
    /\ running' = FALSE
    /\ phase' = "stopped"
    /\ api' = [api EXCEPT ![c] = "idle"]
    /\ UNCHANGED <<flag, thread, zeek, proc, started, pc, capture, processes,
                   history>>

Client(c) ==
    \/ StartCheck(c) \/ StartClear(c) \/ StartState(c) \/ StartThread(c)
    \/ StopFlag(c) \/ StopKillZeek(c) \/ StopKillProc(c) \/ StopJoin(c)
    \/ StopDone(c)

-----------------------------------------------------------------------------
(* _run(), the thread of run r.                                            *)

Goto(r, from, to) == pc[r] = from /\ pc' = [pc EXCEPT ![r] = to]

\* The logs and the markers of the run before are deleted.
CleanUp(r) ==
    /\ Goto(r, "cleanup", "spawnZeek")
    /\ marker' = FALSE
    /\ UNCHANGED <<object, api, started, total, fed, processes, history>>

SpawnZeek(r) ==
    /\ Goto(r, "spawnZeek", "waitZeek")
    /\ zeeks' = [zeeks EXCEPT ![r] = "alive"]
    /\ zeek' = r
    /\ UNCHANGED <<flag, running, phase, thread, proc, api, started, capture,
                   pipes, history>>

\* rc = self.zeek.wait(); self.zeek = None
WaitZeek(r) ==
    /\ zeeks[r] # "alive"
    /\ Goto(r, "waitZeek", "zeekEnded")
    /\ zeek' = None
    /\ UNCHANGED <<flag, running, phase, thread, proc, api, started, capture,
                   processes, history>>

\* The stop flag is looked at before the return code.
AfterZeek(r) ==
    /\ Goto(r, "zeekEnded", IF flag \/ zeeks[r] # "ok" THEN "finally" ELSE "load")
    /\ phase' = IF ~flag /\ zeeks[r] # "ok" THEN "zeek failed" ELSE phase
    /\ UNCHANGED <<flag, running, thread, zeek, proc, api, started, capture,
                   processes, history>>

\* The capture is parsed and sorted, with no look at the stop flag.
Load(r) ==
    /\ \E n \in 0..MaxRecords :
        /\ total' = [total EXCEPT ![r] = n]
        /\ Goto(r, "load", IF n = 0 THEN "finally" ELSE "spawnPipeline")
        /\ phase' = IF n = 0 THEN "empty" ELSE phase
    /\ UNCHANGED <<flag, running, thread, zeek, proc, api, started, fed, marker,
                   processes, history>>

_start_pipeline(r) ==
    /\ Goto(r, "spawnPipeline", "announce")
    /\ pipes' = [pipes EXCEPT ![r] = "alive"]
    /\ proc' = r
    /\ UNCHANGED <<flag, running, phase, thread, zeek, api, started, capture,
                   zeeks, history>>

Announce(r) ==
    /\ Goto(r, "announce", "feed")
    /\ phase' = "replaying"
    /\ UNCHANGED <<flag, running, thread, zeek, proc, api, started, capture,
                   processes, history>>

\* Mutant: the loop runs once too often.
NextRecord_over(r) ==
    /\ Goto(r, "feed", IF flag \/ fed[r] > total[r] THEN "close" ELSE "write")
    /\ UNCHANGED <<object, api, started, capture, processes, history>>

\* Top of the feeding loop.
NextRecord(r) ==
    /\ Goto(r, "feed", IF flag \/ fed[r] = total[r] THEN "close" ELSE "write")
    /\ UNCHANGED <<object, api, started, capture, processes, history>>

\* The gap is waited out; a stop ends the wait, but not before this write.
WriteRecord(r) ==
    /\ Goto(r, "write", "feed")
    /\ fed' = [fed EXCEPT ![r] = @ + 1]
    /\ UNCHANGED <<object, api, started, total, marker, processes, history>>

\* Mutant: a stopped feed is marked as if it were complete.
CloseLogs_alwaysMarks(r) ==
    /\ Goto(r, "close", "mark")
    /\ UNCHANGED <<object, api, started, capture, processes, history>>

CloseLogs(r) ==
    /\ Goto(r, "close", IF flag THEN "finally" ELSE "mark")
    /\ UNCHANGED <<object, api, started, capture, processes, history>>

DropMarkers(r) ==
    /\ Goto(r, "mark", "drain")
    /\ marker' = TRUE
    /\ phase' = "draining"
    /\ UNCHANGED <<flag, running, thread, zeek, proc, api, started, total, fed,
                   processes, history>>

\* Mutant: the drain lasts until the pipeline ends, however long that takes.
_await_pipeline_noDeadline(r) ==
    /\ flag \/ (proc # None => pipes[proc] # "alive")
    /\ Goto(r, "drain", "drained")
    /\ pipes' = _kill(pipes, proc)
    /\ UNCHANGED <<object, api, started, capture, zeeks, history>>

\* The pipeline has ended, or a stop or the deadline (45 s) kills it.
_await_pipeline(r) ==
    /\ Goto(r, "drain", "drained")
    /\ pipes' = _kill(pipes, proc)
    /\ UNCHANGED <<object, api, started, capture, zeeks, history>>

Finished(r) ==
    /\ Goto(r, "drained", "finally")
    /\ phase' = "finished"
    /\ UNCHANGED <<flag, running, thread, zeek, proc, api, started, capture,
                   processes, history>>

\* A file operation, a spawn or a wait raises. An OSError is caught and shown;
\* any other exception (a log that is not text) goes on through the finally.
Fail(r) ==
    /\ pc[r] \in {"cleanup", "spawnZeek", "load", "spawnPipeline", "write",
                  "close", "mark", "drain"}
    /\ pc' = [pc EXCEPT ![r] = "finally"]
    /\ phase' \in {"error", phase}
    /\ failed' = failed \cup {r}
    /\ UNCHANGED <<flag, running, thread, zeek, proc, api, started, capture,
                   processes, overlapped, outlived>>

\* finally: the pipeline is killed only if the run was stopped.
KillZeek(r) ==
    /\ Goto(r, "finally", "killPipeline")
    /\ zeeks' = _kill(zeeks, zeek)
    /\ zeek' = None
    /\ UNCHANGED <<flag, running, phase, thread, proc, api, started, capture,
                   pipes, history>>

KillPipeline(r) ==
    /\ Goto(r, "killPipeline", "release")
    /\ pipes' = IF flag THEN _kill(pipes, proc) ELSE pipes
    /\ UNCHANGED <<object, api, started, capture, zeeks, history>>

Release(r) ==
    /\ Goto(r, "release", "done")
    /\ running' = FALSE
    /\ UNCHANGED <<flag, phase, thread, zeek, proc, api, started, capture,
                   processes, history>>

\* Closing the pipeline's log raises: the thread ends with "running" still set.
ReleaseFails(r) ==
    /\ Goto(r, "release", "done")
    /\ failed' = failed \cup {r}
    /\ UNCHANGED <<object, api, started, capture, processes, overlapped, outlived>>

Thread(r) ==
    \/ CleanUp(r) \/ SpawnZeek(r) \/ WaitZeek(r) \/ AfterZeek(r) \/ Load(r)
    \/ _start_pipeline(r) \/ Announce(r) \/ NextRecord(r) \/ WriteRecord(r)
    \/ CloseLogs(r) \/ DropMarkers(r) \/ _await_pipeline(r) \/ Finished(r)
    \/ KillZeek(r) \/ KillPipeline(r) \/ Release(r)

-----------------------------------------------------------------------------
(* The subprocesses.                                                       *)

ZeekEnds(r) ==
    /\ zeeks[r] = "alive"
    /\ \E rc \in {"ok", "failed"} : zeeks' = [zeeks EXCEPT ![r] = rc]
    /\ UNCHANGED <<object, api, started, pc, capture, pipes, history>>

\* The pipeline reads its logs to their markers, or gives up on silent ones,
\* and stores its final state; or it dies of an exception.
PipelineEnds(r) ==
    /\ pipes[r] = "alive"
    /\ \E how \in {"drained", "gaveUp", "crashed"} :
        /\ how = "drained" => marker
        /\ pipes' = [pipes EXCEPT ![r] = how]
    /\ UNCHANGED <<object, api, started, pc, capture, zeeks, history>>

\* What start() and stop() rely on without a lock: that no start() overlaps
\* another call, and that a thread ends within ten seconds of stop()'s flag.
Undisturbed == ~overlapped /\ ~outlived

Explored == Aftermath \/ Undisturbed

Next ==
    /\ Explored
    /\ \/ \E c \in Clients : Client(c)
       \/ \E r \in Runs : \/ Thread(r) \/ Fail(r) \/ ReleaseFails(r)
                          \/ ZeekEnds(r) \/ PipelineEnds(r)

Spec == Init /\ [][Next]_vars

\* Threads and calls make progress, and Zeek comes to the end of a capture.
\* Nothing is assumed of the pipeline, nor that anybody calls stop().
FairSpec ==
    /\ Spec
    /\ \A r \in Runs : WF_vars(Explored /\ Thread(r)) /\ WF_vars(Explored /\ ZeekEnds(r))
    /\ \A c \in Clients :
          WF_vars(/\ Explored
                  /\ \/ StartClear(c) \/ StartState(c) \/ StartThread(c)
                     \/ StopKillZeek(c) \/ StopKillProc(c)
                     \/ StopJoin(c) \/ StopDone(c))

-----------------------------------------------------------------------------
(* Safety.                                                                 *)

\* Type invariant.
TypeOK ==
    /\ flag \in BOOLEAN
    /\ running \in BOOLEAN
    /\ phase \in Phases
    /\ thread \in 0..started
    /\ zeek \in 0..started
    /\ proc \in 0..started
    /\ api \in [Clients -> {"idle"} \cup Starting \cup Stopping]
    /\ started \in 0..MaxRuns
    /\ pc \in [Runs -> {"none", "cleanup", "spawnZeek", "waitZeek", "zeekEnded",
                        "load", "spawnPipeline", "announce", "feed", "write",
                        "close", "mark", "drain", "drained", "finally",
                        "killPipeline", "release", "done"}]
    /\ total \in [Runs -> 0..MaxRecords]
    /\ \A r \in Runs : fed[r] \in 0..total[r]
    /\ zeeks \in [Runs -> {"none", "alive", "ok", "failed", "killed"}]
    /\ pipes \in [Runs -> {"none", "alive", "drained", "gaveUp", "crashed",
                           "killed"}]
    /\ marker \in BOOLEAN
    /\ failed \subseteq Runs
    /\ overlapped \in BOOLEAN /\ outlived \in BOOLEAN

Alive(r) == zeeks[r] = "alive" \/ pipes[r] = "alive"

\* A run leaves no process behind, however it ends: converted, empty, drained,
\* past its deadline or stopped between any two steps; and what stop() reports
\* is so, wherever in its run it met the thread. Only after an exception the
\* pipeline is left to end by its quiet timeout.
NothingOutlivesItsRun ==
    Undisturbed =>
        \A r \in Runs :
            /\ pc[r] = "done" /\ Alive(r) => r \in failed /\ zeeks[r] # "alive"
            /\ phase = "stopped" => ~Active(r) /\ (Alive(r) => r \in failed)

\* A pipeline that ends because of the markers has been fed the whole capture:
\* a stopped feed never looks complete.
DrainedIsComplete ==
    Undisturbed =>
        \A r \in Runs \ failed : pipes[r] = "drained" => fed[r] = total[r]

\* "Runs one replay at a time": two threads are never at work at once.
OneReplay == \A r, s \in Runs : Active(r) /\ Active(s) => r = s

\* A thread is at work that start() does not refuse for.
Unseen == ~running /\ \E r \in Runs : Active(r)

\* Two replays at once, and one that start() does not see, come about in two
\* ways only, for any number of pages: a start() overlapped another call (both
\* starts pass line 81, or a stop clears what the start has set), or a join
\* timed out on a thread at work. Stops may overlap, failures of any kind and
\* kills at any step are harmless.
TwoReplaysExplained == ~OneReplay \/ Unseen => overlapped \/ outlived

-----------------------------------------------------------------------------
(* Liveness, under FairSpec.                                               *)

\* Every run ends, even if its pipeline hangs, and a stop may come at any step.
RunEnds == \A r \in Runs : Active(r) ~> ~Active(r) \/ ~Explored
=============================================================================
