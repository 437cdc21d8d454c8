---------------------------- MODULE LogFollower ----------------------------
(***************************************************************************)
(* follow() of src/ingest/log_stream.py: the generator that tails one Zeek *)
(* JSON log, next to the process that appends to that log.                 *)
(*                                                                         *)
(* A line is known by its number in the file. What is kept of its content  *)
(* is whether follow() parses it ("rec") or skips it ("noise": blank, a    *)
(* '#' header, malformed JSON). Every filesystem call of follow() is a     *)
(* step of its own, so the writer may act between any two of them.         *)
(*                                                                         *)
(* Time is counted in polls. No clock is kept: quiet is how long ago the   *)
(* code's quiet_since was set, and stops counting at the timeout it is     *)
(* compared with, so the model needs no bound on time.                     *)
(***************************************************************************)
EXTENDS Integers, Sequences, Subsequence

CONSTANTS
    Calls,        \* the arguments follow() may be called with
    MaxLines      \* bound: lines the writer appends

NoTimeout == -1

\* block, from_start, whether there is a done_marker, and idle_timeout in
\* polls, NoTimeout for None.
ASSUME FollowerAssumption ==
    /\ Calls \subseteq [block : BOOLEAN, fromStart : BOOLEAN,
                        marker : BOOLEAN, timeout : Nat \cup {NoTimeout}]
    /\ MaxLines \in Nat

Kinds == {"rec", "noise"}

\* The part of an unfinished last line that is on disk: nothing, a piece cut
\* inside the JSON text, or the whole text still missing its newline.
Fragment == {"none", "cut", "bare"}

Terminal == {"finished", "absent", "timedout"}

PcValue == {"exists", "absentMarker", "open", "read", "marker", "reread",
            "quiet", "napping", "idle", "handed"} \cup Terminal

VARIABLES
    call,       \* the arguments of this call
    exists,     \* the log file is there
    lines,      \* its complete lines
    half,       \* the fragment after them
    torn,       \* numbers of the lines that were once on disk as a fragment
    marker,     \* the <log>.done file is there
    pc,         \* where follow() is
    opened,     \* the file has been opened
    start,      \* complete lines before the position reading started at
    pos,        \* complete lines consumed
    ate,        \* the fragment of line pos+1 already consumed
    delivered,  \* numbers of the lines yielded as records, in order
    waited,     \* sleeps spent waiting for the log to appear
    quiet,      \* polls since quiet_since, -1 when it is None
    nap         \* polls the current time.sleep(poll) still has to run

fileVars == <<exists, lines, half, torn, marker>>
readVars == <<opened, start, pos, ate, delivered>>
timeVars == <<waited, quiet, nap>>
vars == <<call, fileVars, readVars, timeVars, pc>>

TimeoutSet == call.timeout # NoTimeout

NotQuiet == -1

Init ==
    /\ call \in Calls
    /\ exists \in BOOLEAN
    /\ lines = <<>>
    /\ half = "none"
    /\ torn = {}
    /\ marker = FALSE
    /\ pc = "exists"
    /\ opened = FALSE
    /\ start = 0
    /\ pos = 0
    /\ ate = "none"
    /\ delivered = <<>>
    /\ waited = 0
    /\ quiet = NotQuiet
    /\ nap = 0

-----------------------------------------------------------------------------
(* The writer: the replay feeder, a throughput run, or a live Zeek.        *)

Create ==
    /\ ~exists
    /\ ~marker
    /\ exists' = TRUE
    /\ UNCHANGED <<call, lines, half, torn, marker, readVars, timeVars, pc>>

WriteLine ==
    /\ exists
    /\ ~marker
    /\ half = "none"
    /\ Len(lines) < MaxLines
    /\ \E kind \in Kinds : lines' = Append(lines, kind)
    /\ UNCHANGED <<call, exists, half, torn, marker, readVars, timeVars, pc>>

\* A buffer boundary falls inside a line: only its first part is flushed. A
\* line is torn at most once; a further tear of the rest changes nothing,
\* since the rest is already unparsable.
TearLine ==
    /\ exists
    /\ ~marker
    /\ half = "none"
    /\ Len(lines) < MaxLines
    /\ half' \in {"cut", "bare"}
    /\ torn' = torn \cup {Len(lines) + 1}
    /\ UNCHANGED <<call, exists, lines, marker, readVars, timeVars, pc>>

CompleteLine ==
    /\ half # "none"
    /\ lines' = Append(lines, "rec")
    /\ half' = "none"
    /\ UNCHANGED <<call, exists, torn, marker, readVars, timeVars, pc>>

\* Written only after every handle is flushed and closed.
DropMarker ==
    /\ ~marker
    /\ half = "none"
    /\ marker' = TRUE
    /\ UNCHANGED <<call, exists, lines, half, torn, readVars, timeVars, pc>>

Writer == Create \/ WriteLine \/ TearLine \/ CompleteLine \/ DropMarker

-----------------------------------------------------------------------------
(* follow() before the log is there.                                       *)

\* Mutant: a marker counts only next to its log.
MarkerSeen_needsLog == call.marker /\ marker /\ exists

MarkerSeen == call.marker /\ marker

CheckExists ==
    /\ pc = "exists"
    /\ pc' = IF exists THEN "open" ELSE "absentMarker"
    /\ UNCHANGED <<call, fileVars, readVars, timeVars>>

\* Nothing to do: sleep here, or hand IDLE to the caller.
Pause ==
    IF call.block THEN pc' = "napping" /\ nap' = 1
             ELSE pc' = "idle" /\ nap' = nap

\* Mutant: it sleeps once more when the timeout has been waited out.
CheckAbsent_later ==
    /\ pc = "absentMarker"
    /\ \/ MarkerSeen /\ pc' = "absent" /\ nap' = nap
       \/ /\ ~MarkerSeen
          /\ TimeoutSet /\ waited > call.timeout
          /\ pc' = "timedout" /\ nap' = nap
       \/ /\ ~MarkerSeen
          /\ ~(TimeoutSet /\ waited > call.timeout)
          /\ Pause
    /\ UNCHANGED <<call, fileVars, readVars, waited, quiet>>

CheckAbsent ==
    /\ pc = "absentMarker"
    /\ \/ MarkerSeen /\ pc' = "absent" /\ nap' = nap
       \/ /\ ~MarkerSeen
          /\ TimeoutSet /\ waited >= call.timeout
          /\ pc' = "timedout" /\ nap' = nap
       \/ /\ ~MarkerSeen
          /\ ~(TimeoutSet /\ waited >= call.timeout)
          /\ Pause
    /\ UNCHANGED <<call, fileVars, readVars, waited, quiet>>

\* Mutant: from_start is ignored, the reader always seeks to the end.
OpenLog_seeksEnd ==
    /\ pc = "open"
    /\ opened' = TRUE
    /\ pos' = Len(lines)
    /\ start' = pos'
    /\ ate' = half
    /\ pc' = "read"
    /\ UNCHANGED <<call, fileVars, delivered, timeVars>>

OpenLog ==
    /\ pc = "open"
    /\ opened' = TRUE
    /\ pos' = IF call.fromStart THEN 0 ELSE Len(lines)
    /\ start' = pos'
    /\ ate' = IF call.fromStart THEN "none" ELSE half
    /\ pc' = "read"
    /\ UNCHANGED <<call, fileVars, delivered, timeVars>>

-----------------------------------------------------------------------------
(* One readline(), and what follow() makes of the text it returns.         *)

\* readline() returns text: a complete line, or a fragment at end of file.
Readable == pos < Len(lines) \/ (half # "none" /\ ate = "none")

\* The text read is a whole JSON record. The remainder of a line whose first
\* part was already consumed is not: it is malformed, or an empty line.
ParsesAsRecord ==
    IF pos < Len(lines) THEN ate = "none" /\ lines[pos + 1] = "rec"
                        ELSE half = "bare"

\* Mutant: a fragment read at end of file is read again with its line.
Consume_rereadsFragment ==
    /\ pos' = IF pos < Len(lines) THEN pos + 1 ELSE pos
    /\ ate' = "none"
    /\ delivered' = IF ParsesAsRecord THEN Append(delivered, pos + 1)
                                      ELSE delivered
    /\ pc' = IF ParsesAsRecord THEN "handed" ELSE "read"
    /\ UNCHANGED <<call, fileVars, opened, start, waited, nap>>

Consume ==
    /\ IF pos < Len(lines) THEN pos' = pos + 1 /\ ate' = "none"
                           ELSE pos' = pos /\ ate' = half
    /\ delivered' = IF ParsesAsRecord THEN Append(delivered, pos + 1)
                                      ELSE delivered
    /\ pc' = IF ParsesAsRecord THEN "handed" ELSE "read"
    /\ UNCHANGED <<call, fileVars, opened, start, waited, nap>>

ReadLine ==
    /\ pc = "read"
    /\ Readable
    /\ Consume
    /\ quiet' = NotQuiet

\* Mutant: the end of the file is taken for the end of the log.
ReadNothing_ends ==
    /\ pc = "read"
    /\ ~Readable
    /\ pc' = "finished"
    /\ UNCHANGED <<call, fileVars, readVars, timeVars>>

ReadNothing ==
    /\ pc = "read"
    /\ ~Readable
    /\ pc' = "marker"
    /\ UNCHANGED <<call, fileVars, readVars, timeVars>>

\* Mutant: the marker alone ends the stream, without the second readline().
CheckMarker_trustsMarker ==
    /\ pc = "marker"
    /\ pc' = IF MarkerSeen THEN "finished" ELSE "quiet"
    /\ UNCHANGED <<call, fileVars, readVars, timeVars>>

CheckMarker ==
    /\ pc = "marker"
    /\ pc' = IF MarkerSeen THEN "reread" ELSE "quiet"
    /\ UNCHANGED <<call, fileVars, readVars, timeVars>>

\* Mutant: the line the second readline() returns is dropped.
ReReadLine_dropsLine ==
    /\ pc = "reread"
    /\ Readable
    /\ IF pos < Len(lines) THEN pos' = pos + 1 /\ ate' = "none"
                           ELSE pos' = pos /\ ate' = half
    /\ pc' = "read"
    /\ UNCHANGED <<call, fileVars, opened, start, delivered, timeVars>>

ReReadLine ==
    /\ pc = "reread"
    /\ Readable
    /\ Consume
    /\ UNCHANGED quiet

ReReadNothing ==
    /\ pc = "reread"
    /\ ~Readable
    /\ pc' = "finished"
    /\ UNCHANGED <<call, fileVars, readVars, timeVars>>

CheckQuiet ==
    /\ pc = "quiet"
    /\ quiet' = IF quiet = NotQuiet THEN 0 ELSE quiet
    /\ IF TimeoutSet /\ quiet' >= call.timeout
       THEN pc' = "timedout" /\ nap' = nap
       ELSE Pause
    /\ UNCHANGED <<call, fileVars, readVars, waited>>

-----------------------------------------------------------------------------
(* Sleeping, the caller, and time.                                         *)

LoopTop == IF opened THEN "read" ELSE "exists"

\* time.sleep(poll) returns. Only the wait for the log to appear counts it.
Wake ==
    /\ pc = "napping"
    /\ nap = 0
    /\ waited' = IF ~opened /\ TimeoutSet THEN waited + 1 ELSE waited
    /\ pc' = LoopTop
    /\ UNCHANGED <<call, fileVars, readVars, quiet, nap>>

\* The caller asks for the next item; until then the generator is suspended.
Resume ==
    /\ pc \in {"handed", "idle"}
    /\ pc' = LoopTop
    /\ UNCHANGED <<call, fileVars, readVars, timeVars>>

\* A poll's worth of wall time passes, wherever follow() is.
Tick ==
    /\ nap = 1 \/ quiet \in 0..(call.timeout - 1)
    /\ nap' = 0
    /\ quiet' = IF quiet \in 0..(call.timeout - 1) THEN quiet + 1 ELSE quiet
    /\ UNCHANGED <<call, fileVars, readVars, waited, pc>>

Follower ==
    \/ CheckExists \/ CheckAbsent \/ OpenLog
    \/ ReadLine \/ ReadNothing \/ CheckMarker \/ ReReadLine \/ ReReadNothing
    \/ CheckQuiet \/ Wake

Next == Writer \/ Follower \/ Resume \/ Tick

Spec == Init /\ [][Next]_vars

\* follow() keeps running, its caller keeps asking, and time passes. Nothing
\* is assumed of the writer.
FairSpec ==
    Spec /\ WF_vars(Follower) /\ WF_vars(Resume) /\ WF_vars(Tick)

-----------------------------------------------------------------------------
(* Safety.                                                                 *)

\* Type invariant. The sleeps before the log appears are those the timeout
\* allows, and none is counted without one.
TypeOK ==
    /\ call \in Calls
    /\ exists \in BOOLEAN
    /\ lines \in Seq(Kinds)
    /\ half \in Fragment
    /\ torn \subseteq Nat
    /\ marker \in BOOLEAN
    /\ pc \in PcValue
    /\ opened \in BOOLEAN
    /\ start \in Nat
    /\ pos \in Nat
    /\ ate \in Fragment
    /\ delivered \in Seq(Nat)
    /\ waited \in 0..(IF TimeoutSet THEN call.timeout ELSE 0)
    /\ quiet \in Nat \cup {NotQuiet}
    /\ nap \in {0, 1}

WasDelivered(n) == \E i \in DOMAIN delivered : delivered[i] = n

\* follow() yields the records of a log in file order and none of them twice,
\* also when it reads one as a fragment and meets its end later.
OnceInOrder ==
    \A i, j \in DOMAIN delivered : i < j => delivered[i] < delivered[j]

\* A split line costs at most that line: every record that reached the file in
\* one piece and lies behind follow()'s position was yielded.
UntornDelivered ==
    \A n \in (start + 1)..pos :
        lines[n] = "rec" /\ n \notin torn => WasDelivered(n)

\* The end follow() reports after seeing the marker is the end of the log: it
\* re-reads because lines may have landed since its last empty readline.
FinishedReadAll ==
    pc = "finished" => pos = Len(lines) /\ half = "none" /\ marker

\* Everything behind follow()'s position was yielded, which is what "nothing
\* is lost" says of a reader slower than the writer.
NothingLost ==
    \A n \in (start + 1)..pos : lines[n] = "rec" => WasDelivered(n)

-----------------------------------------------------------------------------
(* Liveness, under FairSpec.                                               *)

\* follow() returns once the marker it was told of is there, also on a log that
\* never appears; and with an idle timeout and a caller that lets it sleep it
\* returns in the end, also from a log without a marker (the writer stops after
\* MaxLines lines).
FollowReturns ==
    /\ (call.marker /\ marker) ~> (pc \in Terminal)
    /\ (TimeoutSet /\ call.block) => <>(pc \in Terminal)

\* Every record written in one piece after the position follow() started at is
\* yielded, unless follow() timed out, or took the log for one that never came.
EveryRecordDelivered ==
    \A n \in 1..MaxLines :
        (n <= Len(lines) /\ lines[n] = "rec" /\ n \notin torn)
            ~> (WasDelivered(n) \/ n <= start \/ pc \in {"timedout", "absent"})

-----------------------------------------------------------------------------
(* The channel a reader from the start implements. Its records are those    *)
(* written in one piece, known by their numbers; to take a log for absent   *)
(* is to abandon it, as a timeout is. A reader that starts at the end of    *)
(* the log is promised nothing.                                             *)

Whole(n) == lines[n] = "rec" /\ n \notin torn

WholeLines == {n \in 1..Len(lines) : Whole(n)}

ChannelLog == IF call.fromStart THEN Ascending(WholeLines) ELSE <<>>

Untorn == {i \in DOMAIN delivered : delivered[i] \notin torn}

ChannelGot == IF call.fromStart THEN Kept(delivered, Untorn) ELSE <<>>

ReaderState ==
    CASE pc = "finished" -> "finished"
      [] pc \in {"absent", "timedout"} -> "abandoned"
      [] OTHER -> "reading"

Channel == INSTANCE LogChannel WITH
    Record <- 1..MaxLines, log <- ChannelLog, got <- ChannelGot,
    closed <- marker, reader <- ReaderState

\* follow() implements the log channel.
ImplementsChannel == Channel!Spec
=============================================================================
