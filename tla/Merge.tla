------------------------------- MODULE Merge -------------------------------
(***************************************************************************)
(* merged() of src/pipeline.py: the k-way merge of the Zeek logs that      *)
(* bounds how long a quiet log may hold up its siblings, next to the       *)
(* feeder that paces records into those logs.                              *)
(*                                                                         *)
(* Logs are numbered in the order merged() visits them (1 is conn.log, 2   *)
(* dns.log, 3 ssl.log) and a record is its timestamp. One call of next()   *)
(* on a follower is one step: LogFollower shows that follow() hands out    *)
(* the records of its log in order, IDLE in between, and ends only at the  *)
(* end of the log.                                                         *)
(*                                                                         *)
(* Time is counted in polls. The code compares time stamps it took with    *)
(* the clock; the model keeps the differences: the age of last_record and  *)
(* of each quiet_since at the top of the loop, and how long ago that was.  *)
(* They stop counting at the largest threshold they are compared with.     *)
(***************************************************************************)
EXTENDS Integers, Sequences, Subsequence, Functions

CONSTANTS
    NumLogs,       \* logs merged() is told of
    Present,       \* those that exist when it starts
    Stamps,        \* timestamps of records
    Lag,           \* lag, in polls
    QuietTimeout,  \* quiet_timeout, in polls
    MaxRecords     \* bound: records written, all logs together

Logs == 1..NumLogs

ASSUME MergeAssumption ==
    /\ NumLogs \in Nat
    /\ Present \subseteq Logs
    /\ Stamps \subseteq Nat
    /\ Lag \in Nat /\ QuietTimeout \in Nat /\ MaxRecords \in Nat

Smaller(a, b) == IF a <= b THEN a ELSE b
Cap == IF Lag <= QuietTimeout THEN QuietTimeout ELSE Lag

NotSilent == -1

VARIABLES
    log,      \* log[k]: the records written to log k
    marker,   \* marker[k]: the .done marker of log k is there
    killed,   \* the feeder died and will write nothing more
    pc,       \* where merged() is
    scan,     \* next log of the top-up pass
    gens,     \* logs whose follower has not ended
    pos,      \* pos[k]: records taken from log k
    held,     \* logs with a record in hand (pending), the last one taken
    silent,   \* silent[k]: age of quiet_since[k] at the loop's now
    since,    \* age of last_record at the loop's now
    drift,    \* wall time since the loop's now
    nap,      \* polls the current time.sleep(poll) still has to run
    out,      \* what was yielded: kind, number in its log, and seen then
    seen,     \* history: records of log k on disk when it was last looked at
    slept,    \* history: sleeps since the last yield with a record in hand
    hold      \* history: sleeps since log k's record came into hand

feedVars == <<log, marker, killed>>
timeVars == <<silent, since, drift, nap>>
history == <<seen, slept, hold>>
vars == <<feedVars, timeVars, history, pc, scan, gens, pos, held, out>>

Returned == {"drained", "gaveUp"}

Init ==
    /\ log = [k \in Logs |-> <<>>]
    /\ marker = [k \in Logs |-> FALSE]
    /\ killed = FALSE
    /\ pc = "top"
    /\ scan = 1
    /\ gens = Present
    /\ pos = [k \in Logs |-> 0]
    /\ held = {}
    /\ silent = [k \in Logs |-> NotSilent]
    /\ since = 0
    /\ drift = 0
    /\ nap = 0
    /\ out = <<>>
    /\ seen = [k \in Logs |-> 0]
    /\ slept = 0
    /\ hold = [k \in Logs |-> 0]

-----------------------------------------------------------------------------
(* The feeder.                                                             *)

Written == FoldFunction(LAMBDA records, n : Len(records) + n, 0, log)

Feed(k) ==
    /\ ~killed
    /\ ~marker[k]
    /\ Written < MaxRecords
    /\ \E ts \in Stamps : log' = [log EXCEPT ![k] = Append(@, ts)]
    /\ UNCHANGED <<marker, killed, timeVars, history,
                   pc, scan, gens, pos, held, out>>

DropMarker(k) ==
    /\ ~killed
    /\ ~marker[k]
    /\ marker' = [marker EXCEPT ![k] = TRUE]
    /\ UNCHANGED <<log, killed, timeVars, history,
                   pc, scan, gens, pos, held, out>>

Kill ==
    /\ ~killed
    /\ killed' = TRUE
    /\ UNCHANGED <<log, marker, timeVars, history,
                   pc, scan, gens, pos, held, out>>

Feeder == Kill \/ \E k \in Logs : Feed(k) \/ DropMarker(k)

-----------------------------------------------------------------------------
(* The loop.                                                               *)

Later(age) == IF age = NotSilent THEN NotSilent ELSE Smaller(age + drift, Cap)

\* while gens or pending: now = time.time()
TopOfLoop ==
    /\ pc = "top"
    /\ IF gens = {} /\ held = {}
       THEN /\ pc' = "drained"
            /\ UNCHANGED <<silent, since, drift, scan>>
       ELSE /\ pc' = "scan"
            /\ scan' = 1
            /\ silent' = [k \in Logs |-> Later(silent[k])]
            /\ since' = Smaller(since + drift, Cap)
            /\ drift' = 0
    /\ UNCHANGED <<feedVars, nap, history, gens, pos, held, out>>

\* The pass moves on: every log but those with a record in hand is visited.
Advance ==
    /\ pc = "scan"
    /\ scan \in Logs
    /\ scan' = scan + 1
    /\ UNCHANGED <<feedVars, drift, nap, pc, out, slept>>

Look == seen' = [seen EXCEPT ![scan] = Len(log[scan])]

Skip ==
    /\ Advance
    /\ scan \notin gens \/ scan \in held
    /\ UNCHANGED <<gens, pos, held, silent, since, seen, hold>>

\* Mutant: the silence before a record is still counted after it.
TakeRecord_keepsSilence ==
    /\ Advance
    /\ scan \in gens \ held
    /\ pos[scan] < Len(log[scan])
    /\ pos' = [pos EXCEPT ![scan] = @ + 1]
    /\ held' = held \cup {scan}
    /\ since' = 0
    /\ hold' = [hold EXCEPT ![scan] = 0]
    /\ Look
    /\ UNCHANGED <<gens, silent>>

TakeRecord ==
    /\ Advance
    /\ scan \in gens \ held
    /\ pos[scan] < Len(log[scan])
    /\ pos' = [pos EXCEPT ![scan] = @ + 1]
    /\ held' = held \cup {scan}
    /\ silent' = [silent EXCEPT ![scan] = NotSilent]
    /\ since' = 0
    /\ hold' = [hold EXCEPT ![scan] = 0]
    /\ Look
    /\ UNCHANGED gens

\* Mutant: every IDLE restarts the log's silence.
FindIdle_restartsClock ==
    /\ Advance
    /\ scan \in gens \ held
    /\ pos[scan] = Len(log[scan])
    /\ ~marker[scan]
    /\ silent' = [silent EXCEPT ![scan] = 0]
    /\ Look
    /\ UNCHANGED <<gens, pos, held, since, hold>>

FindIdle ==
    /\ Advance
    /\ scan \in gens \ held
    /\ pos[scan] = Len(log[scan])
    /\ ~marker[scan]
    /\ silent' = [silent EXCEPT ![scan] = IF @ = NotSilent THEN 0 ELSE @]
    /\ Look
    /\ UNCHANGED <<gens, pos, held, since, hold>>

\* Mutant: a marked log is dropped with records still in it.
FindEnd_early ==
    /\ Advance
    /\ scan \in gens \ held
    /\ marker[scan]
    /\ gens' = gens \ {scan}
    /\ silent' = [silent EXCEPT ![scan] = NotSilent]
    /\ Look
    /\ UNCHANGED <<pos, held, since, hold>>

FindEnd ==
    /\ Advance
    /\ scan \in gens \ held
    /\ pos[scan] = Len(log[scan])
    /\ marker[scan]
    /\ gens' = gens \ {scan}
    /\ silent' = [silent EXCEPT ![scan] = NotSilent]
    /\ Look
    /\ UNCHANGED <<pos, held, since, hold>>

EndOfPass ==
    /\ pc = "scan"
    /\ scan \notin Logs
    /\ pc' = "decide"
    /\ UNCHANGED <<feedVars, timeVars, history, scan, gens, pos, held, out>>

\* Sleeps are counted as far as a property tells them apart.
OneMore(sleeps) == Smaller(sleeps + 1, Lag + 2)

Sleep ==
    /\ pc' = "sleep"
    /\ nap' = 1
    /\ slept' = IF held = {} THEN 0 ELSE OneMore(slept)
    /\ hold' = [k \in Logs |-> IF k \in held THEN OneMore(hold[k]) ELSE 0]
    /\ UNCHANGED <<gens, held, out>>

EmptyHanded ==
    /\ held = {}
    /\ \/ /\ gens = {}
          /\ pc' = "drained"
          /\ UNCHANGED <<gens, held, out, nap, slept, hold>>
       \/ /\ gens # {}
          /\ since + drift >= QuietTimeout
          /\ pc' = "gaveUp"
          /\ UNCHANGED <<gens, held, out, nap, slept, hold>>
       \/ /\ gens # {}
          /\ since + drift < QuietTimeout
          /\ Sleep

\* Mutant: a silent log is waited for however long it is silent.
MayStillSpeak_always == gens \ held # {}

\* Some log that owes a record went silent less than lag ago.
MayStillSpeak == \E k \in gens \ held : silent[k] < Lag

HoldBack == held # {} /\ MayStillSpeak /\ Sleep

Stamp(k) == log[k][pos[k]]

\* Mutant: any record in hand is released.
Oldest_any(k) == k \in held

\* Of equal timestamps either may be first (the dict's insertion order).
Oldest(k) == k \in held /\ \A j \in held : Stamp(k) <= Stamp(j)

Release ==
    /\ held # {}
    /\ ~MayStillSpeak
    /\ \E k \in held :
        /\ Oldest(k)
        /\ held' = held \ {k}
        /\ out' = Append(out, [kind |-> k, num |-> pos[k], seen |-> seen])
    /\ pc' = "handle"
    /\ slept' = 0
    /\ UNCHANGED <<gens, nap, hold>>

Decide ==
    /\ pc = "decide"
    /\ EmptyHanded \/ HoldBack \/ Release
    /\ UNCHANGED <<feedVars, silent, since, drift, scan, pos, seen>>

Wake ==
    /\ pc = "sleep"
    /\ nap = 0
    /\ pc' = "top"
    /\ UNCHANGED <<feedVars, timeVars, history, scan, gens, pos, held, out>>

\* The handler of the yielded record is done and the caller comes back.
Resume ==
    /\ pc = "handle"
    /\ pc' = "top"
    /\ UNCHANGED <<feedVars, timeVars, history, scan, gens, pos, held, out>>

\* A poll of wall time passes. The clock is next read when deciding or at the
\* top of the loop, so time that passes earlier in a loop is charged there.
Tick ==
    /\ pc \in {"decide", "sleep", "handle"}
    /\ drift < Cap \/ nap = 1
    /\ drift' = Smaller(drift + 1, Cap)
    /\ nap' = 0
    /\ UNCHANGED <<feedVars, silent, since, history,
                   pc, scan, gens, pos, held, out>>

Loop ==
    \/ TopOfLoop \/ Skip \/ TakeRecord \/ FindIdle \/ FindEnd \/ EndOfPass
    \/ Decide \/ Wake

Next == Feeder \/ Loop \/ Resume \/ Tick

Spec == Init /\ [][Next]_vars

\* The loop runs, each handler returns and time passes; the feeder may stop
\* at any point.
FairSpec == Spec /\ WF_vars(Loop) /\ WF_vars(Resume) /\ WF_vars(Tick)

-----------------------------------------------------------------------------
(* Safety.                                                                 *)

\* Type invariant. A silence (a key of quiet_since) is kept for the logs that
\* owe a record only: a new one starts from zero.
TypeOK ==
    /\ log \in [Logs -> Seq(Stamps)]
    /\ marker \in [Logs -> BOOLEAN]
    /\ killed \in BOOLEAN
    /\ pc \in {"top", "scan", "decide", "sleep", "handle"} \cup Returned
    /\ scan \in 1..(NumLogs + 1)
    /\ gens \subseteq Present
    /\ pos \in [Logs -> Nat]
    /\ held \subseteq Logs
    /\ silent \in [Logs -> Nat \cup {NotSilent}]
    /\ \A k \in Logs : silent[k] # NotSilent => k \in gens \ held
    /\ since \in Nat
    /\ drift \in Nat
    /\ nap \in {0, 1}
    /\ out \in Seq([kind : Logs, num : Nat, seen : [Logs -> Nat]])
    /\ seen \in [Logs -> Nat]
    /\ slept \in Nat
    /\ hold \in [Logs -> Nat]

OutStamp(i) == log[out[i].kind][out[i].num]

\* Two records come out against their timestamps only if the older one was not
\* on disk when its log was last looked at, or its own log put a newer record
\* before it. While every log has a record in hand the merge is in order.
InversionExplained ==
    \A i, j \in DOMAIN out :
        (i < j /\ OutStamp(i) > OutStamp(j) /\ out[i].kind # out[j].kind) =>
            \/ out[j].num > out[i].seen[out[j].kind]
            \/ \E n \in (i + 1)..(j - 1) :
                  out[n].kind = out[j].kind /\ OutStamp(n) >= OutStamp(i)

\* With a record in hand merged() never sleeps more than lag before it yields
\* something, whatever the silent logs do.
LagBoundsTheHold == slept <= Lag

\* A record is in hand for at most lag (and the poll in which it came) before
\* it is yielded: "Latency is therefore bounded by `lag`".
LatencyBoundedByLag == \A k \in held : hold[k] <= Lag + 1

-----------------------------------------------------------------------------
(* Liveness, under FairSpec.                                               *)

\* A record in hand is yielded in the end, also when the other logs never
\* speak again; and once the feeder has dropped every marker, or was killed,
\* merged() returns.
FeederOver == killed \/ \A k \in Present : marker[k]

NobodyWaitsForever ==
    /\ \A k \in Logs : k \in held ~> k \notin held
    /\ FeederOver ~> pc \in Returned

-----------------------------------------------------------------------------
(* Each log merged() opened is a channel from the feeder to the handlers.  *)

Mine(k) == {i \in DOMAIN out : out[i].kind = k}

Yielded(k) ==
    LET mine == Kept(out, Mine(k))
    IN  [m \in DOMAIN mine |-> log[k][mine[m].num]]

ReaderState(k) ==
    CASE k \notin gens -> "finished"
      [] k \in gens /\ pc = "gaveUp" -> "abandoned"
      [] OTHER -> "reading"

Channel(k) == INSTANCE LogChannel WITH
    Record <- Stamps, log <- log[k], got <- Yielded(k),
    closed <- marker[k], reader <- ReaderState(k)

\* merged() hands out the records of each log once each and in order, and
\* takes a log to be finished only when it has handed out all of it.
ImplementsChannels ==
    /\ \A k \in Present : Channel(k)!Init
    /\ [][\A k \in Present : [Channel(k)!Next]_(Channel(k)!vars)]_vars
=============================================================================
