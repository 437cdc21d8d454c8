---------------------------- MODULE MergeProofs ----------------------------
(***************************************************************************)
(* For any number of logs, any records in them and any thresholds: why     *)
(* lag bounds every silence of merged() with a record in hand, what alone  *)
(* can put two records against their timestamps, and that every log is a   *)
(* LogChannel.                                                             *)
(***************************************************************************)
EXTENDS Merge, SequenceTheorems, FiniteSetTheorems, TLAPS

-----------------------------------------------------------------------------
(* The inductive invariants.                                               *)

\* Logs that the pass under way has visited.
Visited(k) == pc = "decide" \/ (pc = "scan" /\ k < scan)

\* For how many polls log k has been silent, seen from the top of the loop that
\* comes next while this one is over.
Silence(k) == IF pc \in {"sleep", "top"} THEN silent[k] + drift + nap ELSE silent[k]

\* A log without a record in hand that has been slept for has been silent for
\* at least as long.
SleepInv ==
    /\ slept <= Lag
    /\ nap = 1 => pc = "sleep"
    /\ pc = "handle" => slept = 0
    /\ \A k \in gens \ held :
          /\ Visited(k) => silent[k] # NotSilent
          /\ slept > 0 => silent[k] # NotSilent /\ Silence(k) >= slept

\* Where the logs have been read to.
PlaceInv ==
    /\ \A k \in Logs : pos[k] <= Len(log[k])
    /\ \A k \in held : 0 < pos[k]
    /\ \A k \in gens \ held : Visited(k) => pos[k] = seen[k]
    /\ \A i \in DOMAIN out :
          0 < out[i].num /\ out[i].num <= pos[out[i].kind]

\* A record of log k, later than i, that is not older than i.
Barred(i, k) ==
    \E n \in (i + 1)..Len(out) : out[n].kind = k /\ OutStamp(n) >= OutStamp(i)

\* Why what log k still has to give will not go unexplained next to output i.
Settled(i, k) ==
    \/ Barred(i, k)
    \/ pos[k] > out[i].seen[k]
    \/ k \in held /\ Stamp(k) >= OutStamp(i)
    \/ k \notin held /\ (k \in gens => pos[k] >= out[i].seen[k])

OrderInv ==
    \A i \in DOMAIN out : \A k \in Logs \ {out[i].kind} : Settled(i, k)

MergeInv == TypeOK /\ SleepInv /\ PlaceInv /\ OrderInv /\ InversionExplained

-----------------------------------------------------------------------------
(* Types.                                                                  *)

LEMMA Constants ==
  /\ Lag \in Nat /\ QuietTimeout \in Nat /\ Cap \in Nat /\ Lag <= Cap
  /\ Present \subseteq Logs /\ Stamps \subseteq Nat /\ NumLogs \in Nat
  BY MergeAssumption DEF Cap

LEMMA SmallerType ==
  ASSUME NEW a \in Nat, NEW b \in Nat
  PROVE  Smaller(a, b) \in Nat /\ Smaller(a, b) <= b
         /\ (Smaller(a, b) = a \/ Smaller(a, b) = b)
  BY DEF Smaller

LEMMA LaterType ==
  ASSUME TypeOK, NEW age \in Nat \cup {NotSilent}
  PROVE  Later(age) \in Nat \cup {NotSilent}
<1>1. drift \in Nat /\ Cap \in Nat
  BY Constants DEF TypeOK
<1>2. CASE age = NotSilent
  BY <1>2 DEF Later
<1>3. CASE age # NotSilent
  <2>1. age + drift \in Nat
    BY <1>1, <1>3
  <2>2. Smaller(age + drift, Cap) \in Nat
    BY <1>1, <2>1, SmallerType
  <2> QED
    BY <1>3, <2>2 DEF Later
<1> QED
  BY <1>2, <1>3

LEMMA OneMoreType ==
  ASSUME NEW n \in Nat
  PROVE  OneMore(n) \in Nat /\ (n < Lag => OneMore(n) = n + 1)
<1>1. n + 1 \in Nat /\ Lag + 2 \in Nat /\ Lag \in Nat
  BY Constants
<1>2. OneMore(n) \in Nat
  BY <1>1, SmallerType DEF OneMore
<1>3. n < Lag => OneMore(n) = n + 1
  BY <1>1 DEF OneMore, Smaller
<1> QED
  BY <1>2, <1>3

LEMMA MergeInitInv == Init => MergeInv
<1> SUFFICES ASSUME Init PROVE MergeInv
  OBVIOUS
<1>1. TypeOK
  <2>1. log \in [Logs -> Seq(Stamps)]
    BY DEF Init
  <2>2. out \in Seq([kind : Logs, num : Nat, seen : [Logs -> Nat]])
    BY DEF Init
  <2>3. scan \in 1..(NumLogs + 1)
    BY Constants DEF Init
  <2> QED
    BY <2>1, <2>2, <2>3 DEF Init, TypeOK, Returned
<1>2. SleepInv
  BY Constants DEF Init, SleepInv, Visited, Silence
<1>3. PlaceInv
  BY Constants DEF Init, PlaceInv, Visited
<1>4. OrderInv /\ InversionExplained
  BY DEF Init, OrderInv, InversionExplained
<1> QED
  BY <1>1, <1>2, <1>3, <1>4 DEF MergeInv

LEMMA FeedType ==
  ASSUME TypeOK, NEW k \in Logs, Feed(k)
  PROVE  /\ TypeOK'
         /\ \A j \in Logs : /\ Len(log'[j]) >= Len(log[j])
                            /\ \A n \in 1..Len(log[j]) : log'[j][n] = log[j][n]
<1>1. PICK ts \in Stamps : log' = [log EXCEPT ![k] = Append(log[k], ts)]
  BY DEF Feed
<1>2. /\ Append(log[k], ts) \in Seq(Stamps)
      /\ Len(Append(log[k], ts)) = Len(log[k]) + 1
      /\ \A n \in 1..Len(log[k]) : Append(log[k], ts)[n] = log[k][n]
  BY DEF TypeOK
<1>3. log' \in [Logs -> Seq(Stamps)]
  BY <1>1, <1>2 DEF TypeOK
<1>4. TypeOK'
  BY <1>3 DEF Feed, TypeOK, timeVars, history, Returned
<1>5. ASSUME NEW j \in Logs
      PROVE  /\ Len(log'[j]) >= Len(log[j])
             /\ \A n \in 1..Len(log[j]) : log'[j][n] = log[j][n]
  <2>1. Len(log[j]) \in Nat
    BY DEF TypeOK
  <2>2. CASE j = k
    <3>1. log'[j] = Append(log[k], ts)
      BY <1>1, <2>2 DEF TypeOK
    <3> QED
      BY <1>2, <2>1, <2>2, <3>1
  <2>3. CASE j # k
    <3>1. log'[j] = log[j]
      BY <1>1, <2>3 DEF TypeOK
    <3> QED
      BY <2>1, <3>1
  <2> QED
    BY <2>2, <2>3
<1> QED
  BY <1>4, <1>5

LEMMA TypeStep == TypeOK /\ [Next]_vars => TypeOK'
<1> SUFFICES ASSUME TypeOK, [Next]_vars PROVE TypeOK'
  OBVIOUS
<1> USE DEF Returned, feedVars, timeVars, history
<1>1. CASE Feeder
  <2>1. ASSUME NEW k \in Logs, DropMarker(k) PROVE TypeOK'
    BY <2>1 DEF DropMarker, TypeOK
  <2>2. CASE Kill
    BY <2>2 DEF Kill, TypeOK
  <2> QED
    BY <1>1, <2>1, <2>2, FeedType DEF Feeder
<1>2. CASE TopOfLoop
  <2>1. since + drift \in Nat /\ Cap \in Nat
    BY Constants DEF TypeOK
  <2>2. Smaller(since + drift, Cap) \in Nat
    BY <2>1, SmallerType
  <2>3. \A k \in Logs : Later(silent[k]) \in Nat \cup {NotSilent}
    BY LaterType DEF TypeOK
  <2>4. 1 \in 1..(NumLogs + 1)
    BY Constants
  <2>5. \A k \in Logs : silent'[k] # NotSilent => k \in gens' \ held'
    BY <1>2 DEF TopOfLoop, TypeOK, Later
  <2>6. silent' \in [Logs -> Nat \cup {NotSilent}]
    BY <1>2, <2>3 DEF TopOfLoop, TypeOK
  <2> QED
    BY <1>2, <2>2, <2>4, <2>5, <2>6 DEF TopOfLoop, TypeOK
<1>3. CASE Advance /\ (Skip \/ TakeRecord \/ FindIdle \/ FindEnd)
  <2>1. scan \in Logs /\ scan + 1 \in 1..(NumLogs + 1) /\ scan' = scan + 1
    BY <1>3, Constants DEF Advance, Logs
  <2>2. Len(log[scan]) \in Nat /\ pos[scan] + 1 \in Nat
    BY <2>1 DEF TypeOK
  <2>3. CASE Skip
    BY <1>3, <2>1, <2>3 DEF Advance, Skip, TypeOK
  <2>4. CASE TakeRecord
    BY <1>3, <2>1, <2>2, <2>4 DEF Advance, TakeRecord, Look, TypeOK
  <2>5. CASE FindIdle
    BY <1>3, <2>1, <2>2, <2>5 DEF Advance, FindIdle, Look, TypeOK
  <2>6. CASE FindEnd
    BY <1>3, <2>1, <2>2, <2>6 DEF Advance, FindEnd, Look, TypeOK
  <2> QED
    BY <1>3, <2>3, <2>4, <2>5, <2>6
<1>4. CASE EndOfPass
  BY <1>4 DEF EndOfPass, TypeOK
<1>5. CASE Decide
  <2>1. ASSUME Sleep,
               UNCHANGED <<feedVars, silent, since, drift, scan, pos, seen>>
        PROVE  TypeOK'
    <3>1. OneMore(slept) \in Nat /\ \A k \in Logs : OneMore(hold[k]) \in Nat
      BY OneMoreType DEF TypeOK
    <3> QED
      BY <2>1, <3>1 DEF Sleep, TypeOK
  <2>2. CASE EmptyHanded
    BY <1>5, <2>1, <2>2 DEF Decide, EmptyHanded, TypeOK
  <2>3. CASE HoldBack
    BY <1>5, <2>1, <2>3 DEF Decide, HoldBack
  <2>4. CASE Release
    <3>1. \A k \in Logs : silent'[k] # NotSilent => k \in gens' \ held'
      BY <1>5, <2>4 DEF Decide, Release, TypeOK
    <3>2. out' \in Seq([kind : Logs, num : Nat, seen : [Logs -> Nat]])
      BY <1>5, <2>4 DEF Decide, Release, TypeOK
    <3> QED
      BY <1>5, <2>4, <3>1, <3>2 DEF Decide, Release, TypeOK
  <2> QED
    BY <1>5, <2>2, <2>3, <2>4 DEF Decide
<1>6. CASE Wake \/ Resume
  BY <1>6 DEF Wake, Resume, TypeOK
<1>7. CASE Tick
  <2>1. drift + 1 \in Nat /\ Cap \in Nat
    BY Constants DEF TypeOK
  <2>2. Smaller(drift + 1, Cap) \in Nat
    BY <2>1, SmallerType
  <2> QED
    BY <1>7, <2>2 DEF Tick, TypeOK
<1>8. CASE UNCHANGED vars
  BY <1>8 DEF vars, TypeOK
<1> QED
  BY <1>1, <1>2, <1>3, <1>4, <1>5, <1>6, <1>7, <1>8
     DEF Next, Loop, Skip, TakeRecord, FindIdle, FindEnd

-----------------------------------------------------------------------------
(* How long the loop sleeps with a record in hand.                         *)

\* Steps that leave alone what SleepInv speaks of.
SleepVars == <<pc, scan, gens, held, silent, drift, nap, slept>>

LEMMA SleepFrame == SleepInv /\ UNCHANGED SleepVars => SleepInv'
  BY DEF SleepInv, SleepVars, Visited, Silence

LEMMA AgeOf ==
  ASSUME TypeOK, NEW k \in Logs, silent[k] # NotSilent
  PROVE  silent[k] \in Nat /\ Later(silent[k]) \in Nat
         /\ \A n \in Nat : n <= Lag /\ silent[k] + drift >= n => Later(silent[k]) >= n
<1>1. silent[k] \in Nat /\ drift \in Nat /\ Lag \in Nat /\ Cap \in Nat /\ Lag <= Cap
  BY Constants DEF TypeOK
<1>2. silent[k] + drift \in Nat
  BY <1>1
<1> QED
  BY <1>1, <1>2 DEF Later, Smaller

LEMMA TopSleep ==
  ASSUME TypeOK, SleepInv, TopOfLoop
  PROVE  SleepInv'
<1>1. CASE gens = {} /\ held = {}
  BY <1>1 DEF TopOfLoop, SleepInv, Visited, Silence, history
<1>2. CASE ~(gens = {} /\ held = {})
  <2>1. /\ pc = "top" /\ pc' = "scan" /\ scan' = 1
        /\ silent' = [k \in Logs |-> Later(silent[k])]
        /\ UNCHANGED <<nap, slept, gens, held>>
    BY <1>2 DEF TopOfLoop, history
  <2>2. slept' <= Lag /\ (nap' = 1 => pc' = "sleep") /\ pc' # "handle"
    BY <2>1 DEF SleepInv
  <2>3. ASSUME NEW k \in gens' \ held'
        PROVE  /\ Visited(k)' => silent'[k] # NotSilent
               /\ slept' > 0 => silent'[k] # NotSilent /\ Silence(k)' >= slept'
    <3>1. k \in Logs /\ k \in gens \ held
      BY <2>1, <2>3, Constants DEF TypeOK
    <3>2. ~Visited(k)'
      BY <2>1, <3>1, Constants DEF Visited, Logs
    <3>3. ASSUME slept > 0 PROVE silent'[k] # NotSilent /\ Silence(k)' >= slept
      <4>1. silent[k] # NotSilent /\ silent[k] + drift + nap >= slept /\ nap = 0
        BY <2>1, <3>1, <3>3 DEF SleepInv, Silence, TypeOK
      <4>2. silent[k] \in Nat /\ drift \in Nat /\ slept \in Nat /\ slept <= Lag
        BY <3>1, <4>1 DEF TypeOK, SleepInv
      <4>3. silent[k] + drift >= slept
        BY <4>1, <4>2
      <4>4. silent'[k] = Later(silent[k])
        BY <2>1, <3>1
      <4>5. Later(silent[k]) \in Nat /\ Later(silent[k]) >= slept
        BY <3>1, <4>1, <4>2, <4>3, AgeOf
      <4> QED
        BY <2>1, <4>4, <4>5 DEF Silence, NotSilent
    <3> QED
      BY <2>1, <3>2, <3>3
  <2> QED
    BY <2>2, <2>3 DEF SleepInv
<1> QED
  BY <1>1, <1>2

LEMMA PassSleep ==
  ASSUME TypeOK, SleepInv, Skip \/ TakeRecord \/ FindIdle \/ FindEnd
  PROVE  SleepInv'
<1>1. /\ pc = "scan" /\ pc' = pc /\ scan \in Logs /\ scan' = scan + 1
      /\ UNCHANGED <<drift, nap, slept>>
  BY DEF Skip, TakeRecord, FindIdle, FindEnd, Advance
<1>2. gens' \subseteq gens /\ held \subseteq held'
  BY DEF Skip, TakeRecord, FindIdle, FindEnd
<1>3. ASSUME NEW k \in Logs, k # scan
      PROVE  silent'[k] = silent[k]
  BY <1>3 DEF Skip, TakeRecord, FindIdle, FindEnd, TypeOK
<1>4. ASSUME scan \in gens' \ held'
      PROVE  silent'[scan] # NotSilent
             /\ (silent[scan] # NotSilent => silent'[scan] = silent[scan])
  <2>1. FindIdle
    BY <1>4 DEF Skip, TakeRecord, FindIdle, FindEnd
  <2>2. silent'[scan] = IF silent[scan] = NotSilent THEN 0 ELSE silent[scan]
    BY <1>1, <2>1 DEF FindIdle, TypeOK
  <2> QED
    BY <2>2 DEF NotSilent
<1>5. ASSUME NEW k \in gens' \ held'
      PROVE  /\ Visited(k)' => silent'[k] # NotSilent
             /\ slept' > 0 => silent'[k] # NotSilent /\ Silence(k)' >= slept'
  <2>1. k \in Logs /\ k \in gens \ held
    BY <1>2, <1>5, Constants DEF TypeOK
  <2>2. slept > 0 => silent[k] # NotSilent /\ silent[k] >= slept
    BY <1>1, <2>1 DEF SleepInv, Silence
  <2>3. CASE k = scan
    BY <1>1, <1>4, <1>5, <2>2, <2>3 DEF Silence
  <2>4. CASE k # scan
    <3>1. Visited(k)' => Visited(k)
      BY <1>1, <2>1, <2>4 DEF Visited, Logs
    <3>2. Visited(k) => silent[k] # NotSilent
      BY <2>1 DEF SleepInv
    <3> QED
      BY <1>1, <1>3, <2>1, <2>2, <2>4, <3>1, <3>2 DEF Silence
  <2> QED
    BY <2>3, <2>4
<1>6. slept' <= Lag /\ (nap' = 1 => pc' = "sleep") /\ pc' # "handle"
  BY <1>1 DEF SleepInv
<1> QED
  BY <1>5, <1>6 DEF SleepInv

LEMMA DecideSleep ==
  ASSUME TypeOK, SleepInv, Decide
  PROVE  SleepInv'
<1>1. pc = "decide" /\ UNCHANGED <<silent, since, drift, scan, pos, seen>>
  BY DEF Decide
<1>2. \A k \in gens \ held :
         silent[k] \in Nat /\ (slept > 0 => silent[k] >= slept)
  BY <1>1, Constants DEF SleepInv, Visited, Silence, TypeOK
<1>3. nap = 0 /\ slept \in Nat /\ slept <= Lag /\ drift \in Nat /\ Lag \in Nat
  BY <1>1, Constants DEF SleepInv, TypeOK
<1>4. ASSUME Sleep, UNCHANGED <<gens, held>>, slept' \in Nat, slept' <= Lag,
             \A k \in gens \ held : silent[k] + 1 >= slept'
      PROVE  SleepInv'
  <2>1. pc' = "sleep" /\ nap' = 1
    BY <1>4 DEF Sleep
  <2>2. ASSUME NEW k \in gens \ held
        PROVE  silent[k] # NotSilent /\ silent[k] + drift + 1 >= slept'
    <3>1. silent[k] \in Nat /\ silent[k] + 1 >= slept'
      BY <1>2, <1>4
    <3> QED
      BY <1>3, <1>4, <3>1 DEF NotSilent
  <2> QED
    BY <1>1, <1>4, <2>1, <2>2 DEF SleepInv, Visited, Silence
<1>5. CASE EmptyHanded
  <2>1. CASE Sleep
    <3>1. slept' = 0 /\ UNCHANGED <<gens, held>>
      BY <1>5, <2>1 DEF EmptyHanded, Sleep
    <3>2. \A k \in gens \ held : silent[k] + 1 >= slept'
      BY <1>2, <3>1
    <3>3. slept' \in Nat /\ slept' <= Lag
      BY <1>3, <3>1
    <3> QED
      BY <1>4, <2>1, <3>1, <3>2, <3>3
  <2>2. CASE ~Sleep
    <3>1. pc' \in Returned /\ UNCHANGED <<gens, held, nap, slept>>
      BY <1>5, <2>2 DEF EmptyHanded, Returned
    <3>2. \A k \in gens \ held : silent[k] # NotSilent
      BY <1>2 DEF NotSilent
    <3> QED
      BY <1>1, <1>2, <1>3, <3>1, <3>2 DEF SleepInv, Visited, Silence, Returned
  <2> QED
    BY <2>1, <2>2
<1>6. CASE HoldBack
  <2>1. Sleep /\ held # {} /\ UNCHANGED <<gens, held>>
    BY <1>6 DEF HoldBack, Sleep
  <2>2. PICK j \in gens \ held : silent[j] < Lag
    BY <1>6 DEF HoldBack, MayStillSpeak
  <2>3. slept < Lag
    <3>1. silent[j] \in Nat /\ (slept > 0 => silent[j] >= slept)
      BY <1>2
    <3> QED
      BY <1>3, <2>2, <3>1
  <2>4. slept' = slept + 1
    BY <1>3, <2>1, <2>3, OneMoreType DEF Sleep
  <2>5. slept' \in Nat /\ slept' <= Lag
    BY <1>3, <2>3, <2>4
  <2>6. ASSUME NEW k \in gens \ held PROVE silent[k] + 1 >= slept'
    <3>1. silent[k] \in Nat /\ (slept > 0 => silent[k] >= slept)
      BY <1>2
    <3> QED
      BY <1>3, <2>4, <3>1
  <2> QED
    BY <1>4, <2>1, <2>5, <2>6
<1>7. CASE Release
  <2>1. pc' = "handle" /\ slept' = 0 /\ nap' = nap
    BY <1>7 DEF Release
  <2> QED
    BY <1>3, <2>1 DEF SleepInv, Visited
<1> QED
  BY <1>5, <1>6, <1>7 DEF Decide

LEMMA TickSleep ==
  ASSUME TypeOK, SleepInv, Tick
  PROVE  SleepInv'
<1>1. /\ pc \in {"decide", "sleep", "handle"} /\ pc' = pc
      /\ drift' = Smaller(drift + 1, Cap) /\ nap' = 0
      /\ UNCHANGED <<silent, scan, gens, held, slept>>
  BY DEF Tick, history
<1>2. /\ drift \in Nat /\ nap \in {0, 1} /\ slept \in Nat /\ slept <= Lag
      /\ Cap \in Nat /\ Lag \in Nat /\ Lag <= Cap
  BY Constants DEF TypeOK, SleepInv
<1>3. ASSUME NEW k \in gens \ held
      PROVE  /\ Visited(k) => silent[k] # NotSilent
             /\ slept > 0 => silent[k] # NotSilent /\ Silence(k)' >= slept
  <2>1. Visited(k) => silent[k] # NotSilent
    BY DEF SleepInv
  <2>2. ASSUME slept > 0 PROVE silent[k] # NotSilent /\ Silence(k)' >= slept
    <3>1. silent[k] # NotSilent /\ Silence(k) >= slept
      BY <2>2 DEF SleepInv
    <3>2. silent[k] \in Nat
      BY <3>1, Constants DEF TypeOK
    <3>3. CASE pc = "sleep"
      <4>1. silent[k] + drift + nap >= slept
        BY <3>1, <3>3 DEF Silence
      <4>2. silent[k] + drift' + nap' >= slept
        BY <1>1, <1>2, <3>2, <4>1 DEF Smaller
      <4> QED
        BY <1>1, <3>1, <3>3, <4>2 DEF Silence
    <3>4. CASE pc # "sleep"
      BY <1>1, <3>1, <3>4 DEF Silence
    <3> QED
      BY <3>3, <3>4
  <2> QED
    BY <2>1, <2>2
<1>4. slept' <= Lag /\ (nap' = 1 => pc' = "sleep") /\ (pc' = "handle" => slept' = 0)
  BY <1>1, <1>2 DEF SleepInv
<1>5. \A k \in gens' \ held' :
         /\ Visited(k)' => silent'[k] # NotSilent
         /\ slept' > 0 => silent'[k] # NotSilent /\ Silence(k)' >= slept'
  BY <1>1, <1>3 DEF Visited
<1> QED
  BY <1>4, <1>5 DEF SleepInv

LEMMA SleepStep == TypeOK /\ SleepInv /\ [Next]_vars => SleepInv'
<1> SUFFICES ASSUME TypeOK, SleepInv, [Next]_vars PROVE SleepInv'
  OBVIOUS
<1>1. CASE Feeder \/ UNCHANGED vars
  <2>1. UNCHANGED SleepVars
    BY <1>1 DEF Feeder, Kill, Feed, DropMarker, vars, timeVars, history, SleepVars
  <2> QED
    BY <2>1, SleepFrame
<1>2. CASE EndOfPass
  <2>1. /\ pc = "scan" /\ pc' = "decide" /\ scan \notin Logs
        /\ UNCHANGED <<gens, held, silent, drift, nap, slept>>
    BY <1>2 DEF EndOfPass, timeVars, history
  <2>2. \A k \in gens \ held : Visited(k)
    BY <2>1, Constants DEF Visited, TypeOK, Logs
  <2> QED
    BY <2>1, <2>2 DEF SleepInv, Visited, Silence
<1>3. CASE Wake
  <2>1. /\ pc = "sleep" /\ nap = 0 /\ pc' = "top"
        /\ UNCHANGED <<gens, held, silent, drift, nap, slept>>
    BY <1>3 DEF Wake, timeVars, history
  <2> QED
    BY <2>1 DEF SleepInv, Visited, Silence
<1>4. CASE Resume
  <2>1. /\ pc = "handle" /\ pc' = "top"
        /\ UNCHANGED <<gens, held, silent, drift, nap, slept>>
    BY <1>4 DEF Resume, timeVars, history
  <2> QED
    BY <2>1 DEF SleepInv, Visited, Silence
<1> QED
  BY <1>1, <1>2, <1>3, <1>4, TopSleep, PassSleep, DecideSleep, TickSleep
     DEF Next, Loop

-----------------------------------------------------------------------------
(* What was read, and in which order it came out.                          *)

Place == <<log, pc, scan, gens, pos, held, out, seen>>

LEMMA PlaceFrame == PlaceInv /\ UNCHANGED Place => PlaceInv'
  BY DEF PlaceInv, Place, Visited

LEMMA PlaceTypes ==
  ASSUME TypeOK
  PROVE  /\ \A k \in Logs : Len(log[k]) \in Nat /\ pos[k] \in Nat /\ seen[k] \in Nat
         /\ gens \subseteq Logs /\ held \subseteq Logs
         /\ Len(out) \in Nat /\ DOMAIN out = 1..Len(out)
         /\ \A i \in DOMAIN out : /\ out[i].kind \in Logs /\ out[i].num \in Nat
                                  /\ \A k \in Logs : out[i].seen[k] \in Nat
<1>1. \A k \in Logs : Len(log[k]) \in Nat /\ pos[k] \in Nat /\ seen[k] \in Nat
  BY DEF TypeOK
<1>2. gens \subseteq Logs /\ held \subseteq Logs
  BY Constants DEF TypeOK
<1>3. Len(out) \in Nat /\ DOMAIN out = 1..Len(out)
  BY DEF TypeOK
<1>4. \A i \in DOMAIN out : out[i] \in [kind : Logs, num : Nat, seen : [Logs -> Nat]]
  <2>1. out \in Seq([kind : Logs, num : Nat, seen : [Logs -> Nat]])
    BY DEF TypeOK
  <2> QED
    BY <1>3, <2>1, ElementOfSeq
<1>5. \A i \in DOMAIN out : /\ out[i].kind \in Logs /\ out[i].num \in Nat
                            /\ \A k \in Logs : out[i].seen[k] \in Nat
  BY <1>4
<1> QED
  BY <1>1, <1>2, <1>3, <1>5

LEMMA FeedPlace ==
  ASSUME TypeOK, PlaceInv, NEW k \in Logs, Feed(k)
  PROVE  PlaceInv'
<1>1. \A j \in Logs : Len(log'[j]) >= Len(log[j]) /\ Len(log'[j]) \in Nat
  BY FeedType, PlaceTypes DEF TypeOK
<1>2. UNCHANGED <<pc, scan, gens, pos, held, out, seen>>
  BY DEF Feed, history
<1>3. \A j \in Logs : pos[j] <= Len(log'[j])
  BY <1>1, PlaceTypes DEF PlaceInv
<1> QED
  BY <1>2, <1>3 DEF PlaceInv, Visited

LEMMA PassPlace ==
  ASSUME TypeOK, PlaceInv, Skip \/ TakeRecord \/ FindIdle \/ FindEnd
  PROVE  PlaceInv'
<1>1. /\ pc = "scan" /\ pc' = pc /\ scan \in Logs /\ scan' = scan + 1
      /\ UNCHANGED <<log, out>>
  BY DEF Skip, TakeRecord, FindIdle, FindEnd, Advance, feedVars
<1>2. gens' \subseteq gens /\ held \subseteq held' /\ held' \subseteq held \cup {scan}
  BY DEF Skip, TakeRecord, FindIdle, FindEnd
<1>3. ASSUME NEW k \in Logs, k # scan
      PROVE  pos'[k] = pos[k] /\ seen'[k] = seen[k]
  BY <1>3 DEF Skip, TakeRecord, FindIdle, FindEnd, Look, TypeOK
<1>4. CASE TakeRecord
  <2>1. scan \notin held /\ pos'[scan] = pos[scan] + 1 /\ scan \in held'
        /\ pos[scan] < Len(log[scan])
    BY <1>1, <1>4 DEF TakeRecord, TypeOK
  <2>2. pos'[scan] <= Len(log[scan]) /\ pos[scan] <= pos'[scan] /\ 0 < pos'[scan]
    BY <1>1, <2>1, PlaceTypes
  <2>3. \A k \in gens' \ held' : k # scan
    BY <2>1
  <2>4. \A k \in gens' \ held' : Visited(k)' => pos'[k] = seen'[k]
    <3> SUFFICES ASSUME NEW k \in gens' \ held', Visited(k)' PROVE pos'[k] = seen'[k]
      OBVIOUS
    <3>1. k \in gens \ held /\ k \in Logs /\ k # scan
      BY <1>2, <2>3, PlaceTypes
    <3>2. Visited(k)
      BY <1>1, <3>1 DEF Visited, Logs
    <3> QED
      BY <1>3, <3>1, <3>2 DEF PlaceInv
  <2>5. \A i \in DOMAIN out : 0 < out[i].num /\ out[i].num <= pos'[out[i].kind]
    <3> SUFFICES ASSUME NEW i \in DOMAIN out
                 PROVE  0 < out[i].num /\ out[i].num <= pos'[out[i].kind]
      OBVIOUS
    <3>1. /\ out[i].num \in Nat /\ out[i].kind \in Logs
          /\ pos[out[i].kind] \in Nat /\ 0 < out[i].num /\ out[i].num <= pos[out[i].kind]
      BY PlaceTypes DEF PlaceInv
    <3>2. pos'[scan] = pos[scan] + 1 /\ pos[scan] \in Nat
      BY <1>1, <2>1, PlaceTypes
    <3> QED
      BY <1>3, <3>1, <3>2
  <2>6. \A k \in Logs : pos'[k] <= Len(log[k])
    BY <1>3, <2>2 DEF PlaceInv
  <2>7. \A k \in held' : 0 < pos'[k]
    BY <1>2, <1>3, <2>2, PlaceTypes DEF PlaceInv
  <2> QED
    BY <1>1, <2>4, <2>5, <2>6, <2>7 DEF PlaceInv
<1>5. CASE ~TakeRecord
  <2>1. pos' = pos /\ held' = held
    BY <1>5 DEF Skip, FindIdle, FindEnd
  <2>2. scan \in gens' \ held' => pos[scan] = seen'[scan]
    BY <1>1, <1>5 DEF Skip, FindIdle, FindEnd, Look, TypeOK
  <2>3. \A k \in gens' \ held' : Visited(k)' => pos'[k] = seen'[k]
    <3> SUFFICES ASSUME NEW k \in gens' \ held', Visited(k)' PROVE pos'[k] = seen'[k]
      OBVIOUS
    <3>1. k \in gens \ held /\ k \in Logs
      BY <1>2, <2>1, PlaceTypes
    <3>2. k # scan => Visited(k)
      BY <1>1, <3>1 DEF Visited, Logs
    <3> QED
      BY <1>3, <2>1, <2>2, <3>1, <3>2 DEF PlaceInv
  <2> QED
    BY <1>1, <2>1, <2>3 DEF PlaceInv
<1> QED
  BY <1>4, <1>5

\* What a record that is yielded adds to the output.
LEMMA ReleaseEffect ==
  ASSUME TypeOK, Release, feedVars' = feedVars
  PROVE  \E k \in held :
            /\ Oldest(k)
            /\ held' = held \ {k}
            /\ Len(out') = Len(out) + 1 /\ DOMAIN out' = 1..(Len(out) + 1)
            /\ \A i \in 1..Len(out) : out'[i] = out[i] /\ OutStamp(i)' = OutStamp(i)
            /\ out'[Len(out) + 1] = [kind |-> k, num |-> pos[k], seen |-> seen]
            /\ \A i \in Nat : i = Len(out) + 1 => OutStamp(i)' = Stamp(k)
<1>1. PICK k \in held :
         /\ Oldest(k)
         /\ held' = held \ {k}
         /\ out' = Append(out, [kind |-> k, num |-> pos[k], seen |-> seen])
  BY DEF Release
<1> DEFINE rec == [kind |-> k, num |-> pos[k], seen |-> seen]
<1>2. rec \in [kind : Logs, num : Nat, seen : [Logs -> Nat]]
  BY PlaceTypes DEF TypeOK
<1>3. /\ Len(out') = Len(out) + 1 /\ DOMAIN out' = 1..(Len(out) + 1)
      /\ out'[Len(out) + 1] = rec
      /\ \A i \in 1..Len(out) : out'[i] = out[i]
  BY <1>1, <1>2 DEF TypeOK
<1>4. log' = log /\ rec.kind = k /\ rec.num = pos[k]
  BY DEF feedVars
<1>5. \A i \in Nat : i = Len(out) + 1 => OutStamp(i)' = Stamp(k)
  BY <1>3, <1>4 DEF OutStamp, Stamp
<1>6. \A i \in 1..Len(out) : OutStamp(i)' = OutStamp(i)
  BY <1>3, <1>4 DEF OutStamp
<1> QED
  BY <1>1, <1>3, <1>5, <1>6

LEMMA DecidePlace ==
  ASSUME TypeOK, PlaceInv, Decide
  PROVE  PlaceInv'
<1>1. UNCHANGED <<log, scan, pos, seen>>
  BY DEF Decide, feedVars
<1>2. CASE EmptyHanded \/ HoldBack
  <2>1. UNCHANGED <<gens, held, out>> /\ pc = "decide"
    BY <1>2 DEF Decide, EmptyHanded, HoldBack, Sleep
  <2> QED
    BY <1>1, <2>1 DEF PlaceInv, Visited
<1>3. CASE Release
  <2>1. pc' = "handle" /\ gens' = gens /\ held' \subseteq held
    BY <1>3 DEF Release
  <2>2. feedVars' = feedVars
    BY DEF Decide
  <2>3. PICK k \in held :
           /\ Len(out') = Len(out) + 1 /\ DOMAIN out' = 1..(Len(out) + 1)
           /\ \A i \in 1..Len(out) : out'[i] = out[i]
           /\ out'[Len(out) + 1] = [kind |-> k, num |-> pos[k], seen |-> seen]
    BY <1>3, <2>2, ReleaseEffect
  <2>4. ASSUME NEW i \in DOMAIN out'
        PROVE  0 < out'[i].num /\ out'[i].num <= pos[out'[i].kind]
    <3>1. CASE i \in 1..Len(out)
      BY <2>3, <3>1, PlaceTypes DEF PlaceInv
    <3>2. CASE i = Len(out) + 1
      <4>1. out'[i].num = pos[k] /\ out'[i].kind = k
        BY <2>3, <3>2
      <4> QED
        BY <4>1, PlaceTypes DEF PlaceInv
    <3> QED
      BY <2>3, <3>1, <3>2, PlaceTypes
  <2> QED
    BY <1>1, <2>1, <2>4 DEF PlaceInv, Visited
<1> QED
  BY <1>2, <1>3 DEF Decide

LEMMA PlaceStep == TypeOK /\ PlaceInv /\ [Next]_vars => PlaceInv'
<1> SUFFICES ASSUME TypeOK, PlaceInv, [Next]_vars PROVE PlaceInv'
  OBVIOUS
<1>1. CASE Kill \/ (\E k \in Logs : DropMarker(k)) \/ Tick \/ UNCHANGED vars
  <2>1. UNCHANGED Place
    BY <1>1 DEF Kill, DropMarker, Tick, vars, feedVars, history, Place
  <2> QED
    BY <2>1, PlaceFrame
<1>2. CASE TopOfLoop \/ Wake \/ Resume
  <2>1. /\ UNCHANGED <<log, gens, pos, held, out, seen>>
        /\ pc' \notin {"scan", "decide"} \/ (pc' = "scan" /\ scan' = 1)
    BY <1>2 DEF TopOfLoop, Wake, Resume, feedVars, history
  <2>2. \A k \in Logs : ~Visited(k)'
    BY <2>1, Constants DEF Visited, Logs
  <2> QED
    BY <2>1, <2>2, PlaceTypes DEF PlaceInv
<1>3. CASE EndOfPass
  <2>1. /\ UNCHANGED <<log, gens, pos, held, out, seen>>
        /\ pc = "scan" /\ scan \notin Logs
    BY <1>3 DEF EndOfPass, feedVars, history
  <2>2. \A k \in Logs : Visited(k)
    BY <2>1, Constants DEF Visited, Logs, TypeOK
  <2> QED
    BY <2>1, <2>2, PlaceTypes DEF PlaceInv
<1> QED
  BY <1>1, <1>2, <1>3, FeedPlace, PassPlace, DecidePlace DEF Next, Feeder, Loop

-----------------------------------------------------------------------------
(* Why records come out in the order they do.                              *)

\* A step that yields nothing and changes no stamp that counts keeps the order.
LEMMA OrderFrame ==
  ASSUME TypeOK, PlaceInv, OrderInv, InversionExplained, out' = out,
         \A i \in DOMAIN out : OutStamp(i)' = OutStamp(i),
         \A k \in held : Stamp(k)' = Stamp(k),
         pos' = pos, held' = held, gens' \subseteq gens
  PROVE  OrderInv' /\ InversionExplained'
<1>1. DOMAIN out = 1..Len(out) /\ Len(out) \in Nat
  BY PlaceTypes
<1>2. ASSUME NEW i \in DOMAIN out, NEW k \in Logs \ {out[i].kind}
      PROVE  Settled(i, k)'
  <2>1. Settled(i, k)
    BY <1>2 DEF OrderInv
  <2>2. Barred(i, k) => Barred(i, k)'
    BY <1>1 DEF Barred
  <2> QED
    BY <2>1, <2>2 DEF Settled
<1>3. OrderInv'
  BY <1>2 DEF OrderInv
<1>4. InversionExplained'
  <2> SUFFICES ASSUME NEW i \in DOMAIN out, NEW j \in DOMAIN out, i < j,
                      OutStamp(i) > OutStamp(j), out[i].kind # out[j].kind
               PROVE  \/ out[j].num > out[i].seen[out[j].kind]
                      \/ \E n \in (i + 1)..(j - 1) :
                            /\ out[n].kind = out[j].kind
                            /\ OutStamp(n)' >= OutStamp(i)
    BY DEF InversionExplained
  <2>1. \/ out[j].num > out[i].seen[out[j].kind]
        \/ \E n \in (i + 1)..(j - 1) :
              out[n].kind = out[j].kind /\ OutStamp(n) >= OutStamp(i)
    BY DEF InversionExplained
  <2>2. (i + 1)..(j - 1) \subseteq DOMAIN out
    BY <1>1
  <2> QED
    BY <2>1, <2>2
<1> QED
  BY <1>3, <1>4

LEMMA FeedOrder ==
  ASSUME TypeOK, PlaceInv, OrderInv, InversionExplained, NEW k \in Logs, Feed(k)
  PROVE  OrderInv' /\ InversionExplained'
<1>1. \A j \in Logs : \A n \in 1..Len(log[j]) : log'[j][n] = log[j][n]
  BY FeedType
<1>2. UNCHANGED <<gens, pos, held, out>>
  BY DEF Feed
<1>3. \A j \in held : pos[j] \in 1..Len(log[j])
  BY PlaceTypes DEF PlaceInv
<1>4. \A i \in DOMAIN out : out[i].num \in 1..Len(log[out[i].kind])
  <2> TAKE i \in DOMAIN out
  <2>1. out[i].kind \in Logs /\ out[i].num \in Nat
    BY PlaceTypes
  <2>2. /\ 0 < out[i].num /\ out[i].num <= pos[out[i].kind]
        /\ pos[out[i].kind] <= Len(log[out[i].kind])
    BY <2>1 DEF PlaceInv
  <2> QED
    BY <2>1, <2>2, PlaceTypes
<1>5. \A i \in DOMAIN out : OutStamp(i)' = OutStamp(i)
  BY <1>1, <1>2, <1>4, PlaceTypes DEF OutStamp
<1>6. \A j \in held : Stamp(j)' = Stamp(j)
  BY <1>1, <1>2, <1>3, PlaceTypes DEF Stamp
<1> QED
  BY <1>2, <1>5, <1>6, OrderFrame

LEMMA TakeOrder ==
  ASSUME TypeOK, PlaceInv, OrderInv, InversionExplained, TakeRecord
  PROVE  OrderInv' /\ InversionExplained'
<1>1. /\ UNCHANGED <<log, out, gens>>
      /\ scan \in Logs /\ scan \in gens /\ scan \notin held
      /\ held' = held \cup {scan} /\ pos' = [pos EXCEPT ![scan] = pos[scan] + 1]
  BY DEF TakeRecord, Advance, feedVars
<1>2. DOMAIN out = 1..Len(out) /\ Len(out) \in Nat
  BY PlaceTypes
<1>3. \A i \in DOMAIN out : OutStamp(i)' = OutStamp(i)
  BY <1>1 DEF OutStamp
<1>4. ASSUME NEW i \in DOMAIN out, NEW k \in Logs \ {out[i].kind}
      PROVE  Settled(i, k)'
  <2>1. Settled(i, k)
    BY <1>4 DEF OrderInv
  <2>2. Barred(i, k) => Barred(i, k)'
    BY <1>1, <1>2, <1>3 DEF Barred
  <2>3. pos[k] \in Nat /\ out[i].seen[k] \in Nat
    BY PlaceTypes
  <2>4. CASE k = scan
    <3>1. pos'[k] = pos[k] + 1
      BY <1>1, <2>4 DEF TypeOK
    <3>2. Barred(i, k) \/ pos[k] >= out[i].seen[k]
      BY <1>1, <2>1, <2>3, <2>4 DEF Settled
    <3>3. Barred(i, k)' \/ pos'[k] > out[i].seen[k]
      BY <2>2, <2>3, <3>1, <3>2
    <3> QED
      BY <1>1, <3>3 DEF Settled
  <2>5. CASE k # scan
    <3>1. pos'[k] = pos[k] /\ (k \in held' <=> k \in held)
      BY <1>1, <2>5 DEF TypeOK
    <3>2. Stamp(k)' = Stamp(k)
      BY <1>1, <3>1 DEF Stamp
    <3> QED
      BY <1>1, <1>3, <2>1, <2>2, <3>1, <3>2 DEF Settled
  <2> QED
    BY <2>4, <2>5
<1>5. OrderInv'
  BY <1>1, <1>4 DEF OrderInv
<1>6. InversionExplained'
  <2>1. log' = log /\ out' = out
    BY <1>1
  <2> QED
    BY <2>1 DEF InversionExplained, OutStamp
<1> QED
  BY <1>5, <1>6

LEMMA ReleaseOrder ==
  ASSUME TypeOK, PlaceInv, OrderInv, InversionExplained, Decide, Release
  PROVE  OrderInv' /\ InversionExplained'
<1>1. feedVars' = feedVars /\ log' = log /\ pc = "decide"
      /\ UNCHANGED <<gens, pos, seen>>
  BY DEF Decide, Release, feedVars
<1>2. PICK k \in held :
         /\ Oldest(k)
         /\ held' = held \ {k}
         /\ Len(out') = Len(out) + 1 /\ DOMAIN out' = 1..(Len(out) + 1)
         /\ \A i \in 1..Len(out) : out'[i] = out[i] /\ OutStamp(i)' = OutStamp(i)
         /\ out'[Len(out) + 1] = [kind |-> k, num |-> pos[k], seen |-> seen]
         /\ \A i \in Nat : i = Len(out) + 1 => OutStamp(i)' = Stamp(k)
  BY <1>1, ReleaseEffect
<1>3. DOMAIN out = 1..Len(out) /\ Len(out) \in Nat /\ k \in Logs
  BY PlaceTypes
<1> DEFINE new == Len(out) + 1
<1>4. new \in Nat /\ new \notin DOMAIN out /\ DOMAIN out' = DOMAIN out \cup {new}
  BY <1>2, <1>3
<1>5. /\ out'[new].kind = k /\ out'[new].num = pos[k] /\ out'[new].seen = seen
      /\ \A n \in Nat : n = new => OutStamp(n)' = Stamp(k)
  BY <1>2
<1>6. \A i \in DOMAIN out : i \in Nat /\ i < new
  BY <1>3
<1>7. Stamp(k) \in Nat /\ \A j \in held : Stamp(j) \in Nat
  <2>1. \A j \in held : pos[j] \in 1..Len(log[j]) /\ log[j] \in Seq(Stamps)
    BY PlaceTypes DEF PlaceInv, TypeOK
  <2>2. \A j \in held : Stamp(j) \in Stamps
    BY <2>1, ElementOfSeq DEF Stamp
  <2> QED
    BY <2>2, Constants
<1> HIDE DEF new
<1>8. \A i \in DOMAIN out, j \in Logs : Barred(i, j) => Barred(i, j)'
  <2> SUFFICES ASSUME NEW i \in DOMAIN out, NEW j \in Logs,
                      NEW n \in (i + 1)..Len(out), out[n].kind = j,
                      OutStamp(n) >= OutStamp(i)
               PROVE  Barred(i, j)'
    BY DEF Barred
  <2>1. n \in DOMAIN out /\ n \in (i + 1)..Len(out') /\ i \in 1..Len(out)
    BY <1>2, <1>3
  <2>2. out'[n].kind = j /\ OutStamp(n)' >= OutStamp(i)'
    BY <1>2, <1>3, <2>1
  <2> QED
    BY <2>1, <2>2 DEF Barred
\* The outputs before the new one.
<1>9. ASSUME NEW i \in DOMAIN out, NEW j \in Logs \ {out[i].kind}
      PROVE  Settled(i, j)'
  <2>1. Settled(i, j) /\ (Barred(i, j) => Barred(i, j)') /\ out'[i] = out[i]
        /\ OutStamp(i)' = OutStamp(i)
    BY <1>2, <1>3, <1>8, <1>9 DEF OrderInv
  <2>2. CASE j = k
    <3>1. CASE Stamp(k) >= OutStamp(i)
      <4>1. new \in (i + 1)..Len(out')
        BY <1>2, <1>3, <1>4, <1>6 DEF new
      <4>2. \E n \in (i + 1)..Len(out') :
               out'[n].kind = j /\ OutStamp(n)' >= OutStamp(i)'
        <5>1. PICK n \in Nat : n = new
          BY <1>4
        <5>2. OutStamp(n)' = Stamp(k)
          BY <1>5, <5>1
        <5> QED
          BY <1>5, <2>1, <2>2, <3>1, <4>1, <5>1, <5>2
      <4> QED
        BY <4>2 DEF Barred, Settled
    <3>2. CASE ~(Stamp(k) >= OutStamp(i))
      <4>1. Barred(i, j) \/ pos[j] > out[i].seen[j]
        BY <1>2, <2>1, <2>2, <3>2 DEF Settled
      <4> QED
        BY <1>1, <2>1, <4>1 DEF Settled
    <3> QED
      BY <3>1, <3>2
  <2>3. CASE j # k
    <3>1. (j \in held' <=> j \in held) /\ Stamp(j)' = Stamp(j)
      BY <1>1, <1>2, <2>3 DEF Stamp
    <3> QED
      BY <1>1, <2>1, <3>1 DEF Settled
  <2> QED
    BY <2>2, <2>3
\* The new one was the oldest in hand, and the other logs had been looked at.
<1>10. ASSUME NEW j \in Logs \ {k}, NEW i \in Nat, i = new
       PROVE  Settled(i, j)'
  <2>1. out'[i].seen[j] = seen[j] /\ OutStamp(i)' = Stamp(k)
    BY <1>5, <1>10
  <2>2. CASE j \in held
    <3>1. j \in held' /\ Stamp(j)' = Stamp(j) /\ Stamp(j) >= Stamp(k)
      BY <1>1, <1>2, <1>7, <2>2 DEF Oldest, Stamp
    <3> QED
      BY <2>1, <3>1 DEF Settled
  <2>3. CASE j \notin held
    <3>1. j \in gens => pos[j] >= seen[j]
      BY <1>1, <2>3, PlaceTypes DEF PlaceInv, Visited
    <3> QED
      BY <1>1, <1>2, <2>1, <2>3, <3>1 DEF Settled
  <2> QED
    BY <2>2, <2>3
<1>11. OrderInv'
  <2> SUFFICES ASSUME NEW i \in DOMAIN out', NEW j \in Logs \ {out'[i].kind}
               PROVE  Settled(i, j)'
    BY DEF OrderInv
  <2>1. CASE i \in DOMAIN out
    BY <1>2, <1>3, <1>9, <2>1
  <2>2. CASE i = new
    BY <1>4, <1>5, <1>10, <2>2
  <2> QED
    BY <1>4, <2>1, <2>2
<1>12. InversionExplained'
  <2> SUFFICES ASSUME NEW i \in DOMAIN out', NEW j \in DOMAIN out', i < j,
                      OutStamp(i)' > OutStamp(j)', out'[i].kind # out'[j].kind
               PROVE  \/ out'[j].num > out'[i].seen[out'[j].kind]
                      \/ \E n \in (i + 1)..(j - 1) :
                            /\ out'[n].kind = out'[j].kind
                            /\ OutStamp(n)' >= OutStamp(i)'
    BY DEF InversionExplained
  <2>1. CASE j \in DOMAIN out
    <3>1. i \in DOMAIN out /\ (i + 1)..(j - 1) \subseteq DOMAIN out
      BY <1>2, <1>3, <2>1
    <3>2. /\ out'[i] = out[i] /\ out'[j] = out[j]
          /\ OutStamp(i)' = OutStamp(i) /\ OutStamp(j)' = OutStamp(j)
      BY <1>2, <1>3, <2>1, <3>1
    <3>3. \/ out[j].num > out[i].seen[out[j].kind]
          \/ \E n \in (i + 1)..(j - 1) :
                out[n].kind = out[j].kind /\ OutStamp(n) >= OutStamp(i)
      BY <2>1, <3>1, <3>2 DEF InversionExplained
    <3>4. \A n \in (i + 1)..(j - 1) :
             out'[n] = out[n] /\ OutStamp(n)' = OutStamp(n)
      BY <1>2, <1>3, <3>1
    <3> QED
      BY <3>2, <3>3, <3>4
  <2>2. CASE j = new
    <3>1. i \in DOMAIN out /\ j \in Nat
      BY <1>4, <1>6, <2>2
    <3>2. /\ out'[i] = out[i] /\ OutStamp(i)' = OutStamp(i)
          /\ out'[j].kind = k /\ out'[j].num = pos[k] /\ OutStamp(j)' = Stamp(k)
      BY <1>2, <1>3, <1>5, <2>2, <3>1
    <3>3. OutStamp(i) \in Nat
      <4>1. /\ out[i].kind \in Logs /\ out[i].num \in Nat /\ 0 < out[i].num
            /\ out[i].num <= pos[out[i].kind]
            /\ pos[out[i].kind] <= Len(log[out[i].kind])
        BY <3>1, PlaceTypes DEF PlaceInv
      <4>2. out[i].num \in 1..Len(log[out[i].kind])
        <5>1. pos[out[i].kind] \in Nat /\ Len(log[out[i].kind]) \in Nat
          BY <4>1, PlaceTypes
        <5> QED
          BY <4>1, <5>1
      <4>3. OutStamp(i) \in Stamps
        <5>1. log[out[i].kind] \in Seq(Stamps)
          BY <4>1 DEF TypeOK
        <5> QED
          BY <4>2, <5>1, ElementOfSeq DEF OutStamp
      <4> QED
        BY <4>3, Constants
    <3>4. Settled(i, k) /\ ~(Stamp(k) >= OutStamp(i))
      BY <1>3, <1>7, <3>1, <3>2, <3>3 DEF OrderInv
    <3>5. Barred(i, k) \/ pos[k] > out[i].seen[k]
      BY <3>4 DEF Settled
    <3>6. CASE Barred(i, k)
      <4>1. PICK n \in (i + 1)..Len(out) :
               out[n].kind = k /\ OutStamp(n) >= OutStamp(i)
        BY <3>6 DEF Barred
      <4>2. n \in (i + 1)..(j - 1) /\ n \in DOMAIN out
        BY <1>3, <2>2, <3>1 DEF new
      <4>3. out'[n].kind = k /\ OutStamp(n)' >= OutStamp(i)'
        BY <1>2, <1>3, <3>2, <4>1, <4>2
      <4> QED
        BY <3>2, <4>2, <4>3
    <3> QED
      BY <3>2, <3>5, <3>6
  <2> QED
    BY <1>4, <2>1, <2>2
<1> QED
  BY <1>11, <1>12

LEMMA OrderStep ==
  TypeOK /\ PlaceInv /\ OrderInv /\ InversionExplained /\ [Next]_vars =>
    OrderInv' /\ InversionExplained'
<1> SUFFICES ASSUME TypeOK, PlaceInv, OrderInv, InversionExplained, [Next]_vars
             PROVE  OrderInv' /\ InversionExplained'
  OBVIOUS
<1>1. CASE \E k \in Logs : Feed(k)
  BY <1>1, FeedOrder
<1>2. CASE TakeRecord
  BY <1>2, TakeOrder
<1>3. CASE Decide /\ Release
  BY <1>3, ReleaseOrder
<1>4. CASE /\ ~(\E k \in Logs : Feed(k)) /\ ~TakeRecord /\ ~(Decide /\ Release)
  <2>1. UNCHANGED <<log, pos, held, out>> /\ gens' \subseteq gens
    BY <1>4 DEF Next, Feeder, Kill, DropMarker, Loop, TopOfLoop, Skip, FindIdle,
       FindEnd, Advance, EndOfPass, Decide, EmptyHanded, HoldBack, Sleep, Wake,
       Resume, Tick, vars, feedVars, history
  <2>2. (\A i \in DOMAIN out : OutStamp(i)' = OutStamp(i))
        /\ \A k \in held : Stamp(k)' = Stamp(k)
    BY <2>1 DEF OutStamp, Stamp
  <2> QED
    BY <2>1, <2>2, OrderFrame
<1> QED
  BY <1>1, <1>2, <1>3, <1>4

-----------------------------------------------------------------------------
(* Each log is a channel.                                                  *)

\* Records of log k that were yielded: all that were taken, but the one in hand.
Given(k) == IF k \in held THEN pos[k] - 1 ELSE pos[k]

\* The records of a log come out in the order in which they are in it.
YieldInv ==
    /\ held \subseteq gens
    /\ \A k \in Logs :
          /\ Cardinality(Mine(k)) = Given(k)
          /\ \A i \in Mine(k) : out[i].num = Rank(Mine(k), i)
          /\ \A m \in 1..Given(k) :
                \E i \in Mine(k) : out[i].num = m

LEMMA InitYield == Init => YieldInv
<1> SUFFICES ASSUME Init PROVE YieldInv
  OBVIOUS
<1>1. /\ held = {} /\ out = <<>> /\ Len(out) = 0 /\ DOMAIN out = {}
      /\ \A k \in Logs : pos[k] = 0
  BY DEF Init
<1>2. \A k \in Logs : Mine(k) = {}
  BY <1>1 DEF Mine
<1>3. \A k \in Logs : Given(k) = 0 /\ 1..Given(k) = {}
  BY <1>1 DEF Given
<1>4. \A k \in Logs : Cardinality(Mine(k)) = Given(k)
  BY <1>2, <1>3, FS_EmptySet
<1> QED
  BY <1>1, <1>2, <1>3, <1>4 DEF YieldInv

LEMMA YieldFrame ==
  ASSUME YieldInv, UNCHANGED <<pos, held, out>>, held' \subseteq gens'
  PROVE  YieldInv'
<1>1. \A k \in Logs : Given(k)' = Given(k)
  BY DEF Given
<1>2. \A k \in Logs : Mine(k)' = Mine(k)
  BY DEF Mine
<1> QED
  BY <1>1, <1>2 DEF YieldInv

LEMMA TakeYield ==
  ASSUME TypeOK, YieldInv, TakeRecord
  PROVE  YieldInv'
<1>1. /\ scan \in Logs /\ scan \in gens /\ scan \notin held
      /\ held' = held \cup {scan} /\ pos' = [pos EXCEPT ![scan] = pos[scan] + 1]
      /\ UNCHANGED <<gens, out>>
  BY DEF TakeRecord, Advance
<1>2. ASSUME NEW k \in Logs
      PROVE  Given(k)' = Given(k)
  <2>1. CASE k = scan
    <3>1. pos'[k] = pos[k] + 1 /\ pos[k] \in Nat /\ k \in held' /\ k \notin held
      BY <1>1, <2>1 DEF TypeOK
    <3> QED
      BY <3>1 DEF Given
  <2>2. CASE k # scan
    <3>1. pos'[k] = pos[k] /\ (k \in held' <=> k \in held)
      BY <1>1, <2>2 DEF TypeOK
    <3> QED
      BY <3>1 DEF Given
  <2> QED
    BY <2>1, <2>2
<1>3. \A k \in Logs : Mine(k)' = Mine(k)
  BY <1>1 DEF Mine
<1> QED
  BY <1>1, <1>2, <1>3 DEF YieldInv

\* The record yielded is the next one of its log.
LEMMA ReleaseGives ==
  ASSUME TypeOK, PlaceInv, YieldInv, Decide, Release
  PROVE  \E k \in held :
            /\ Given(k) = pos[k] - 1 /\ Given(k)' = Given(k) + 1
            /\ \A j \in Logs \ {k} : Given(j)' = Given(j)
            /\ YieldInv'
<1>1. feedVars' = feedVars /\ UNCHANGED <<gens, pos>>
  BY DEF Decide, Release
<1>2. PICK k \in held :
         /\ held' = held \ {k}
         /\ Len(out') = Len(out) + 1 /\ DOMAIN out' = 1..(Len(out) + 1)
         /\ \A i \in 1..Len(out) : out'[i] = out[i]
         /\ out'[Len(out) + 1] = [kind |-> k, num |-> pos[k], seen |-> seen]
  BY <1>1, ReleaseEffect
<1>3. /\ DOMAIN out = 1..Len(out) /\ Len(out) \in Nat /\ k \in Logs
      /\ \A j \in Logs : pos[j] \in Nat
      /\ 0 < pos[k]
  BY PlaceTypes DEF PlaceInv
<1>4. Given(k) = pos[k] - 1 /\ Given(k)' = pos[k] /\ Given(k)' = Given(k) + 1
      /\ Given(k) \in Nat
  BY <1>1, <1>2, <1>3 DEF Given
<1>5. \A j \in Logs \ {k} : Given(j)' = Given(j)
  BY <1>1, <1>2 DEF Given
<1>6. PICK new \in Nat : new = Len(out) + 1
  BY <1>3
<1>7. \A j \in Logs : Mine(j)' = Mine(j) \cup (IF j = k THEN {new} ELSE {})
  <2>1. out'[new].kind = k /\ DOMAIN out' = DOMAIN out \cup {new}
    BY <1>2, <1>3, <1>6
  <2> QED
    BY <1>2, <1>3, <2>1 DEF Mine
<1>8. ASSUME NEW j \in Logs
      PROVE  /\ IsFiniteSet(Mine(j)) /\ new \notin Mine(j)
             /\ \A i \in Mine(j) : i \in DOMAIN out /\ i \in Nat /\ i < new
  <2>1. IsFiniteSet(1..Len(out))
    BY <1>3, FS_Interval
  <2>2. Mine(j) \in SUBSET (1..Len(out))
    BY <1>3 DEF Mine
  <2> QED
    BY <1>3, <1>6, <2>1, <2>2, FS_Subset
<1>9. ASSUME NEW j \in Logs, NEW i \in Mine(j)
      PROVE  Rank(Mine(j)', i) = Rank(Mine(j), i)
  <2>1. \A n \in Mine(j)' : n <= i => n \in Mine(j)
    BY <1>7, <1>8
  <2> QED
    BY <1>7, <2>1 DEF Rank
<1>10. Cardinality(Mine(k)') = Given(k)' /\ Rank(Mine(k)', new) = Given(k)'
  <2>1. Cardinality(Mine(k)) = Given(k)
    BY <1>3 DEF YieldInv
  <2>2. Cardinality(Mine(k)') = Given(k) + 1
    BY <1>3, <1>7, <1>8, <2>1, FS_AddElement
  <2>3. {n \in Mine(k)' : n <= new} = Mine(k)'
    BY <1>3, <1>7, <1>8
  <2> QED
    BY <1>4, <2>2, <2>3 DEF Rank
<1>11. YieldInv'
  <2> SUFFICES ASSUME NEW j \in Logs
               PROVE  /\ Cardinality(Mine(j)') = Given(j)'
                      /\ \A i \in Mine(j)' : out'[i].num = Rank(Mine(j)', i)
                      /\ \A m \in 1..Given(j)' :
                            \E i \in Mine(j)' : out'[i].num = m
    BY <1>1, <1>2 DEF YieldInv
  <2>1. Cardinality(Mine(j)') = Given(j)'
    BY <1>5, <1>7, <1>10 DEF YieldInv
  <2>2. ASSUME NEW i \in Mine(j)'
        PROVE  out'[i].num = Rank(Mine(j)', i)
    <3>1. CASE i \in Mine(j)
      BY <1>2, <1>3, <1>8, <1>9, <3>1 DEF YieldInv
    <3>2. CASE i = new /\ j = k
      <4>1. out'[i].num = pos[k]
        BY <1>2, <1>6, <3>2
      <4> QED
        BY <1>4, <1>10, <3>2, <4>1
    <3> QED
      BY <1>7, <3>1, <3>2
  <2>3. ASSUME NEW m \in 1..Given(j)'
        PROVE  \E i \in Mine(j)' : out'[i].num = m
    <3>1. CASE m \in 1..Given(j)
      <4>1. PICK i \in Mine(j) : out[i].num = m
        BY <3>1 DEF YieldInv
      <4>2. out'[i] = out[i] /\ i \in Mine(j)'
        BY <1>2, <1>3, <1>7, <1>8
      <4> QED
        BY <4>1, <4>2
    <3>2. CASE m \notin 1..Given(j)
      <4>1. j = k /\ m = pos[k]
        BY <1>4, <1>5, <3>2
      <4>2. new \in Mine(k)' /\ out'[new].num = pos[k]
        BY <1>2, <1>3, <1>6, <1>7
      <4> QED
        BY <4>1, <4>2
    <3> QED
      BY <3>1, <3>2
  <2> QED
    BY <2>1, <2>2, <2>3
<1> QED
  BY <1>4, <1>5, <1>11

LEMMA YieldStep == TypeOK /\ PlaceInv /\ YieldInv /\ [Next]_vars => YieldInv'
<1> SUFFICES ASSUME TypeOK, PlaceInv, YieldInv, [Next]_vars PROVE YieldInv'
  OBVIOUS
<1>1. CASE TakeRecord
  BY <1>1, TakeYield
<1>2. CASE Decide /\ Release
  BY <1>2, ReleaseGives
<1>3. CASE ~TakeRecord /\ ~(Decide /\ Release)
  <2>1. UNCHANGED <<pos, held, out>> /\ (gens' = gens \/ FindEnd)
    BY <1>3 DEF Next, Feeder, Feed, Kill, DropMarker, Loop, TopOfLoop, Skip, FindIdle,
       Advance, FindEnd, EndOfPass, Decide, EmptyHanded, HoldBack, Sleep, Wake,
       Resume, Tick, vars, feedVars, history
  <2>2. held' \subseteq gens'
    BY <2>1 DEF FindEnd, YieldInv
  <2> QED
    BY <2>1, <2>2, YieldFrame
<1> QED
  BY <1>1, <1>2, <1>3

\* What was yielded of a log is its beginning.
LEMMA YieldedIsPrefix ==
  ASSUME TypeOK, PlaceInv, YieldInv, NEW k \in Logs
  PROVE  /\ Given(k) \in Nat /\ Given(k) <= pos[k] /\ pos[k] <= Len(log[k])
         /\ Yielded(k) = [m \in 1..Given(k) |-> log[k][m]]
<1>1. pos[k] \in Nat /\ pos[k] <= Len(log[k]) /\ (k \in held => 0 < pos[k])
  BY PlaceTypes DEF PlaceInv
<1>2. Given(k) \in Nat /\ Given(k) <= pos[k]
  BY <1>1 DEF Given
<1>3. Cardinality(Mine(k)) = Given(k)
  BY DEF YieldInv
<1>4. ASSUME NEW m \in 1..Given(k)
      PROVE  out[Nth(Mine(k), m)].num = m
  <2>1. PICK i \in Mine(k) : out[i].num = m
    BY DEF YieldInv
  <2>2. Rank(Mine(k), i) = m
    BY <2>1 DEF YieldInv
  <2>3. Nth(Mine(k), m) \in Mine(k) /\ Rank(Mine(k), Nth(Mine(k), m)) = m
    BY <2>1, <2>2 DEF Nth
  <2> QED
    BY <2>3 DEF YieldInv
<1>5. Kept(out, Mine(k)) = [m \in 1..Given(k) |-> out[Nth(Mine(k), m)]]
  BY <1>3 DEF Kept
<1> QED
  BY <1>1, <1>2, <1>4, <1>5 DEF Yielded

PrefixYielded ==
    TypeOK /\ PlaceInv /\ YieldInv =>
        \A k \in Logs : Yielded(k) = [m \in 1..Given(k) |-> log[k][m]]

LEMMA PrefixNext == PrefixYielded /\ PrefixYielded'
<1>1. PrefixYielded
  BY YieldedIsPrefix DEF PrefixYielded
<1> QED
  BY <1>1, PTL

-----------------------------------------------------------------------------
(* A step of the merge is a step of each of its channels, or none.         *)

LEMMA ChannelsInit == Init => \A k \in Present : Channel(k)!Init
<1> SUFFICES ASSUME Init, NEW k \in Present PROVE Channel(k)!Init
  OBVIOUS
<1>1. k \in Logs /\ log[k] = <<>> /\ marker[k] = FALSE /\ k \in gens /\ pc = "top"
  BY Constants DEF Init
<1>2. TypeOK /\ PlaceInv /\ YieldInv /\ Given(k) = 0
  BY <1>1, MergeInitInv, InitYield DEF MergeInv, Init, Given
<1>3. Yielded(k) = <<>>
  <2>1. Yielded(k) = [m \in 1..0 |-> log[k][m]]
    BY <1>1, <1>2, YieldedIsPrefix
  <2> QED
    BY <2>1
<1>4. ReaderState(k) = "reading"
  BY <1>1 DEF ReaderState
<1> QED
  BY <1>1, <1>3, <1>4 DEF Channel!Init

\* The reader's side, when no record of the log is yielded.
LEMMA ReaderMoves ==
  ASSUME TypeOK, YieldInv, [Next]_vars, NEW k \in Present
  PROVE  \/ ReaderState(k)' = ReaderState(k)
         \/ /\ ReaderState(k) = "reading"
            /\ UNCHANGED <<log, marker, out>>
            /\ \/ ReaderState(k)' = "abandoned"
               \/ /\ ReaderState(k)' = "finished"
                  /\ marker[k] /\ k \notin held /\ pos[k] = Len(log[k])
<1>1. CASE FindEnd
  <2>1. gens' = gens \ {scan} /\ pc = "scan" /\ pc' = pc
        /\ UNCHANGED <<log, marker, out>>
    BY <1>1 DEF FindEnd, Advance, feedVars
  <2>2. scan \notin held /\ marker[scan] /\ pos[scan] = Len(log[scan])
    BY <1>1 DEF FindEnd
  <2> QED
    BY <2>1, <2>2 DEF ReaderState
<1>2. CASE Decide
  <2>1. gens' = gens /\ UNCHANGED <<log, marker>>
        /\ pc = "decide" /\ (pc' = "gaveUp" => out' = out)
    BY <1>2 DEF Decide, EmptyHanded, HoldBack, Release, Sleep, feedVars
  <2> QED
    BY <2>1 DEF ReaderState
<1>3. CASE ~FindEnd /\ ~Decide
  <2>1. gens' = gens /\ (pc' = "gaveUp" <=> pc = "gaveUp")
    BY <1>3 DEF Next, Feeder, Feed, Kill, DropMarker, Loop, TopOfLoop, Skip,
       TakeRecord, FindIdle, Advance, EndOfPass, Wake, Resume, Tick, vars, Returned
  <2> QED
    BY <2>1 DEF ReaderState
<1> QED
  BY <1>1, <1>2, <1>3

\* Steps other than a yield leave what was yielded of a log as it is.
LEMMA YieldedStays ==
  ASSUME TypeOK, PlaceInv, YieldInv, [Next]_vars, NEW k \in Logs,
         Given(k)' = Given(k)
  PROVE  Yielded(k)' = Yielded(k)
<1>1. TypeOK' /\ PlaceInv' /\ YieldInv'
  BY TypeStep, PlaceStep, YieldStep
<1>2. \A m \in 1..Len(log[k]) : log'[k][m] = log[k][m]
  <2>1. CASE \E j \in Logs : Feed(j)
    BY <2>1, FeedType
  <2>2. CASE ~(\E j \in Logs : Feed(j))
    <3>1. log' = log
      BY <2>2 DEF Next, Feeder, Kill, DropMarker, Loop, TopOfLoop, Skip,
         TakeRecord, FindIdle, FindEnd, Advance, EndOfPass, Decide, Wake, Resume,
         Tick, vars, feedVars
    <3> QED
      BY <3>1
  <2> QED
    BY <2>1, <2>2
<1>3. /\ Given(k) \in Nat /\ Given(k) <= pos[k] /\ pos[k] <= Len(log[k])
      /\ Yielded(k) = [m \in 1..Given(k) |-> log[k][m]]
  BY YieldedIsPrefix
<1>4. Yielded(k)' = [m \in 1..Given(k)' |-> log'[k][m]]
  BY <1>1, PrefixNext DEF PrefixYielded
<1>5. 1..Given(k) \subseteq 1..Len(log[k])
  BY <1>3, PlaceTypes
<1> QED
  BY <1>2, <1>3, <1>4, <1>5

LEMMA FeederChannel ==
  ASSUME TypeOK, PlaceInv, YieldInv, NEW j \in Logs, Feed(j) \/ DropMarker(j),
         NEW k \in Present
  PROVE  [Channel(k)!Next]_(Channel(k)!vars)
<1>1. k \in Logs /\ UNCHANGED <<pos, held, gens, pc, out>>
  BY Constants DEF Feed, DropMarker
<1>2. ReaderState(k)' = ReaderState(k)
  BY <1>1 DEF ReaderState
<1>3. Yielded(k)' = Yielded(k)
  <2>1. Given(k)' = Given(k)
    BY <1>1 DEF Given
  <2>2. Next
    BY DEF Next, Feeder
  <2> QED
    BY <1>1, <2>1, <2>2, YieldedStays
<1>4. CASE Feed(j)
  <2>1. PICK ts \in Stamps : log' = [log EXCEPT ![j] = Append(log[j], ts)]
    BY <1>4 DEF Feed
  <2>2. ~marker[j] /\ marker' = marker
    BY <1>4 DEF Feed
  <2>3. CASE j = k
    <3>1. log'[k] = Append(log[k], ts)
      BY <1>1, <2>1, <2>3 DEF TypeOK
    <3>2. Channel(k)!Publish
      BY <1>2, <1>3, <2>2, <2>3, <3>1 DEF Channel!Publish
    <3> QED
      BY <3>2 DEF Channel!Next
  <2>4. CASE j # k
    <3>1. log'[k] = log[k]
      BY <1>1, <2>1, <2>4 DEF TypeOK
    <3> QED
      BY <1>2, <1>3, <2>2, <3>1 DEF Channel!vars
  <2> QED
    BY <2>3, <2>4
<1>5. CASE DropMarker(j)
  <2>1. marker' = [marker EXCEPT ![j] = TRUE] /\ log' = log
    BY <1>5 DEF DropMarker
  <2>2. CASE j = k
    <3>1. marker'[k] = TRUE
      BY <1>1, <2>1, <2>2 DEF TypeOK
    <3>2. Channel(k)!Close
      BY <1>2, <1>3, <2>1, <3>1 DEF Channel!Close
    <3> QED
      BY <3>2 DEF Channel!Next
  <2>3. CASE j # k
    <3>1. marker'[k] = marker[k]
      BY <1>1, <2>1, <2>3 DEF TypeOK
    <3> QED
      BY <1>2, <1>3, <2>1, <3>1 DEF Channel!vars
  <2> QED
    BY <2>2, <2>3
<1> QED
  BY <1>4, <1>5

LEMMA YieldChannel ==
  ASSUME TypeOK, PlaceInv, YieldInv, Decide, Release, NEW k \in Present
  PROVE  [Channel(k)!Next]_(Channel(k)!vars)
<1>1. /\ k \in Logs /\ Next
      /\ UNCHANGED <<log, marker, gens, pos>> /\ pc = "decide" /\ pc' = "handle"
  BY Constants DEF Decide, Release, feedVars, Next, Loop
<1>2. ReaderState(k)' = ReaderState(k)
  BY <1>1 DEF ReaderState
<1>3. PICK j \in held :
         /\ Given(j) = pos[j] - 1 /\ Given(j)' = Given(j) + 1
         /\ \A i \in Logs \ {j} : Given(i)' = Given(i)
         /\ YieldInv'
  BY ReleaseGives
<1>4. CASE j = k
  <2>1. TypeOK' /\ PlaceInv'
    BY <1>1, TypeStep, PlaceStep
  <2>2. /\ Given(k) \in Nat /\ pos[k] \in Nat /\ pos[k] <= Len(log[k])
        /\ Yielded(k) = [m \in 1..Given(k) |-> log[k][m]]
    BY <1>1, YieldedIsPrefix, PlaceTypes
  <2>3. Yielded(k)' = [m \in 1..(Given(k) + 1) |-> log[k][m]]
    BY <1>1, <1>3, <1>4, <2>1, PrefixNext DEF PrefixYielded
  <2>4. Len(Yielded(k)) = Given(k) /\ Len(log[k]) \in Nat
    BY <1>1, <2>2, PlaceTypes
  <2>5. Yielded(k)' = Append(Yielded(k), log[k][Given(k) + 1])
    BY <2>2, <2>3
  <2>6. Len(Yielded(k)) < Len(log[k])
    BY <1>3, <1>4, <2>2, <2>4
  <2>7. ReaderState(k) = "reading"
    BY <1>1, <1>3, <1>4 DEF ReaderState, YieldInv
  <2>8. Channel(k)!Take
    BY <1>1, <1>2, <2>4, <2>5, <2>6, <2>7 DEF Channel!Take
  <2> QED
    BY <2>8 DEF Channel!Next
<1>5. CASE j # k
  <2>1. Yielded(k)' = Yielded(k)
    BY <1>1, <1>3, <1>5, YieldedStays
  <2> QED
    BY <1>1, <1>2, <2>1 DEF Channel!vars
<1> QED
  BY <1>4, <1>5

LEMMA ChannelStep ==
  ASSUME TypeOK, PlaceInv, YieldInv, [Next]_vars, NEW k \in Present
  PROVE  [Channel(k)!Next]_(Channel(k)!vars)
<1>1. CASE (\E j \in Logs : Feed(j) \/ DropMarker(j)) \/ (Decide /\ Release)
  BY <1>1, FeederChannel, YieldChannel
<1>2. CASE /\ ~(\E j \in Logs : Feed(j) \/ DropMarker(j))
           /\ ~(Decide /\ Release)
  <2>1. k \in Logs
    BY Constants
  <2>2. UNCHANGED <<log, marker, out>>
        /\ (UNCHANGED <<pos, held>> \/ TakeRecord)
    BY <1>2 DEF Next, Feeder, Kill, Loop, TopOfLoop, Skip, TakeRecord, FindIdle,
       Advance, FindEnd, EndOfPass, Decide, EmptyHanded, HoldBack, Sleep, Wake,
       Resume, Tick, vars, feedVars, history
  <2>3. Given(k)' = Given(k)
    <3>1. CASE UNCHANGED <<pos, held>>
      BY <3>1 DEF Given
    <3>2. CASE TakeRecord
      <4>1. scan \in Logs \ held /\ held' = held \cup {scan}
            /\ pos' = [pos EXCEPT ![scan] = pos[scan] + 1]
        BY <3>2 DEF TakeRecord, Advance
      <4>2. pos[scan] \in Nat /\ pos'[scan] = pos[scan] + 1
            /\ (k # scan => pos'[k] = pos[k])
        BY <2>1, <4>1 DEF TypeOK
      <4> QED
        BY <4>1, <4>2 DEF Given
    <3> QED
      BY <2>2, <3>1, <3>2
  <2>4. Yielded(k)' = Yielded(k)
    BY <2>1, <2>3, YieldedStays
  <2>5. CASE ReaderState(k)' = ReaderState(k)
    BY <2>2, <2>4, <2>5 DEF Channel!vars
  <2>6. CASE ReaderState(k) = "reading" /\ ReaderState(k)' = "abandoned"
    BY <2>2, <2>4, <2>6 DEF Channel!Next, Channel!Abandon
  <2>7. CASE /\ ReaderState(k) = "reading" /\ ReaderState(k)' = "finished"
             /\ marker[k] /\ k \notin held /\ pos[k] = Len(log[k])
    <3>1. Yielded(k) = [m \in 1..Len(log[k]) |-> log[k][m]]
      BY <2>1, <2>7, YieldedIsPrefix DEF Given
    <3>2. Yielded(k) = log[k]
      BY <2>1, <3>1 DEF TypeOK
    <3> QED
      BY <2>2, <2>4, <2>7, <3>2 DEF Channel!Next, Channel!Finish
  <2> QED
    BY <2>5, <2>6, <2>7, ReaderMoves
<1> QED
  BY <1>1, <1>2

-----------------------------------------------------------------------------
(* The theorems.                                                           *)

LEMMA MergeStep == MergeInv /\ [Next]_vars => MergeInv'
  BY TypeStep, SleepStep, PlaceStep, OrderStep DEF MergeInv

LEMMA MergeCorrect == Spec => []MergeInv
  BY MergeInitInv, MergeStep, PTL DEF Spec

\* The loop's variables keep their types (merged()).
THEOREM MergeTypeCorrect == Spec => []TypeOK
<1>1. MergeInv => TypeOK
  BY DEF MergeInv
<1> QED
  BY <1>1, MergeCorrect, PTL

\* With a record in hand merged() never sleeps more than lag before it yields
\* something: a log that has been slept for has been silent for as long.
THEOREM LagBoundsTheHoldCorrect == Spec => []LagBoundsTheHold
<1>1. MergeInv => LagBoundsTheHold
  BY DEF MergeInv, SleepInv, LagBoundsTheHold
<1> QED
  BY <1>1, MergeCorrect, PTL

\* Two records come out against their timestamps only if the older one was not
\* on disk when its log was last looked at, or stood behind a newer one in it
\* (the choice of the smallest timestamp among the records in hand).
THEOREM InversionExplainedCorrect == Spec => []InversionExplained
<1>1. MergeInv => InversionExplained
  BY DEF MergeInv
<1> QED
  BY <1>1, MergeCorrect, PTL

\* Each log that merged() opened is a channel: its records come out once each
\* and in order, and it is finished only when all of it has been handed out.
THEOREM ChannelsCorrect == Spec => ImplementsChannels
<1> DEFINE Inv == TypeOK /\ PlaceInv /\ YieldInv
           Step == \A k \in Present : [Channel(k)!Next]_(Channel(k)!vars)
<1>1. Init => Inv /\ \A k \in Present : Channel(k)!Init
  BY MergeInitInv, InitYield, ChannelsInit DEF MergeInv
<1>2. Inv /\ [Next]_vars => Inv'
  BY TypeStep, PlaceStep, YieldStep
<1>3. Inv /\ [Next]_vars => Step
  BY ChannelStep
<1>4. Inv /\ [Next]_vars => [Step]_vars
  BY <1>3
<1> HIDE DEF Inv, Step
<1>5. Spec => (\A k \in Present : Channel(k)!Init) /\ [][Step]_vars
  BY <1>1, <1>2, <1>4, PTL DEF Spec
<1> QED
  BY <1>5 DEF ImplementsChannels, Step
=============================================================================
