-------------------------- MODULE LogFollowerProofs --------------------------
(***************************************************************************)
(* For every value of the constants: what follow() yields is in file order *)
(* and free of repeats, a split line costs at most itself, the end         *)
(* follow() reports after the marker is the end of the log, and so it      *)
(* implements LogChannel.                                                  *)
(***************************************************************************)
EXTENDS LogFollower, SequenceTheorems, FiniteSetTheorems, TLAPS

\* follow() never runs past the complete lines, and it starts from nothing.
PosInv ==
    /\ pos <= Len(lines)
    /\ start <= pos
    /\ pc \in {"exists", "absentMarker", "open"} => ~opened
    /\ pc \in {"read", "marker", "reread", "quiet"} => opened
    /\ ~opened => pos = 0 /\ start = 0 /\ ate = "none" /\ delivered = <<>>

\* A line on disk in part, or consumed in part, is one the writer tore.
TornInv ==
    /\ half # "none" => Len(lines) + 1 \in torn
    /\ ate # "none" => pos + 1 \in torn

\* What was yielded lies behind the position, except a record whose newline
\* is still to come.
BehindInv ==
    \A i \in DOMAIN delivered :
        delivered[i] <= pos \/ (delivered[i] = pos + 1 /\ ate # "none")

\* The marker comes after the last flush, and only a reader that saw it is at
\* the second readline.
MarkerInv ==
    /\ marker => half = "none"
    /\ pc = "reread" => marker

\* follow() sleeps for an absent log only while the timeout is not over.
WaitInv == pc = "napping" /\ ~opened /\ TimeoutSet => waited < call.timeout

IInv ==
    /\ TypeOK /\ WaitInv /\ PosInv /\ TornInv /\ BehindInv /\ MarkerInv
    /\ OnceInOrder /\ UntornDelivered /\ FinishedReadAll

-----------------------------------------------------------------------------

LEMMA InitIInv == Init => IInv
<1> SUFFICES ASSUME Init PROVE IInv
  OBVIOUS
<1> USE FollowerAssumption DEF Init
<1>1. TypeOK
  <2>1. lines \in Seq(Kinds) /\ delivered \in Seq(Nat)
    OBVIOUS
  <2>2. waited \in 0..(IF TimeoutSet THEN call.timeout ELSE 0)
    <3>1. call.timeout \in Nat \cup {-1}
      BY DEF NoTimeout
    <3> QED
      BY <3>1 DEF TimeoutSet, NoTimeout
  <2> QED
    BY <2>1, <2>2 DEF TypeOK, Fragment, PcValue, Terminal, NotQuiet
<1>2. Len(lines) = 0 /\ DOMAIN delivered = {}
  OBVIOUS
<1>3. WaitInv /\ PosInv /\ TornInv /\ BehindInv /\ MarkerInv
  BY <1>2 DEF WaitInv, PosInv, TornInv, BehindInv, MarkerInv
<1>4. OnceInOrder /\ UntornDelivered /\ FinishedReadAll
  BY <1>2 DEF OnceInOrder, UntornDelivered, FinishedReadAll
<1> QED
  BY <1>1, <1>3, <1>4 DEF IInv

\* Every step keeps the types.
LEMMA StepType ==
  TypeOK /\ PosInv /\ WaitInv /\ [Next]_vars => TypeOK' /\ WaitInv'
<1> SUFFICES ASSUME TypeOK, PosInv, WaitInv, [Next]_vars PROVE TypeOK' /\ WaitInv'
  OBVIOUS
<1> USE FollowerAssumption
    DEF TypeOK, WaitInv, TimeoutSet, NoTimeout, Kinds, Fragment, PcValue, Terminal, NotQuiet, fileVars,
        readVars, timeVars
<1>0. call.timeout \in Nat \cup {-1} /\ waited \in Nat
  OBVIOUS
<1>1. CASE Writer
  <2>1. CASE Create \/ DropMarker
    BY <2>1 DEF Create, DropMarker
  <2>2. CASE WriteLine
    BY <2>2 DEF WriteLine
  <2>3. CASE TearLine
    <3>1. Len(lines) + 1 \in Nat
      OBVIOUS
    <3>2. torn' \subseteq Nat
      BY <2>3, <3>1 DEF TearLine
    <3>3. half' \in Fragment
      BY <2>3 DEF TearLine
    <3> QED
      BY <2>3, <3>2, <3>3 DEF TearLine
  <2>4. CASE CompleteLine
    BY <2>4 DEF CompleteLine
  <2> QED
    BY <1>1, <2>1, <2>2, <2>3, <2>4 DEF Writer
<1>2. CASE Follower
  <2>1. CASE CheckExists \/ ReadNothing \/ CheckMarker \/ ReReadNothing
    BY <2>1 DEF CheckExists, ReadNothing, CheckMarker, ReReadNothing
  <2>2. CASE CheckAbsent
    <3>1. WaitInv'
      <4>1. CASE ~(call.timeout # NoTimeout /\ waited >= call.timeout)
        BY <1>0, <2>2, <4>1 DEF CheckAbsent, Pause
      <4>2. CASE pc' \in {"absent", "timedout"}
        BY <4>2
      <4> QED
        BY <2>2, <4>1, <4>2 DEF CheckAbsent
    <3>2. TypeOK'
      BY <2>2 DEF CheckAbsent, Pause
    <3> QED
      BY <3>1, <3>2
  <2>6. CASE CheckQuiet
    BY <2>6 DEF CheckQuiet, Pause, PosInv
  <2>3. CASE OpenLog
    BY <2>3 DEF OpenLog
  <2>4. CASE ReadLine \/ ReReadLine
    <3>1. Consume /\ quiet' \in Nat \cup {NotQuiet}
      BY <2>4 DEF ReadLine, ReReadLine
    <3> QED
      BY <3>1 DEF Consume
  <2>5. CASE Wake
    BY <2>5 DEF Wake, LoopTop
  <2> QED
    BY <1>2, <2>1, <2>2, <2>3, <2>4, <2>5, <2>6 DEF Follower
<1>3. CASE Resume
  BY <1>3 DEF Resume, LoopTop
<1>4. CASE Tick
  BY <1>4 DEF Tick
<1>5. CASE UNCHANGED vars
  BY <1>5 DEF vars
<1> QED
  BY <1>1, <1>2, <1>3, <1>4, <1>5 DEF Next

LEMMA WriterExtends ==
  ASSUME lines \in Seq(Kinds), Writer
  PROVE  /\ Len(lines) <= Len(lines')
         /\ \A n \in 1..Len(lines) : lines'[n] = lines[n]
<1>1. CASE lines' = lines
  BY <1>1
<1>2. CASE \E kind \in Kinds : lines' = Append(lines, kind)
  <2>1. PICK kind \in Kinds : lines' = Append(lines, kind)
    BY <1>2
  <2>2. Len(lines) \in Nat
    OBVIOUS
  <2> QED
    BY <2>1, <2>2, AppendProperties
<1> QED
  BY <1>1, <1>2
  DEF Writer, Create, WriteLine, TearLine, CompleteLine, DropMarker, Kinds

\* The writer only extends the file beyond what follow() has consumed, and
\* writes nothing once the marker is there.
LEMMA StepWriter == IInv /\ Writer => IInv'
<1> SUFFICES ASSUME IInv, Writer PROVE IInv'
  OBVIOUS
<1>1. TypeOK' /\ WaitInv'
  BY StepType DEF IInv, Next
<1> USE DEF IInv, TypeOK, PosInv, TornInv, BehindInv, MarkerInv, OnceInOrder,
            UntornDelivered, FinishedReadAll, WasDelivered, Kinds, Fragment,
            readVars, timeVars
<1>2. /\ UNCHANGED <<readVars, timeVars, pc>>
      /\ torn \subseteq torn'
      /\ marker => UNCHANGED <<lines, half, marker>>
  BY DEF Writer, Create, WriteLine, TearLine, CompleteLine, DropMarker
<1>3. /\ Len(lines) <= Len(lines')
      /\ \A n \in 1..Len(lines) : lines'[n] = lines[n]
  BY WriterExtends
<1>4. PosInv' /\ BehindInv' /\ OnceInOrder' /\ FinishedReadAll'
  BY <1>1, <1>2, <1>3
<1>5. UntornDelivered'
  BY <1>1, <1>2, <1>3
<1>6. TornInv' /\ MarkerInv'
  <2>1. CASE UNCHANGED <<lines, half>>
    BY <1>2, <2>1 DEF Writer, Create, WriteLine, TearLine, CompleteLine, DropMarker
  <2>2. CASE half' = "none"
    BY <1>2, <2>2
  <2>3. CASE TearLine
    BY <1>2, <2>3 DEF TearLine
  <2> QED
    BY <2>1, <2>2, <2>3
    DEF Writer, Create, WriteLine, TearLine, CompleteLine, DropMarker
<1> QED
  BY <1>1, <1>4, <1>5, <1>6

\* One readline that returns text, at either of the two places.
LEMMA ConsumeIInv ==
  ASSUME IInv, TypeOK', Readable, Consume, opened
  PROVE  PosInv' /\ TornInv' /\ BehindInv' /\ MarkerInv' /\ OnceInOrder'
         /\ UntornDelivered' /\ FinishedReadAll'
<1> USE DEF IInv, TypeOK, PosInv, TornInv, BehindInv, MarkerInv, OnceInOrder,
            UntornDelivered, FinishedReadAll, WasDelivered, Kinds, Fragment,
            Consume, Readable, fileVars
<1>1. pos' \in {pos, pos + 1} /\ pos' <= Len(lines) /\ pos <= pos'
  OBVIOUS
<1>2. PosInv' /\ TornInv' /\ MarkerInv' /\ FinishedReadAll'
  BY <1>1
<1>3. CASE ParsesAsRecord
  <2>1. ate = "none"
    BY <1>3 DEF ParsesAsRecord
  <2>2. /\ Len(delivered') = Len(delivered) + 1
        /\ delivered'[Len(delivered) + 1] = pos + 1
        /\ \A i \in 1..Len(delivered) : delivered'[i] = delivered[i]
    BY <1>3, AppendProperties
  <2>3. \A i \in 1..Len(delivered) : delivered[i] <= pos
    BY <2>1
  <2>4. BehindInv'
    BY <1>3, <2>2, <2>3
  <2>5. OnceInOrder'
    BY <2>2, <2>3
  <2>6. UntornDelivered'
    <3> SUFFICES ASSUME NEW n \in (start + 1)..pos', lines[n] = "rec", n \notin torn
                 PROVE  \E i \in DOMAIN delivered' : delivered'[i] = n
      OBVIOUS
    <3>1. CASE n = pos + 1
      BY <2>2, <3>1
    <3>2. CASE n # pos + 1
      <4>1. n \in (start + 1)..pos
        BY <1>1, <3>2
      <4>2. PICK i \in DOMAIN delivered : delivered[i] = n
        BY <4>1
      <4>3. i \in DOMAIN delivered' /\ delivered'[i] = n
        BY <2>2, <4>2
      <4> QED
        BY <4>3
    <3> QED
      BY <3>1, <3>2
  <2> QED
    BY <1>2, <2>4, <2>5, <2>6
<1>4. CASE ~ParsesAsRecord
  <2>1. delivered' = delivered
    BY <1>4
  <2>2. BehindInv' /\ OnceInOrder'
    BY <2>1, <1>1
  <2>3. UntornDelivered'
    BY <2>1, <1>1, <1>4 DEF ParsesAsRecord
  <2> QED
    BY <1>2, <2>2, <2>3
<1> QED
  BY <1>3, <1>4

LEMMA StepFollower == IInv /\ Follower => IInv'
<1> SUFFICES ASSUME IInv, Follower PROVE IInv'
  OBVIOUS
<1>1. TypeOK' /\ WaitInv'
  BY StepType DEF IInv, Next
<1>4. CASE ReadLine \/ ReReadLine
  <2>1. Readable /\ Consume
    BY <1>4 DEF ReadLine, ReReadLine
  <2>2. opened
    BY <1>4 DEF ReadLine, ReReadLine, IInv, PosInv
  <2> QED
    BY <1>1, <2>1, <2>2, ConsumeIInv DEF IInv
<1> USE DEF IInv, PosInv, TornInv, BehindInv, MarkerInv, OnceInOrder,
            UntornDelivered, FinishedReadAll, WasDelivered, fileVars, readVars,
            timeVars
<1>2. CASE CheckExists \/ CheckAbsent
  BY <1>1, <1>2 DEF CheckExists, CheckAbsent, Pause
<1>3. CASE OpenLog
  BY <1>1, <1>3 DEF OpenLog, TypeOK, Fragment
<1>5. CASE ReadNothing \/ CheckMarker
  BY <1>1, <1>5 DEF ReadNothing, CheckMarker, MarkerSeen
<1>6. CASE ReReadNothing
  BY <1>1, <1>6 DEF ReReadNothing, Readable, TypeOK
<1>7. CASE CheckQuiet
  BY <1>1, <1>7 DEF CheckQuiet, Pause
<1>8. CASE Wake
  BY <1>1, <1>8 DEF Wake, LoopTop
<1> QED
  BY <1>2, <1>3, <1>4, <1>5, <1>6, <1>7, <1>8 DEF Follower

LEMMA StepIInv == IInv /\ [Next]_vars => IInv'
<1> SUFFICES ASSUME IInv, [Next]_vars PROVE IInv'
  OBVIOUS
<1>1. TypeOK' /\ WaitInv'
  BY StepType DEF IInv
<1> USE DEF IInv, PosInv, TornInv, BehindInv, MarkerInv, OnceInOrder,
            UntornDelivered, FinishedReadAll, WasDelivered, fileVars, readVars,
            timeVars
<1>2. CASE Writer
  BY <1>2, StepWriter
<1>3. CASE Follower
  BY <1>3, StepFollower
<1>4. CASE Resume
  BY <1>1, <1>4 DEF Resume, LoopTop
<1>5. CASE Tick
  BY <1>1, <1>5 DEF Tick
<1>6. CASE UNCHANGED vars
  BY <1>1, <1>6 DEF vars
<1> QED
  BY <1>2, <1>3, <1>4, <1>5, <1>6 DEF Next

LEMMA IInvCorrect == Spec => []IInv
  BY InitIInv, StepIInv, PTL DEF Spec

-----------------------------------------------------------------------------

\* The variables of follow() and of the files it reads keep their types.
THEOREM TypeCorrect == Spec => []TypeOK
<1>1. IInv => TypeOK
  BY DEF IInv
<1> QED
  BY <1>1, IInvCorrect, PTL

\* follow() yields records in file order, none of them twice.
THEOREM OnceInOrderCorrect == Spec => []OnceInOrder
<1>1. IInv => OnceInOrder
  BY DEF IInv
<1> QED
  BY <1>1, IInvCorrect, PTL

\* Every record written in one piece and read past was yielded, whatever
\* other lines the writer split.
THEOREM UntornDeliveredCorrect == Spec => []UntornDelivered
<1>1. IInv => UntornDelivered
  BY DEF IInv
<1> QED
  BY <1>1, IInvCorrect, PTL

\* When follow() reports the end after seeing the marker, it has read the
\* whole log: the second readline closes the race with the last line.
THEOREM FinishedReadAllCorrect == Spec => []FinishedReadAll
<1>1. IInv => FinishedReadAll
  BY DEF IInv
<1> QED
  BY <1>1, IInvCorrect, PTL

-----------------------------------------------------------------------------
(* Sets of numbers in order.                                               *)

\* Every rank up to the size of S is taken.
Ranked(S) == \A m \in 1..Cardinality(S) : \E n \in S : Rank(S, n) = m

LEMMA RankOrder ==
  ASSUME NEW S \in SUBSET Nat, IsFiniteSet(S), NEW a \in S, NEW b \in S
  PROVE  /\ Rank(S, a) \in Nat /\ Rank(S, a) <= Cardinality(S)
         /\ a < b => Rank(S, a) < Rank(S, b)
         /\ Rank(S, a) = Rank(S, b) => a = b
<1>1. \A n \in S : /\ IsFiniteSet({i \in S : i <= n}) /\ Rank(S, n) \in Nat
                   /\ Rank(S, n) <= Cardinality(S)
  <2>1. \A n \in S : {i \in S : i <= n} \in SUBSET S
    OBVIOUS
  <2> QED
    BY <2>1, FS_Subset, FS_CardinalityType DEF Rank
<1>2. ASSUME NEW x \in S, NEW y \in S, x < y
      PROVE  Rank(S, x) < Rank(S, y)
  <2> DEFINE X == {i \in S : i <= x}
             Y == {i \in S : i <= y}
  <2>1. x \in Nat /\ y \in Nat
    OBVIOUS
  <2>2. IsFiniteSet(X) /\ IsFiniteSet(Y) /\ Cardinality(X) \in Nat
    BY <1>1, FS_CardinalityType
  <2>3. y \notin X /\ X \cup {y} \subseteq Y
    <3>1. y \notin X /\ y \in Y
      BY <1>2, <2>1
    <3>2. \A i \in X : i \in Y
      <4>1. \A i \in S : i \in Nat /\ (i <= x => i <= y)
        BY <1>2, <2>1
      <4> QED
        BY <4>1
    <3> QED
      BY <3>1, <3>2
  <2>4. Cardinality(X \cup {y}) = Cardinality(X) + 1
    BY <2>2, <2>3, FS_AddElement
  <2>5. Cardinality(X \cup {y}) <= Cardinality(Y)
    BY <2>2, <2>3, FS_Subset
  <2>6. Cardinality(Y) \in Nat
    BY <2>2, FS_CardinalityType
  <2>7. Cardinality(X) < Cardinality(Y)
    BY <2>2, <2>4, <2>5, <2>6
  <2> QED
    BY <2>7 DEF Rank
<1>3. Rank(S, a) = Rank(S, b) => a = b
  <2>1. a \in Nat /\ b \in Nat /\ Rank(S, a) \in Nat /\ Rank(S, b) \in Nat
    BY <1>1
  <2>2. a < b => Rank(S, a) < Rank(S, b)
    BY <1>2
  <2>3. b < a => Rank(S, b) < Rank(S, a)
    BY <1>2
  <2> QED
    BY <2>1, <2>2, <2>3
<1> QED
  BY <1>1, <1>2, <1>3

LEMMA NthOf ==
  ASSUME NEW S \in SUBSET Nat, IsFiniteSet(S), NEW n \in S
  PROVE  Nth(S, Rank(S, n)) = n
<1>1. /\ Nth(S, Rank(S, n)) \in S
      /\ Rank(S, Nth(S, Rank(S, n))) = Rank(S, n)
  BY DEF Nth
<1> QED
  BY <1>1, RankOrder

\* Members up to p keep their ranks when those above are left out.
LEMMA RankedPrefix ==
  ASSUME NEW S \in SUBSET Nat, IsFiniteSet(S), Ranked(S), NEW P \in SUBSET S,
         \A a \in P, b \in S : b <= a => b \in P
  PROVE  /\ IsFiniteSet(P) /\ Ranked(P)
         /\ Cardinality(P) <= Cardinality(S)
         /\ Cardinality(P) \in Nat /\ Cardinality(S) \in Nat
         /\ \A m \in 1..Cardinality(P) : Nth(P, m) = Nth(S, m) /\ Nth(P, m) \in P
<1>1. /\ IsFiniteSet(P) /\ Cardinality(P) <= Cardinality(S)
      /\ Cardinality(P) \in Nat /\ Cardinality(S) \in Nat /\ P \in SUBSET Nat
  BY FS_Subset, FS_CardinalityType
<1>2. \A n \in P : Rank(P, n) = Rank(S, n)
  <2>1. \A n \in P : {i \in P : i <= n} = {i \in S : i <= n}
    OBVIOUS
  <2> QED
    BY <2>1 DEF Rank
<1>3. ASSUME NEW m \in 1..Cardinality(P)
      PROVE  \E n \in P : Rank(P, n) = m
  <2>1. m \in 1..Cardinality(S) /\ m \in Nat
    BY <1>1
  <2>2. PICK n \in S : Rank(S, n) = m
    BY <2>1 DEF Ranked
  <2>3. CASE n \in P
    BY <1>2, <2>2, <2>3
  <2>4. CASE n \notin P
    <3>1. \A a \in P : a <= n
      <4> TAKE a \in P
      <4>1. a \in Nat /\ n \in Nat /\ ~(n <= a)
        BY <2>4
      <4> QED
        BY <4>1
    <3>2. P \cup {n} \subseteq {i \in S : i <= n}
      <4>1. n \in Nat
        BY <2>2
      <4> QED
        BY <3>1, <4>1
    <3>3. IsFiniteSet({i \in S : i <= n})
      <4>1. {i \in S : i <= n} \in SUBSET S
        OBVIOUS
      <4> QED
        BY <4>1, FS_Subset
    <3>4. Cardinality(P \cup {n}) = Cardinality(P) + 1
      BY <1>1, <2>4, FS_AddElement
    <3>5. Cardinality(P \cup {n}) <= Cardinality({i \in S : i <= n})
      BY <3>2, <3>3, FS_Subset
    <3>6. Cardinality(P) + 1 <= Rank(S, n)
      BY <3>4, <3>5 DEF Rank
    <3> QED
      BY <1>1, <2>1, <2>2, <3>6
  <2> QED
    BY <2>3, <2>4
<1>4. Ranked(P)
  BY <1>3 DEF Ranked
<1>5. ASSUME NEW m \in 1..Cardinality(P)
      PROVE  Nth(P, m) = Nth(S, m) /\ Nth(P, m) \in P
  <2>1. PICK n \in P : Rank(P, n) = m
    BY <1>3
  <2>2. n \in S /\ Rank(S, n) = m
    BY <1>2, <2>1
  <2>3. Nth(P, m) = n
    BY <1>1, <2>1, NthOf
  <2>4. Nth(S, m) = n
    BY <2>2, NthOf
  <2> QED
    BY <2>3, <2>4
<1> QED
  BY <1>1, <1>4, <1>5

\* A number above all others comes last.
LEMMA RankedAdd ==
  ASSUME NEW S \in SUBSET Nat, IsFiniteSet(S), Ranked(S), NEW x \in Nat,
         \A n \in S : n < x
  PROVE  /\ IsFiniteSet(S \cup {x}) /\ Ranked(S \cup {x})
         /\ Cardinality(S) \in Nat
         /\ Cardinality(S \cup {x}) = Cardinality(S) + 1
         /\ Nth(S \cup {x}, Cardinality(S) + 1) = x
         /\ \A m \in 1..Cardinality(S) :
               Nth(S \cup {x}, m) = Nth(S, m) /\ Nth(S, m) \in S
<1> DEFINE T == S \cup {x}
<1>1. /\ Cardinality(S) \in Nat /\ T \in SUBSET Nat /\ IsFiniteSet(T)
      /\ Cardinality(T) = Cardinality(S) + 1
  <2>1. x \notin S
    OBVIOUS
  <2> QED
    BY <2>1, FS_AddElement, FS_CardinalityType
<1>2. Rank(T, x) = Cardinality(S) + 1
  <2>1. \A i \in T : i \in Nat /\ i <= x
    OBVIOUS
  <2>2. {i \in T : i <= x} = T
    BY <2>1
  <2> QED
    BY <1>1, <2>2 DEF Rank
<1>3. \A n \in S : Rank(T, n) = Rank(S, n)
  <2>1. \A n \in S : {i \in T : i <= n} = {i \in S : i <= n}
    OBVIOUS
  <2> QED
    BY <2>1 DEF Rank
<1>4. Ranked(T)
  <2> SUFFICES ASSUME NEW m \in 1..Cardinality(T) PROVE \E n \in T : Rank(T, n) = m
    BY DEF Ranked
  <2>1. CASE m = Cardinality(S) + 1
    BY <1>2, <2>1
  <2>2. CASE m \in 1..Cardinality(S)
    BY <1>3, <2>2 DEF Ranked
  <2> QED
    BY <1>1, <2>1, <2>2
<1>5. \A a \in S, b \in T : b <= a => b \in S
  OBVIOUS
<1>6. \A m \in 1..Cardinality(S) : Nth(T, m) = Nth(S, m) /\ Nth(S, m) \in S
  <2>1. S \in SUBSET T
    OBVIOUS
  <2> QED
    BY <1>1, <1>4, <1>5, <2>1, RankedPrefix
<1>7. Nth(T, Cardinality(S) + 1) = x
  BY <1>1, <1>2, NthOf
<1> QED
  BY <1>1, <1>4, <1>6, <1>7

LEMMA AscendingAdd ==
  ASSUME NEW S \in SUBSET Nat, IsFiniteSet(S), Ranked(S), NEW x \in Nat,
         \A n \in S : n < x
  PROVE  /\ Ascending(S) \in Seq(S) /\ Len(Ascending(S)) = Cardinality(S)
         /\ Ascending(S \cup {x}) = Append(Ascending(S), x)
<1>1. /\ Cardinality(S) \in Nat /\ Cardinality(S \cup {x}) = Cardinality(S) + 1
      /\ Nth(S \cup {x}, Cardinality(S) + 1) = x
      /\ \A m \in 1..Cardinality(S) :
            Nth(S \cup {x}, m) = Nth(S, m) /\ Nth(S, m) \in S
  BY RankedAdd
<1>2. Ascending(S) \in Seq(S) /\ Len(Ascending(S)) = Cardinality(S)
  BY <1>1 DEF Ascending
<1>3. Ascending(S \cup {x}) =
         [m \in 1..(Cardinality(S) + 1) |-> Nth(S \cup {x}, m)]
  BY <1>1 DEF Ascending
<1>4. Append(Ascending(S), x) =
         [m \in 1..(Cardinality(S) + 1) |->
            IF m = Cardinality(S) + 1 THEN x ELSE Nth(S, m)]
  BY <1>1 DEF Ascending
<1>5. ASSUME NEW m \in 1..(Cardinality(S) + 1)
      PROVE  Nth(S \cup {x}, m) = IF m = Cardinality(S) + 1 THEN x ELSE Nth(S, m)
  BY <1>1
<1> QED
  BY <1>2, <1>3, <1>4, <1>5

\* A sequence that grows by a position that is kept.
LEMMA KeptAdd ==
  ASSUME NEW s \in Seq(Nat), NEW v \in Nat, NEW S \in SUBSET DOMAIN s, Ranked(S)
  PROVE  /\ S \in SUBSET Nat /\ IsFiniteSet(S)
         /\ Kept(Append(s, v), S) = Kept(s, S)
         /\ Ranked(S \cup {Len(s) + 1})
         /\ Kept(Append(s, v), S \cup {Len(s) + 1}) = Append(Kept(s, S), v)
<1> DEFINE x == Len(s) + 1
           t == Append(s, v)
<1>1. /\ Len(s) \in Nat /\ DOMAIN s = 1..Len(s) /\ x \in Nat /\ t[x] = v
      /\ \A i \in DOMAIN s : t[i] = s[i]
  BY AppendProperties
<1>2. S \in SUBSET Nat /\ IsFiniteSet(S) /\ \A n \in S : n < x
  <2>1. IsFiniteSet(1..Len(s))
    BY <1>1, FS_Interval
  <2> QED
    BY <1>1, <2>1, FS_Subset
<1> HIDE DEF x, t
<1>3. /\ Cardinality(S) \in Nat /\ Cardinality(S \cup {x}) = Cardinality(S) + 1
      /\ Ranked(S \cup {x})
      /\ Nth(S \cup {x}, Cardinality(S) + 1) = x
      /\ \A m \in 1..Cardinality(S) :
            Nth(S \cup {x}, m) = Nth(S, m) /\ Nth(S, m) \in S
  BY <1>1, <1>2, RankedAdd
<1>4. \A m \in 1..Cardinality(S) : t[Nth(S, m)] = s[Nth(S, m)]
  BY <1>1, <1>3
<1>5. Kept(t, S) = Kept(s, S)
  BY <1>4 DEF Kept
<1>6. ASSUME NEW m \in 1..(Cardinality(S) + 1)
      PROVE  t[Nth(S \cup {x}, m)] =
                IF m = Cardinality(S) + 1 THEN v ELSE s[Nth(S, m)]
  <2>1. CASE m = Cardinality(S) + 1
    BY <1>1, <1>3, <2>1
  <2>2. CASE m \in 1..Cardinality(S)
    <3>1. m # Cardinality(S) + 1
      BY <1>3, <2>2
    <3>2. Nth(S \cup {x}, m) = Nth(S, m) /\ t[Nth(S, m)] = s[Nth(S, m)]
      BY <1>3, <1>4, <2>2
    <3> QED
      BY <3>1, <3>2
  <2> QED
    BY <1>3, <2>1, <2>2
<1>7. Kept(t, S \cup {x}) =
         [m \in 1..(Cardinality(S) + 1) |->
            IF m = Cardinality(S) + 1 THEN v ELSE s[Nth(S, m)]]
  BY <1>3, <1>6 DEF Kept
<1>8. Append(Kept(s, S), v) =
         [m \in 1..(Cardinality(S) + 1) |->
            IF m = Cardinality(S) + 1 THEN v ELSE s[Nth(S, m)]]
  BY <1>3 DEF Kept
<1>9. Kept(t, S \cup {x}) = Append(Kept(s, S), v)
  BY <1>7, <1>8
<1> QED
  BY <1>2, <1>3, <1>5, <1>9 DEF x, t

-----------------------------------------------------------------------------
(* follow() implements the log channel.                                    *)

\* The whole lines that follow() is past.
WholeRead == {n \in WholeLines : n <= pos}

\* What was yielded, but for lines that were torn, are the whole lines that
\* follow() is past, in their order.
ChannelInv ==
    /\ Ranked(WholeLines)
    /\ call.fromStart =>
          /\ start = 0
          /\ Ranked(Untorn)
          /\ \A i \in Untorn : delivered[i] \in 1..pos
          /\ Kept(delivered, Untorn) = Ascending(WholeRead)

LEMMA ChannelSets ==
  ASSUME IInv, ChannelInv
  PROVE  /\ Len(lines) \in Nat /\ pos \in Nat /\ pos <= Len(lines)
         /\ WholeLines \in SUBSET Nat /\ IsFiniteSet(WholeLines)
         /\ WholeRead \in SUBSET WholeLines
         /\ \A a \in WholeRead, b \in WholeLines : b <= a => b \in WholeRead
         /\ IsFiniteSet(WholeRead) /\ Ranked(WholeRead) /\ WholeRead \in SUBSET Nat
<1>1. Len(lines) \in Nat /\ pos \in Nat /\ pos <= Len(lines)
  BY DEF IInv, TypeOK, PosInv
<1>2. WholeLines \in SUBSET (1..Len(lines)) /\ IsFiniteSet(1..Len(lines))
  BY <1>1, FS_Interval DEF WholeLines
<1>3. WholeLines \in SUBSET Nat /\ IsFiniteSet(WholeLines)
  <2>1. WholeLines \in SUBSET Nat
    BY <1>2
  <2>2. IsFiniteSet(WholeLines)
    BY <1>2, FS_Subset
  <2> QED
    BY <2>1, <2>2
<1>4. WholeRead \in SUBSET WholeLines
  BY DEF WholeRead
<1>5. \A a \in WholeRead, b \in WholeLines : b <= a => b \in WholeRead
  BY <1>1, <1>3 DEF WholeRead
<1>6. IsFiniteSet(WholeRead) /\ Ranked(WholeRead)
  BY <1>3, <1>4, <1>5, RankedPrefix DEF ChannelInv
<1> QED
  BY <1>1, <1>3, <1>4, <1>5, <1>6

LEMMA InitChannel == Init => ChannelInv /\ Channel!Init
<1> SUFFICES ASSUME Init PROVE ChannelInv /\ Channel!Init
  OBVIOUS
<1>1. lines = <<>> /\ delivered = <<>> /\ Len(lines) = 0 /\ DOMAIN delivered = {}
      /\ start = 0 /\ pc = "exists" /\ marker = FALSE
  BY DEF Init
<1>2. WholeLines = {} /\ WholeRead = {} /\ Untorn = {}
  BY <1>1 DEF WholeLines, WholeRead, Untorn
<1>3. Cardinality({}) = 0 /\ 1..0 = {}
  BY FS_EmptySet
<1>4. Ranked({}) /\ Ascending({}) = <<>> /\ Kept(delivered, {}) = <<>>
  BY <1>3 DEF Ranked, Ascending, Kept
<1>5. ChannelInv
  BY <1>1, <1>2, <1>4 DEF ChannelInv
<1>6. ReaderState = "reading"
  BY <1>1 DEF ReaderState
<1> QED
  BY <1>1, <1>2, <1>4, <1>5, <1>6 DEF Channel!Init, ChannelLog, ChannelGot

\* A line that reaches the file in one piece is published; nothing else the
\* writer does is seen through the channel, except the marker.
LEMMA WriterChannel ==
  ASSUME IInv, ChannelInv, Writer
  PROVE  ChannelInv' /\ [Channel!Next]_(Channel!vars)
<1> DEFINE x == Len(lines) + 1
<1>1. /\ UNCHANGED <<call, start, pos, delivered, pc>>
      /\ torn' \in {torn, torn \cup {x}}
      /\ x \in Nat /\ pos < x
  BY ChannelSets
  DEF Writer, Create, WriteLine, TearLine, CompleteLine, DropMarker, readVars
<1>2. ReaderState' = ReaderState
  BY <1>1 DEF ReaderState
<1>3. \/ WholeLines' = WholeLines
      \/ WholeLines' = WholeLines \cup {x} /\ WriteLine
  <2>1. /\ lines \in Seq(Kinds) /\ Len(lines) \in Nat
        /\ half # "none" => x \in torn
    BY DEF IInv, TypeOK, TornInv
  <2>2. CASE lines' = lines
    BY <1>1, <2>1, <2>2 DEF WholeLines, Whole
  <2>3. CASE WriteLine \/ CompleteLine
    <3>1. PICK kind \in Kinds : lines' = Append(lines, kind)
      BY <2>3 DEF WriteLine, CompleteLine, Kinds
    <3>2. /\ Len(lines') = x /\ \A n \in 1..Len(lines) : lines'[n] = lines[n]
          /\ torn' = torn
      BY <2>1, <2>3, <3>1, AppendProperties DEF WriteLine, CompleteLine
    <3>3. \A n \in 1..x : n \in 1..Len(lines) \/ n = x
      BY <2>1
    <3>4. WholeLines' = WholeLines \cup {n \in {x} : Whole(n)'}
      BY <2>1, <3>2, <3>3 DEF WholeLines, Whole
    <3>5. CASE WriteLine
      BY <3>4, <3>5
    <3>6. CASE CompleteLine
      <4>1. x \in torn'
        BY <2>1, <3>2, <3>6 DEF CompleteLine
      <4> QED
        BY <3>4, <4>1 DEF Whole
    <3> QED
      BY <2>3, <3>5, <3>6
  <2> QED
    BY <2>2, <2>3 DEF Writer, Create, TearLine, DropMarker
<1>4. WholeRead' = WholeRead
  <2>1. \A n \in {x} : ~(n <= pos)
    BY <1>1, ChannelSets
  <2> QED
    BY <1>1, <1>3, <2>1 DEF WholeRead
<1>5. call.fromStart => Untorn' = Untorn
  <2>1. ASSUME call.fromStart
        PROVE  \A i \in DOMAIN delivered :
                  delivered[i] \notin torn <=> delivered[i] \notin torn'
    <3>1. \A i \in Untorn : delivered[i] # x
      BY <1>1, <2>1, ChannelSets DEF ChannelInv
    <3> QED
      BY <1>1, <3>1 DEF Untorn
  <2> QED
    BY <1>1, <2>1 DEF Untorn
<1>6. /\ Ranked(WholeLines \cup {x})
      /\ Ascending(WholeLines \cup {x}) = Append(Ascending(WholeLines), x)
  <2>1. \A n \in WholeLines : n < x
    BY ChannelSets DEF WholeLines
  <2> QED
    BY <1>1, <2>1, ChannelSets, RankedAdd, AscendingAdd DEF ChannelInv
<1>7. Ranked(WholeLines')
  BY <1>3, <1>6 DEF ChannelInv
<1>8. ChannelInv'
  <2>1. call.fromStart => /\ start' = 0 /\ Ranked(Untorn')
                          /\ \A i \in Untorn' : delivered'[i] \in 1..pos'
                          /\ Kept(delivered', Untorn') = Ascending(WholeRead')
    BY <1>1, <1>4, <1>5 DEF ChannelInv
  <2> QED
    BY <1>1, <1>7, <2>1 DEF ChannelInv
<1>9. ChannelGot' = ChannelGot
  BY <1>1, <1>5 DEF ChannelGot
<1>10. CASE WholeLines' = WholeLines
  <2>1. ChannelLog' = ChannelLog
    BY <1>1, <1>10 DEF ChannelLog
  <2>2. CASE marker' = marker
    BY <1>2, <1>8, <1>9, <2>1, <2>2 DEF Channel!vars
  <2>3. CASE DropMarker
    BY <1>2, <1>8, <1>9, <2>1, <2>3 DEF DropMarker, Channel!Next, Channel!Close
  <2> QED
    BY <2>2, <2>3
    DEF Writer, Create, WriteLine, TearLine, CompleteLine, DropMarker
<1>11. CASE WholeLines' = WholeLines \cup {x} /\ WriteLine
  <2>1. ~marker /\ marker' = marker /\ x \in 1..MaxLines
    BY <1>1, <1>11, FollowerAssumption, ChannelSets DEF WriteLine
  <2>2. CASE call.fromStart
    <3>1. ChannelLog' = Append(ChannelLog, x)
      BY <1>1, <1>6, <1>11, <2>2 DEF ChannelLog
    <3>2. Channel!Publish
      BY <1>2, <1>9, <2>1, <3>1 DEF Channel!Publish
    <3> QED
      BY <1>8, <3>2 DEF Channel!Next
  <2>3. CASE ~call.fromStart
    <3>1. ChannelLog' = ChannelLog
      BY <1>1, <2>3 DEF ChannelLog
    <3> QED
      BY <1>2, <1>8, <1>9, <2>1, <3>1 DEF Channel!vars
  <2> QED
    BY <2>2, <2>3
<1> QED
  BY <1>3, <1>8, <1>10, <1>11

\* A readline that returns a whole line takes it from the channel; a torn or
\* malformed one is not seen through it.
LEMMA ConsumeChannel ==
  ASSUME IInv, ChannelInv, Readable, Consume, pc \in {"read", "reread"}
  PROVE  ChannelInv' /\ [Channel!Next]_(Channel!vars)
<1> DEFINE x == pos + 1
           i == Len(delivered) + 1
<1>1. /\ UNCHANGED <<call, lines, torn, marker, start>>
      /\ WholeLines' = WholeLines /\ ChannelLog' = ChannelLog
  BY DEF Consume, fileVars, WholeLines, Whole, ChannelLog
<1>2. ReaderState = "reading" /\ ReaderState' = ReaderState
  BY DEF Consume, ReaderState
<1>3. /\ delivered \in Seq(Nat) /\ Len(delivered) \in Nat
      /\ DOMAIN delivered = 1..Len(delivered)
      /\ pos \in Nat /\ x \in Nat /\ Len(lines) \in Nat /\ pos <= Len(lines)
      /\ pos' \in {pos, x}
  BY ChannelSets DEF IInv, TypeOK, Consume
<1>4. CASE pos < Len(lines) /\ ParsesAsRecord /\ x \notin torn
  <2>1. pos' = x /\ delivered' = Append(delivered, x) /\ x \in WholeLines
    BY <1>3, <1>4 DEF Consume, ParsesAsRecord, WholeLines, Whole
  <2>2. WholeRead' = WholeRead \cup {x}
    <3>1. \A n \in WholeLines : n <= x <=> n <= pos \/ n = x
      BY <1>3, ChannelSets
    <3> QED
      BY <1>1, <2>1, <3>1 DEF WholeRead
  <2>3. /\ Ascending(WholeRead \cup {x}) = Append(Ascending(WholeRead), x)
        /\ Len(Ascending(WholeRead)) = Cardinality(WholeRead)
    <3>1. \A n \in WholeRead : n < x
      BY <1>3, ChannelSets DEF WholeRead
    <3> QED
      BY <1>3, <3>1, ChannelSets, AscendingAdd
  <2>4. CASE call.fromStart
    <3>1. /\ Untorn \in SUBSET DOMAIN delivered /\ Ranked(Untorn)
          /\ \A m \in Untorn : delivered[m] \in 1..pos
          /\ Kept(delivered, Untorn) = Ascending(WholeRead) /\ start = 0
      BY <2>4 DEF ChannelInv, Untorn
    <3>2. /\ DOMAIN delivered' = 1..i /\ delivered'[i] = x
          /\ \A m \in 1..Len(delivered) : delivered'[m] = delivered[m]
      BY <1>3, <2>1, AppendProperties
    <3>3. Untorn' = Untorn \cup {i}
      <4>1. \A m \in 1..i : m \in 1..Len(delivered) \/ m = i
        BY <1>3
      <4> QED
        BY <1>1, <1>3, <1>4, <3>2, <4>1 DEF Untorn
    <3>4. /\ Ranked(Untorn')
          /\ Kept(delivered', Untorn') = Append(Kept(delivered, Untorn), x)
      <4>1. /\ Ranked(Untorn \cup {i})
            /\ Kept(Append(delivered, x), Untorn \cup {i})
                  = Append(Kept(delivered, Untorn), x)
        <5>1. delivered \in Seq(Nat) /\ x \in Nat
          BY <1>3
        <5>2. Untorn \in SUBSET DOMAIN delivered /\ Ranked(Untorn)
          BY <3>1
        <5> HIDE DEF x
        <5> QED
          BY <5>1, <5>2, KeptAdd
      <4> QED
        BY <2>1, <3>3, <4>1
    <3>5. \A m \in Untorn' : delivered'[m] \in 1..pos'
      BY <1>3, <2>1, <3>1, <3>2, <3>3
    <3>6. Kept(delivered', Untorn') = Ascending(WholeRead')
      BY <2>2, <2>3, <3>1, <3>4
    <3>7. ChannelInv'
      <4>1. Ranked(WholeLines') /\ start' = 0
        BY <1>1, <3>1 DEF ChannelInv
      <4> QED
        BY <3>4, <3>5, <3>6, <4>1 DEF ChannelInv
    <3>8. /\ Len(ChannelGot) < Len(ChannelLog)
          /\ ChannelLog[Len(ChannelGot) + 1] = x
      <4>1. /\ WholeRead \cup {x} \in SUBSET WholeLines
            /\ \A a \in WholeRead \cup {x}, b \in WholeLines :
                  b <= a => b \in WholeRead \cup {x}
        <5>1. \A b \in WholeLines : b <= x => b <= pos \/ b = x
          BY <1>3, ChannelSets
        <5> QED
          BY <2>1, <5>1, ChannelSets DEF WholeRead
      <4>2. /\ Cardinality(WholeRead \cup {x}) = Cardinality(WholeRead) + 1
            /\ Cardinality(WholeRead) \in Nat
            /\ Nth(WholeRead \cup {x}, Cardinality(WholeRead) + 1) = x
        <5>1. \A n \in WholeRead : n < x
          BY <1>3, ChannelSets DEF WholeRead
        <5> QED
          BY <1>3, <5>1, ChannelSets, RankedAdd
      <4>3. /\ Cardinality(WholeRead) + 1 <= Cardinality(WholeLines)
            /\ Cardinality(WholeLines) \in Nat
            /\ Nth(WholeLines, Cardinality(WholeRead) + 1) = x
        <5> DEFINE P == WholeRead \cup {x}
        <5>1. /\ WholeLines \in SUBSET Nat /\ IsFiniteSet(WholeLines)
              /\ Ranked(WholeLines) /\ P \in SUBSET WholeLines
              /\ \A a \in P, b \in WholeLines : b <= a => b \in P
          BY <4>1, ChannelSets DEF ChannelInv
        <5>2. Cardinality(P) = Cardinality(WholeRead) + 1 /\ Cardinality(P) \in Nat
              /\ Nth(P, Cardinality(P)) = x
          BY <4>2
        <5> HIDE DEF P
        <5>3. /\ Cardinality(P) <= Cardinality(WholeLines)
              /\ Cardinality(WholeLines) \in Nat
              /\ \A m \in 1..Cardinality(P) : Nth(P, m) = Nth(WholeLines, m)
          BY <5>1, RankedPrefix
        <5>4. Cardinality(P) \in 1..Cardinality(P)
          BY <4>2, <5>2
        <5> QED
          BY <5>2, <5>3, <5>4
      <4>4. /\ ChannelLog = [m \in 1..Cardinality(WholeLines) |-> Nth(WholeLines, m)]
            /\ Len(ChannelGot) = Cardinality(WholeRead)
        BY <2>3, <2>4, <3>1 DEF ChannelLog, ChannelGot, Ascending
      <4> QED
        BY <4>2, <4>3, <4>4
    <3>9. ChannelGot' = Append(ChannelGot, x)
      BY <1>1, <2>4, <3>4 DEF ChannelGot
    <3>10. Channel!Take
      BY <1>1, <1>2, <3>8, <3>9 DEF Channel!Take
    <3> QED
      BY <3>7, <3>10 DEF Channel!Next
  <2>5. CASE ~call.fromStart
    <3>1. ChannelInv'
      BY <1>1, <2>5 DEF ChannelInv
    <3>2. ChannelGot' = ChannelGot
      BY <1>1, <2>5 DEF ChannelGot
    <3> QED
      BY <1>1, <1>2, <3>1, <3>2 DEF Channel!vars
  <2> QED
    BY <2>4, <2>5
<1>5. CASE ~(pos < Len(lines) /\ ParsesAsRecord /\ x \notin torn)
  <2>1. /\ WholeRead' = WholeRead
        /\ delivered' = delivered \/ (delivered' = Append(delivered, x) /\ x \in torn)
    <3>1. ate # "none" => x \in torn
      BY DEF IInv, TornInv
    <3>2. CASE pos < Len(lines)
      <4>1. x \notin WholeLines
        BY <1>3, <1>5, <3>1, <3>2 DEF ParsesAsRecord, WholeLines, Whole
      <4>2. \A n \in WholeLines : n <= x <=> n <= pos \/ n = x
        BY <1>3, ChannelSets
      <4>3. WholeRead' = WholeRead
        BY <1>1, <1>3, <4>1, <4>2 DEF WholeRead
      <4> QED
        BY <1>5, <3>2, <4>3 DEF Consume
    <3>3. CASE ~(pos < Len(lines))
      <4>1. pos' = pos /\ pos = Len(lines) /\ half # "none"
        BY <1>3, <3>3 DEF Consume, Readable
      <4>2. x \in torn
        BY <4>1 DEF IInv, TornInv
      <4> QED
        BY <1>1, <4>1, <4>2 DEF WholeRead, Consume
    <3> QED
      BY <3>2, <3>3
  <2>2. Untorn' = Untorn /\ \A m \in Untorn : m \in 1..Len(delivered)
                                              /\ delivered'[m] = delivered[m]
    <3>1. CASE delivered' = delivered
      BY <1>1, <1>3, <3>1 DEF Untorn
    <3>2. CASE delivered' = Append(delivered, x) /\ x \in torn
      <4>1. /\ DOMAIN delivered' = 1..i /\ delivered'[i] = x
            /\ \A m \in 1..Len(delivered) : delivered'[m] = delivered[m]
        BY <1>3, <3>2, AppendProperties
      <4>2. \A m \in 1..i : m \in 1..Len(delivered) \/ m = i
        BY <1>3
      <4>3. \A m \in 1..Len(delivered) : m \in 1..i
        BY <1>3
      <4> QED
        BY <1>1, <1>3, <3>2, <4>1, <4>2, <4>3 DEF Untorn
    <3> QED
      BY <2>1, <3>1, <3>2
  <2>3. call.fromStart => Kept(delivered', Untorn') = Kept(delivered, Untorn)
    <3>1. CASE delivered' = delivered
      BY <2>2, <3>1
    <3>2. CASE delivered' = Append(delivered, x)
      <4>1. Untorn \in SUBSET DOMAIN delivered
        BY DEF Untorn
      <4>2. call.fromStart => Ranked(Untorn)
        BY DEF ChannelInv
      <4>3. call.fromStart =>
               Kept(Append(delivered, x), Untorn) = Kept(delivered, Untorn)
        <5>1. delivered \in Seq(Nat) /\ x \in Nat
          BY <1>3
        <5> HIDE DEF x
        <5> QED
          BY <4>1, <4>2, <5>1, KeptAdd
      <4> QED
        BY <2>2, <3>2, <4>3
    <3> QED
      BY <2>1, <3>1, <3>2
  <2>4. call.fromStart => \A m \in Untorn' : delivered'[m] \in 1..pos'
    BY <1>3, <2>2 DEF ChannelInv
  <2>5. ChannelInv'
    <3>1. Ranked(WholeLines') /\ (call.fromStart => start' = 0 /\ Ranked(Untorn'))
      BY <1>1, <2>2 DEF ChannelInv
    <3>2. call.fromStart => Kept(delivered', Untorn') = Ascending(WholeRead')
      BY <2>1, <2>3 DEF ChannelInv
    <3> QED
      BY <1>1, <2>4, <3>1, <3>2 DEF ChannelInv
  <2>6. ChannelGot' = ChannelGot
    BY <1>1, <2>3 DEF ChannelGot
  <2> QED
    BY <1>1, <1>2, <2>5, <2>6 DEF Channel!vars
<1> QED
  BY <1>4, <1>5

\* What the other steps of follow() do to the reader's state.
LEMMA OtherMoves ==
  ASSUME IInv, ChannelInv, [Next]_vars, ~Writer, ~ReadLine, ~ReReadLine
  PROVE  /\ UNCHANGED <<call, lines, torn, marker, delivered>>
         /\ call.fromStart => pos' = pos /\ start' = start
         /\ \/ ReaderState' = ReaderState
            \/ ReaderState = "reading" /\ ReaderState' = "abandoned"
            \/ /\ ReaderState = "reading" /\ ReaderState' = "finished"
               /\ marker /\ pos = Len(lines)
<1> USE DEF fileVars, readVars, timeVars
<1>1. CASE OpenLog
  <2>1. ~opened /\ pos = 0 /\ start = 0
    BY <1>1 DEF OpenLog, IInv, PosInv
  <2> QED
    BY <1>1, <2>1 DEF OpenLog, ReaderState
<1>2. CASE ReReadNothing
  <2>1. marker /\ pos = Len(lines)
    BY <1>2, ChannelSets DEF ReReadNothing, Readable, IInv, MarkerInv
  <2> QED
    BY <1>2, <2>1 DEF ReReadNothing, ReaderState
<1>3. CASE CheckAbsent \/ CheckQuiet
  BY <1>3 DEF CheckAbsent, CheckQuiet, Pause, ReaderState
<1>4. CASE CheckExists \/ ReadNothing \/ CheckMarker
  BY <1>4 DEF CheckExists, ReadNothing, CheckMarker, ReaderState
<1>5. CASE Wake \/ Resume
  BY <1>5 DEF Wake, Resume, LoopTop, ReaderState
<1>6. CASE Tick \/ UNCHANGED vars
  BY <1>6 DEF Tick, vars, ReaderState
<1> QED
  BY <1>1, <1>2, <1>3, <1>4, <1>5, <1>6 DEF Next, Follower

LEMMA StepChannel ==
  IInv /\ ChannelInv /\ [Next]_vars
      => ChannelInv' /\ [Channel!Next]_(Channel!vars)
<1> SUFFICES ASSUME IInv, ChannelInv, [Next]_vars
             PROVE  ChannelInv' /\ [Channel!Next]_(Channel!vars)
  OBVIOUS
<1>1. CASE Writer
  BY <1>1, WriterChannel
<1>2. CASE ReadLine \/ ReReadLine
  BY <1>2, ConsumeChannel DEF ReadLine, ReReadLine
<1>3. CASE ~(Writer \/ ReadLine \/ ReReadLine)
  <2>1. /\ UNCHANGED <<call, lines, torn, marker, delivered>>
        /\ call.fromStart => pos' = pos /\ start' = start
        /\ \/ ReaderState' = ReaderState
           \/ ReaderState = "reading" /\ ReaderState' = "abandoned"
           \/ /\ ReaderState = "reading" /\ ReaderState' = "finished"
              /\ marker /\ pos = Len(lines)
    BY <1>3, OtherMoves
  <2>2. WholeLines' = WholeLines /\ Untorn' = Untorn
    BY <2>1 DEF WholeLines, Whole, Untorn
  <2>3. call.fromStart => WholeRead' = WholeRead
    BY <2>1, <2>2 DEF WholeRead
  <2>4. ChannelInv'
    BY <2>1, <2>2, <2>3 DEF ChannelInv
  <2>5. ChannelLog' = ChannelLog /\ ChannelGot' = ChannelGot
    BY <2>1, <2>2 DEF ChannelLog, ChannelGot
  <2>6. CASE ReaderState' = ReaderState
    BY <2>1, <2>4, <2>5, <2>6 DEF Channel!vars
  <2>7. CASE ReaderState = "reading" /\ ReaderState' = "abandoned"
    BY <2>1, <2>4, <2>5, <2>7 DEF Channel!Next, Channel!Abandon
  <2>8. CASE /\ ReaderState = "reading" /\ ReaderState' = "finished"
             /\ marker /\ pos = Len(lines)
    <3>1. WholeRead = WholeLines
      BY <2>8, ChannelSets DEF WholeRead, WholeLines
    <3>2. ChannelGot = ChannelLog
      BY <3>1 DEF ChannelInv, ChannelGot, ChannelLog
    <3> QED
      BY <2>1, <2>4, <2>5, <2>8, <3>2 DEF Channel!Next, Channel!Finish
  <2> QED
    BY <2>1, <2>6, <2>7, <2>8
<1> QED
  BY <1>1, <1>2, <1>3

\* follow() implements the log channel: a reader from the start hands out the
\* lines written in one piece once each and in order, and says it finished only
\* when all of them are out.
THEOREM ImplementsChannelCorrect == Spec => ImplementsChannel
<1>1. Init => IInv /\ ChannelInv /\ Channel!Init
  BY InitIInv, InitChannel
<1> QED
  BY <1>1, StepIInv, StepChannel, PTL DEF Spec, ImplementsChannel, Channel!Spec
=============================================================================
