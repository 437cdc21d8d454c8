--------------------------- MODULE ConnPathProofs ---------------------------
(***************************************************************************)
(* For any connections with timestamps in any order, any spans, thresholds *)
(* and sampling intervals: a window loses only what is stale, a flood told *)
(* by its baseline has a history, a beacon is seen when it becomes one, no *)
(* scan is reported twice, and the final sweep leaves nothing unreported.  *)
(***************************************************************************)
EXTENDS ConnPath, SequenceTheorems, FiniteSetTheorems, TLAPS

-----------------------------------------------------------------------------
(* What the helpers return.                                                *)

\* A non-empty set of natural numbers has a least element: the initial segments
\* of Nat that its elements bound are finite, and one of them is minimal.
LEMMA MinOfNat ==
  ASSUME NEW S, S \subseteq Nat, S # {}
  PROVE  /\ Min(S) \in S
         /\ \A i \in S : Min(S) <= i
<1> DEFINE Below(i) == 0..(i - 1)
           segments == {Below(i) : i \in S}
<1>1. segments \subseteq FiniteSubsetsOf(Nat) /\ segments # {}
  <2>1. \A i \in S : Below(i) \in SUBSET Nat
    OBVIOUS
  <2>2. \A i \in S : IsFiniteSet(Below(i))
    <3> TAKE i \in S
    <3>1. 0 \in Int /\ i - 1 \in Int
      OBVIOUS
    <3> QED
      BY <3>1, FS_Interval
  <2> QED
    BY <2>1, <2>2 DEF FiniteSubsetsOf
<1>2. IsWellFoundedOn(StrictSubsetOrdering(Nat), FiniteSubsetsOf(Nat))
  BY FS_StrictSubsetOrderingWellFounded
<1>3. PICK x \in S :
         \A y \in S : ~(<<Below(y), Below(x)>> \in StrictSubsetOrdering(Nat))
  <2> HIDE DEF Below
  <2>1. \E X \in segments :
           \A Y \in segments : ~(<<Y, X>> \in StrictSubsetOrdering(Nat))
    BY <1>1, <1>2, WFMin
  <2> QED
    BY <2>1
<1>4. \A y \in S : x <= y
  <2> SUFFICES ASSUME NEW y \in S, y < x
               PROVE  FALSE
    OBVIOUS
  <2>1. Below(y) \subseteq Below(x) /\ y \in Below(x) /\ y \notin Below(y)
    OBVIOUS
  <2>2. Below(y) \in SUBSET Nat /\ Below(x) \in SUBSET Nat /\ Below(y) # Below(x)
    BY <2>1
  <2> HIDE DEF Below
  <2> QED
    BY <1>3, <2>1, <2>2 DEF StrictSubsetOrdering
<1> QED
  BY <1>4 DEF Min

\* The clock never goes back and is the time of a flow or what it was.
LEMMA MaxOfTwo ==
  ASSUME NEW m \in Nat, NEW n \in Nat
  PROVE  Max({m, n}) \in {m, n} /\ Max({m, n}) >= m /\ Max({m, n}) >= n
<1>1. \E x \in {m, n} : \A y \in {m, n} : x >= y
  OBVIOUS
<1> QED
  BY <1>1 DEF Max

\* A flow has a time.
LEMMA FlowType ==
  ASSUME NEW f \in Flow
  PROVE  f.src \in Sources /\ f.dst \in Targets /\ f.ts \in Times /\ f.ts \in Nat
<1>1. Times \subseteq Nat
  BY ConnAssumption
<1> QED
  BY <1>1 DEF Flow

\* A queue loses its head only, and of that only flows older than the cutoff.
LEMMA TrimmedLosesStale ==
  ASSUME NEW q \in Seq(Flow), NEW cutoff \in Int
  PROVE  \E k \in 0..Len(q) :
            /\ Trimmed(q, cutoff) = SubSeq(q, k + 1, Len(q))
            /\ \A i \in 1..k : q[i].ts < cutoff
<1> DEFINE fresh == {i \in DOMAIN q : q[i].ts >= cutoff}
<1>0. DOMAIN q = 1..Len(q) /\ Len(q) \in Nat /\ \A i \in 1..Len(q) : q[i].ts \in Nat
  <2>1. \A i \in 1..Len(q) : q[i] \in Flow
    BY ElementOfSeq
  <2>2. DOMAIN q = 1..Len(q) /\ Len(q) \in Nat
    BY LenProperties
  <2> QED
    BY <2>1, <2>2, FlowType
<1>1. CASE fresh = {}
  <2>1. Trimmed(q, cutoff) = SubSeq(q, Len(q) + 1, Len(q))
    BY <1>1, SubSeqEmpty DEF Trimmed
  <2>2. \A i \in 1..Len(q) : q[i].ts < cutoff
    BY <1>0, <1>1
  <2> QED
    BY <2>1, <2>2
<1>2. CASE fresh # {}
  <2>1. Min(fresh) \in fresh /\ \A i \in fresh : Min(fresh) <= i
    <3>1. fresh \subseteq Nat
      BY <1>0
    <3> HIDE DEF fresh
    <3> QED
      BY <1>2, <3>1, MinOfNat
  <2> DEFINE least == Min(fresh)
  <2>2. Trimmed(q, cutoff) = SubSeq(q, least, Len(q))
    BY <1>2 DEF Trimmed
  <2>3. least \in 1..Len(q) /\ \A i \in fresh : least <= i
    BY <1>0, <2>1
  <2> HIDE DEF least
  <2>4. \A i \in 1..(least - 1) : q[i].ts < cutoff
    BY <1>0, <2>3
  <2>5. least - 1 \in 0..Len(q) /\ (least - 1) + 1 = least
    BY <1>0, <2>3
  <2> QED
    BY <2>2, <2>4, <2>5
<1> QED
  BY <1>1, <1>2

\* What is left of a queue is a queue.
LEMMA TrimmedType ==
  ASSUME NEW q \in Seq(Flow), NEW cutoff \in Int
  PROVE  Trimmed(q, cutoff) \in Seq(Flow)
<1>1. PICK k \in 0..Len(q) : Trimmed(q, cutoff) = SubSeq(q, k + 1, Len(q))
  BY TrimmedLosesStale
<1>2. Len(q) \in Nat
  BY LenProperties
<1> QED
  BY <1>1, <1>2, SubSeqProperties

-----------------------------------------------------------------------------
(* The window.                                                             *)

\* held is the end of arrived, and what comes before it is older than cutoff.
EndOf(h, a, cutoff) ==
    /\ h \in Seq(Flow) /\ a \in Seq(Flow)
    /\ Len(h) <= Len(a)
    /\ h = SubSeq(a, Len(a) - Len(h) + 1, Len(a))
    /\ \A i \in 1..(Len(a) - Len(h)) : a[i].ts < cutoff

\* What is left of a queue without its first k flows.
LEMMA Rest ==
  ASSUME NEW q \in Seq(Flow), NEW k \in 0..Len(q)
  PROVE  /\ SubSeq(q, k + 1, Len(q)) \in Seq(Flow)
         /\ Len(SubSeq(q, k + 1, Len(q))) = Len(q) - k
         /\ \A i \in 1..(Len(q) - k) : SubSeq(q, k + 1, Len(q))[i] = q[k + i]
<1>1. Len(q) \in Nat /\ k \in Nat
  BY LenProperties
<1>2. \A i \in (k + 1)..Len(q) : q[i] \in Flow
  BY <1>1, ElementOfSeq
<1>3. /\ SubSeq(q, k + 1, Len(q)) \in Seq(Flow)
      /\ Len(SubSeq(q, k + 1, Len(q))) =
           IF k + 1 <= Len(q) THEN Len(q) - (k + 1) + 1 ELSE 0
      /\ \A i \in 1..(Len(q) - (k + 1) + 1) :
            SubSeq(q, k + 1, Len(q))[i] = q[(k + 1) + i - 1]
  BY <1>1, <1>2, SubSeqProperties
<1>4. \A i \in Nat : (k + 1) + i - 1 = k + i
  BY <1>1
<1> QED
  BY <1>1, <1>3, <1>4

\* That remains so when a flow joins both and stale flows leave at the head.
LEMMA EndOfAppend ==
  ASSUME NEW h, NEW a, NEW c \in Int, EndOf(h, a, c),
         NEW f \in Flow, NEW d \in Int, c <= d
  PROVE  EndOf(Trimmed(Append(h, f), d), Append(a, f), d)
<1> DEFINE g == Append(h, f)
           b == Append(a, f)
<1>1. PICK l \in Nat :
         /\ h \in Seq(Flow) /\ a \in Seq(Flow)
         /\ Len(h) \in Nat /\ Len(a) \in Nat
         /\ Len(a) = l + Len(h)
         /\ h = SubSeq(a, l + 1, Len(a))
         /\ \A i \in 1..l : a[i].ts < c
  <2>1. Len(h) \in Nat /\ Len(a) \in Nat
    BY LenProperties DEF EndOf
  <2>2. /\ Len(a) - Len(h) \in Nat
        /\ Len(a) = (Len(a) - Len(h)) + Len(h)
    BY <2>1 DEF EndOf
  <2> QED
    BY <2>1, <2>2 DEF EndOf
<1>0. h \in Seq(Flow) /\ a \in Seq(Flow)
  BY <1>1
<1>2. /\ g \in Seq(Flow) /\ Len(g) = Len(h) + 1
      /\ \A i \in 1..Len(h) : g[i] = h[i]
      /\ g[Len(h) + 1] = f
  BY <1>0, AppendProperties
<1>3. /\ b \in Seq(Flow) /\ Len(b) = Len(a) + 1
      /\ \A i \in 1..Len(a) : b[i] = a[i]
      /\ b[Len(a) + 1] = f
  BY <1>1, AppendProperties
<1>4. \A i \in 1..Len(g) : g[i] = b[l + i]
  <2>1. \A i \in 1..Len(h) : h[i] = a[l + i]
    <3>1. l \in 0..Len(a) /\ Len(a) - l = Len(h)
      BY <1>1
    <3> QED
      BY <1>1, <3>1, Rest
  <2> SUFFICES ASSUME NEW i \in 1..Len(g)
               PROVE  g[i] = b[l + i]
    OBVIOUS
  <2>2. CASE i \in 1..Len(h)
    <3>1. l + i \in 1..Len(a)
      BY <1>1, <2>2
    <3> QED
      BY <1>2, <1>3, <2>1, <2>2, <3>1
  <2>3. CASE i = Len(h) + 1
    <3>1. l + i = Len(a) + 1
      BY <1>1, <2>3
    <3> QED
      BY <1>2, <1>3, <2>3, <3>1
  <2>4. i \in 1..Len(h) \/ i = Len(h) + 1
    <3> HIDE DEF g
    <3> QED
      BY <1>1, <1>2
  <2> QED
    BY <2>2, <2>3, <2>4
<1>5. PICK k \in 0..Len(g) :
         /\ Trimmed(g, d) = SubSeq(g, k + 1, Len(g))
         /\ \A i \in 1..k : g[i].ts < d
  BY <1>2, TrimmedLosesStale
<1> DEFINE t == SubSeq(g, k + 1, Len(g))
           u == SubSeq(b, (l + k) + 1, Len(b))
<1> HIDE DEF g, b
<1>6. /\ l \in Nat /\ k \in Nat /\ l + k \in 0..Len(b)
      /\ Len(b) - (l + k) = Len(g) - k
      /\ Len(b) \in Nat /\ Len(g) \in Nat
  BY <1>1, <1>2, <1>3
<1>7. /\ t \in Seq(Flow) /\ Len(t) = Len(g) - k
      /\ \A i \in 1..(Len(g) - k) : t[i] = g[k + i]
  BY <1>2, Rest
<1>8. /\ u \in Seq(Flow) /\ Len(u) = Len(g) - k
      /\ \A i \in 1..(Len(g) - k) : u[i] = b[(l + k) + i]
  <2>1. /\ u \in Seq(Flow) /\ Len(u) = Len(b) - (l + k)
        /\ \A i \in 1..(Len(b) - (l + k)) : u[i] = b[(l + k) + i]
    BY <1>3, <1>6, Rest
  <2> HIDE DEF u
  <2> QED
    BY <1>6, <2>1
<1> HIDE DEF t, u
<1>9. t = u
  <2>1. \A i \in 1..(Len(g) - k) : g[k + i] = b[(l + k) + i]
    <3> SUFFICES ASSUME NEW i \in 1..(Len(g) - k)
                 PROVE  g[k + i] = b[(l + k) + i]
      OBVIOUS
    <3>1. k + i \in 1..Len(g) /\ l + (k + i) = (l + k) + i
      BY <1>6
    <3> QED
      BY <1>4, <3>1
  <2>2. \A i \in 1..Len(t) : t[i] = u[i]
    BY <1>7, <1>8, <2>1
  <2>3. Len(t) = Len(u)
    BY <1>7, <1>8
  <2> QED
    BY <1>7, <1>8, <2>2, <2>3, SeqEqual
<1>10. \A i \in 1..(l + k) : b[i].ts < d
  <2> SUFFICES ASSUME NEW i \in 1..(l + k)
               PROVE  b[i].ts < d
    OBVIOUS
  <2>1. CASE i <= l
    <3>1. i \in 1..l /\ i \in 1..Len(a)
      BY <1>1, <1>6, <2>1
    <3>2. a[i].ts \in Nat
      BY <1>1, <3>1, ElementOfSeq, FlowType
    <3> QED
      BY <1>1, <1>3, <3>1, <3>2
  <2>2. CASE i > l
    <3>1. i - l \in 1..k /\ i - l \in 1..Len(g) /\ l + (i - l) = i
      BY <1>6, <2>2
    <3> QED
      BY <1>4, <1>5, <3>1
  <2> QED
    BY <1>6, <2>1, <2>2
<1>11. EndOf(t, b, d)
  <2>0. Len(t) = Len(g) - k
    BY <1>7
  <2>1. Len(t) <= Len(b) /\ Len(b) - Len(t) = l + k
    BY <1>6, <2>0
  <2>2. t = SubSeq(b, (Len(b) - Len(t)) + 1, Len(b))
    BY <1>9, <2>1 DEF u
  <2> QED
    BY <1>3, <1>7, <1>10, <2>1, <2>2 DEF EndOf
<1> QED
  BY <1>5, <1>11 DEF g, b, t

\* Nothing is the end of nothing, and what is stale stays so.
LEMMA EndOfEmpty ==
  ASSUME NEW c \in Int
  PROVE  EndOf(<<>>, <<>>, c)
<1>1. SubSeq(<<>>, 1, 0) = <<>>
  BY SubSeqEmpty
<1> QED
  BY <1>1 DEF EndOf

LEMMA EndOfLater ==
  ASSUME NEW h, NEW a, NEW c \in Int, EndOf(h, a, c), NEW d \in Int, c <= d
  PROVE  EndOf(h, a, d)
<1>1. Len(h) \in Nat /\ Len(a) \in Nat
  BY LenProperties DEF EndOf
<1>2. \A i \in 1..(Len(a) - Len(h)) : a[i].ts \in Nat
  <2>1. \A i \in 1..(Len(a) - Len(h)) : i \in 1..Len(a)
    BY <1>1
  <2>2. \A i \in 1..Len(a) : a[i] \in Flow
    BY ElementOfSeq DEF EndOf
  <2> QED
    BY <2>1, <2>2, FlowType
<1> QED
  BY <1>2 DEF EndOf

WindowInv ==
    /\ now \in Nat
    /\ held \in [Sources -> Seq(Flow)]
    /\ arrived \in [Sources -> Seq(Flow)]
    /\ \A s \in Sources : EndOf(held[s], arrived[s], now - Span)

\* The clock a connection sets.
LEMMA ClockType ==
  ASSUME now \in Nat, NEW f \in Flow
  PROVE  /\ Max({now, f.ts}) \in Nat
         /\ Max({now, f.ts}) >= now
         /\ Max({now, f.ts}) >= f.ts
  BY FlowType, MaxOfTwo

LEMMA SpanType == Span \in Nat /\ FloodSpan \in Nat
  BY ConnAssumption

LEMMA ConnectionKeepsWindows ==
  ASSUME WindowInv, NEW f \in Flow, on_conn(f)
  PROVE  WindowInv'
<1> DEFINE clock == Max({now, f.ts})
           dead == Dead(f, clock)
<1>1. now \in Nat /\ clock \in Nat /\ clock >= now
  BY ClockType DEF WindowInv
<1> HIDE DEF clock
<1>2. /\ now' = clock
      /\ held' = [s \in Sources |->
                     IF s \in dead THEN <<>>
                     ELSE IF s = f.src THEN Window(f, clock) ELSE held[s]]
      /\ arrived' = [s \in Sources |->
                        IF s \in dead THEN <<>>
                        ELSE IF s = f.src THEN Append(arrived[s], f)
                        ELSE arrived[s]]
  BY DEF on_conn, clock
<1> HIDE DEF dead
<1>3. now - Span \in Int /\ clock - Span \in Int /\ now - Span <= clock - Span
  BY <1>1, SpanType
<1>4. ASSUME NEW s \in Sources
      PROVE  EndOf(held'[s], arrived'[s], clock - Span)
  <2>0. EndOf(held[s], arrived[s], now - Span)
    BY DEF WindowInv
  <2>1. CASE s \in dead
    BY <1>2, <1>3, <2>1, EndOfEmpty
  <2>2. CASE s \notin dead /\ s = f.src
    <3>1. held'[s] = Trimmed(Append(held[s], f), clock - Span)
      BY <1>2, <2>2 DEF Window
    <3>2. arrived'[s] = Append(arrived[s], f)
      BY <1>2, <2>2
    <3> QED
      BY <1>3, <2>0, <3>1, <3>2, EndOfAppend
  <2>3. CASE s \notin dead /\ s # f.src
    <3>1. held'[s] = held[s] /\ arrived'[s] = arrived[s]
      BY <1>2, <2>3
    <3> QED
      BY <1>3, <2>0, <3>1, EndOfLater
  <2> QED
    BY <2>1, <2>2, <2>3
<1>5. /\ held' = [s \in Sources |-> held'[s]]
      /\ arrived' = [s \in Sources |-> arrived'[s]]
  BY <1>2
<1>6. \A s \in Sources : held'[s] \in Seq(Flow) /\ arrived'[s] \in Seq(Flow)
  BY <1>4 DEF EndOf
<1>7. held' \in [Sources -> Seq(Flow)] /\ arrived' \in [Sources -> Seq(Flow)]
  BY <1>5, <1>6
<1> QED
  BY <1>1, <1>2, <1>4, <1>7 DEF WindowInv

\* WindowInv is about nothing else.
LEMMA WindowFrame ==
  ASSUME WindowInv, UNCHANGED <<now, held, arrived>>
  PROVE  WindowInv'
  BY DEF WindowInv

LEMMA WindowInvImplies == WindowInv => NothingFreshIsLost
<1> SUFFICES ASSUME WindowInv, NEW s \in Sources
             PROVE  LET lost == Len(arrived[s]) - Len(held[s])
                    IN  /\ held[s] = SubSeq(arrived[s], lost + 1, Len(arrived[s]))
                        /\ \A i \in 1..lost : arrived[s][i].ts < now - Span
  BY DEF NothingFreshIsLost
<1>1. EndOf(held[s], arrived[s], now - Span)
  BY DEF WindowInv
<1> QED
  BY <1>1 DEF EndOf

-----------------------------------------------------------------------------
(* The baselines of the flood detector.                                    *)

\* A target's samples lie SampleEvery apart, from first contact on.
Watched(d) ==
    /\ met[d] \in Nat /\ lastSample[d] \in Nat
    /\ met[d] + Len(baseline[d]) * SampleEvery <= lastSample[d]
    /\ lastSample[d] <= now

SampleInv ==
    /\ now \in Nat
    /\ floods \in [Targets -> Seq(Flow)]
    /\ baseline \in [Targets -> Seq(Nat)]
    /\ DOMAIN lastSample = DOMAIN met
    /\ \A d \in Targets : IF d \in DOMAIN met THEN Watched(d) ELSE baseline[d] = <<>>

\* The cases of SpikeHasHistory, with the first contact it refers to.
SpikeInv ==
    \A k \in DOMAIN fired :
        k[1] = "ddos" /\ k[2] \notin HalfOpen =>
            /\ k[2] \in DOMAIN met
            /\ fired[k] - met[k[2]] >= MinSamples * SampleEvery

LEMMA SampleConstants ==
  /\ SampleEvery \in Nat \ {0} /\ KeepSamples \in Nat \ {0} /\ MinSamples \in Nat \ {0}
  BY ConnAssumption

\* A product of natural numbers grows with its factor.
LEMMA TimesGrows ==
  ASSUME NEW m \in Nat, NEW n \in Nat, NEW e \in Nat, m <= n
  PROVE  /\ m * e \in Nat /\ n * e \in Nat /\ m * e <= n * e
         /\ (n + 1) * e = n * e + e
<1>1. n = m + (n - m) /\ n - m \in Nat
  OBVIOUS
<1>2. (m + (n - m)) * e = m * e + (n - m) * e
  BY <1>1
<1>3. (n - m) * e \in Nat /\ m * e \in Nat
  BY <1>1
<1> QED
  BY <1>1, <1>2, <1>3

LEMMA FloodType ==
  ASSUME SampleInv, NEW f \in Flow, NEW clock \in Nat
  PROVE  Flood(f, clock) \in Seq(Flow) /\ Len(Flood(f, clock)) \in Nat
<1>1. floods[f.dst] \in Seq(Flow)
  BY FlowType DEF SampleInv
<1>2. Append(floods[f.dst], f) \in Seq(Flow)
  BY <1>1, AppendProperties
<1>3. clock - FloodSpan \in Int
  BY SpanType
<1>4. Flood(f, clock) \in Seq(Flow)
  BY <1>2, <1>3, TrimmedType DEF Flood
<1> QED
  BY <1>4, LenProperties

\* A baseline gets no more than one sample longer, and only when one is due.
LEMMA BaselineGrows ==
  ASSUME SampleInv, NEW f \in Flow, NEW clock \in Nat
  PROVE  /\ Baseline(f, clock) \in Seq(Nat)
         /\ Len(Baseline(f, clock)) \in Nat
         /\ Len(baseline[f.dst]) \in Nat
         /\ Len(Baseline(f, clock)) <= Len(baseline[f.dst]) + 1
         /\ ~SampleDue(f.dst, clock) => Baseline(f, clock) = baseline[f.dst]
<1> DEFINE old == baseline[f.dst]
           b == Append(old, Len(Flood(f, clock)))
<1>1. old \in Seq(Nat) /\ Len(old) \in Nat
  BY FlowType, LenProperties DEF SampleInv
<1>2. Len(Flood(f, clock)) \in Nat
  BY FloodType
<1>3. b \in Seq(Nat) /\ b # <<>> /\ Len(b) = Len(old) + 1
  BY <1>1, <1>2, AppendProperties
<1>4. Baseline(f, clock) = IF ~SampleDue(f.dst, clock) THEN old
                           ELSE IF Len(b) > KeepSamples THEN Tail(b) ELSE b
  BY DEF Baseline
<1> HIDE DEF b
<1>5. Tail(b) \in Seq(Nat) /\ Len(Tail(b)) = Len(b) - 1
  BY <1>3, HeadTailProperties
<1> QED
  BY <1>1, <1>3, <1>4, <1>5

\* What a connection does to the state the baselines are taken from.
LEMMA ConnectionSamples ==
  ASSUME SampleInv, NEW f \in Flow, on_conn(f), NEW clock \in Nat,
         clock = Max({now, f.ts})
  PROVE  /\ DOMAIN lastSample' = DOMAIN lastSample \cup {f.dst}
         /\ DOMAIN met' = DOMAIN met \cup {f.dst}
         /\ \A d \in DOMAIN met : met'[d] = met[d]
         /\ f.dst \notin DOMAIN met => met'[f.dst] = clock
         /\ \A d \in DOMAIN lastSample \ {f.dst} : lastSample'[d] = lastSample[d]
         /\ lastSample'[f.dst] =
              IF f.dst \in DOMAIN lastSample /\ ~SampleDue(f.dst, clock)
              THEN lastSample[f.dst] ELSE clock
<1>1. /\ lastSample' = IF f.dst \in DOMAIN lastSample /\ ~SampleDue(f.dst, clock)
                       THEN lastSample ELSE Put(lastSample, f.dst, clock)
      /\ met' = IF f.dst \in DOMAIN met THEN met ELSE Put(met, f.dst, clock)
  BY DEF on_conn
<1>2. /\ DOMAIN Put(lastSample, f.dst, clock) = DOMAIN lastSample \cup {f.dst}
      /\ Put(lastSample, f.dst, clock)[f.dst] = clock
      /\ \A d \in DOMAIN lastSample \ {f.dst} :
            Put(lastSample, f.dst, clock)[d] = lastSample[d]
  BY DEF Put
<1>3. f.dst \notin DOMAIN met =>
        /\ DOMAIN Put(met, f.dst, clock) = DOMAIN met \cup {f.dst}
        /\ \A d \in DOMAIN met : Put(met, f.dst, clock)[d] = met[d]
        /\ Put(met, f.dst, clock)[f.dst] = clock
  BY DEF Put
<1> QED
  BY <1>1, <1>2, <1>3

LEMMA ConnectionKeepsSamples ==
  ASSUME SampleInv, NEW f \in Flow, on_conn(f)
  PROVE  SampleInv' /\ f.dst \in DOMAIN met'
<1> DEFINE clock == Max({now, f.ts})
           target == f.dst
<1>1. now \in Nat /\ clock \in Nat /\ clock >= now
  BY ClockType DEF SampleInv
<1>2. /\ now' = clock
      /\ floods' = [floods EXCEPT ![target] = Flood(f, clock)]
      /\ baseline' = [baseline EXCEPT ![target] = Baseline(f, clock)]
  BY DEF on_conn
<1>3. /\ DOMAIN lastSample' = DOMAIN lastSample \cup {target}
      /\ DOMAIN met' = DOMAIN met \cup {target}
      /\ \A d \in DOMAIN met : met'[d] = met[d]
      /\ target \notin DOMAIN met => met'[target] = clock
      /\ \A d \in DOMAIN lastSample \ {target} : lastSample'[d] = lastSample[d]
      /\ lastSample'[target] =
           IF target \in DOMAIN lastSample /\ ~SampleDue(target, clock)
           THEN lastSample[target] ELSE clock
  BY <1>1, ConnectionSamples
<1> HIDE DEF clock
<1>4. target \in Targets
  BY FlowType
<1>5. /\ Baseline(f, clock) \in Seq(Nat)
      /\ Len(Baseline(f, clock)) \in Nat
      /\ Len(baseline[target]) \in Nat
      /\ Len(Baseline(f, clock)) <= Len(baseline[target]) + 1
      /\ ~SampleDue(target, clock) => Baseline(f, clock) = baseline[target]
  BY <1>1, BaselineGrows
<1>6. Flood(f, clock) \in Seq(Flow)
  BY <1>1, FloodType
<1> HIDE DEF target
<1>7. floods' \in [Targets -> Seq(Flow)] /\ baseline' \in [Targets -> Seq(Nat)]
  BY <1>2, <1>4, <1>5, <1>6 DEF SampleInv
<1>8. /\ baseline'[target] = Baseline(f, clock)
      /\ \A d \in Targets \ {target} : baseline'[d] = baseline[d]
  BY <1>2, <1>4 DEF SampleInv
<1>9. Watched(target)'
  <2>1. CASE target \notin DOMAIN met
    <3>1. baseline[target] = <<>> /\ ~SampleDue(target, clock)
      BY <1>4, <2>1 DEF SampleInv, SampleDue
    <3>2. baseline'[target] = <<>>
      BY <1>5, <1>8, <3>1
    <3>3. lastSample'[target] = clock /\ met'[target] = clock
      BY <1>3, <2>1 DEF SampleInv
    <3>4. Len(baseline'[target]) * SampleEvery = 0
      BY <3>2, SampleConstants
    <3> QED
      BY <1>1, <1>2, <3>3, <3>4 DEF Watched
  <2>2. CASE target \in DOMAIN met /\ SampleDue(target, clock)
    <3> DEFINE n == Len(baseline[target])
               m == Len(Baseline(f, clock))
    <3>1. /\ met[target] \in Nat /\ lastSample[target] \in Nat
          /\ met[target] + n * SampleEvery <= lastSample[target]
      BY <1>4, <2>2 DEF SampleInv, Watched
    <3>2. clock - lastSample[target] >= SampleEvery
      BY <2>2 DEF SampleDue
    <3>3. lastSample'[target] = clock /\ met'[target] = met[target]
      BY <1>3, <2>2
    <3>4. n \in Nat /\ m \in Nat /\ m <= n + 1 /\ n + 1 \in Nat
      BY <1>5
    <3>5. /\ n * SampleEvery \in Nat /\ m * SampleEvery \in Nat
          /\ m * SampleEvery <= (n + 1) * SampleEvery
          /\ (n + 1) * SampleEvery = n * SampleEvery + SampleEvery
      <4> HIDE DEF n, m
      <4> QED
        BY <3>4, SampleConstants, TimesGrows
    <3>6. met[target] + m * SampleEvery <= clock
      <4> HIDE DEF n, m
      <4> QED
        BY <1>1, <3>1, <3>2, <3>5, SampleConstants
    <3> QED
      BY <1>1, <1>2, <1>8, <3>1, <3>3, <3>6 DEF Watched
  <2>3. CASE target \in DOMAIN met /\ ~SampleDue(target, clock)
    <3>1. Watched(target) /\ target \in DOMAIN lastSample
      BY <1>4, <2>3 DEF SampleInv
    <3>2. /\ lastSample'[target] = lastSample[target]
          /\ met'[target] = met[target]
          /\ baseline'[target] = baseline[target]
      BY <1>3, <1>5, <1>8, <2>3, <3>1
    <3> QED
      BY <1>1, <1>2, <3>1, <3>2 DEF Watched
  <2> QED
    BY <2>1, <2>2, <2>3
<1>10. ASSUME NEW d \in Targets \ {target}
       PROVE  IF d \in DOMAIN met' THEN Watched(d)' ELSE baseline'[d] = <<>>
  <2>1. CASE d \in DOMAIN met
    <3>1. Watched(d) /\ d \in DOMAIN lastSample
      BY <2>1 DEF SampleInv
    <3>2. /\ lastSample'[d] = lastSample[d] /\ met'[d] = met[d]
          /\ baseline'[d] = baseline[d]
      BY <1>3, <1>8, <2>1, <3>1
    <3>3. Watched(d)'
      BY <1>1, <1>2, <3>1, <3>2 DEF Watched
    <3> QED
      BY <1>3, <2>1, <3>3
  <2>2. CASE d \notin DOMAIN met
    <3>1. baseline'[d] = <<>>
      BY <1>8, <2>2 DEF SampleInv
    <3> QED
      BY <1>3, <2>2, <3>1
  <2> QED
    BY <2>1, <2>2
<1>11. DOMAIN lastSample' = DOMAIN met'
  BY <1>3 DEF SampleInv
<1>12. \A d \in Targets : IF d \in DOMAIN met' THEN Watched(d)' ELSE baseline'[d] = <<>>
  BY <1>3, <1>9, <1>10
<1> QED
  BY <1>1, <1>2, <1>3, <1>7, <1>11, <1>12 DEF SampleInv, target

-----------------------------------------------------------------------------
(* The alerts.                                                             *)

\* Each detector raises alerts of its own class.
LEMMA OwnClass ==
  ASSUME NEW q, NEW x, NEW c
  PROVE  /\ \A a \in Scan(x, q) : a.key[1] # "ddos"
         /\ \A a \in Exfil(x, q, c) : a.key[1] # "ddos"
         /\ \A a \in Beacon(x, q, c) : a.key[1] # "ddos"
<1>1. \A a \in Scan(x, q) : a.key[1] = "port_scan"
  BY DEF Scan, Alert
<1>2. \A a \in Exfil(x, q, c) : a.key[1] = "exfiltration"
  BY DEF Exfil, Alert
<1>3. \A a \in Beacon(x, q, c) : a.key[1] = "c2_beacon"
  BY DEF Beacon, Alert
<1> QED
  BY <1>1, <1>2, <1>3

\* A flood that is told by its baseline is one of the connection's target, and
\* the baseline has samples enough.
LEMMA FloodAlert ==
  ASSUME NEW f \in Flow, NEW clock \in Nat, NEW a \in Called(f, clock),
         a.key[1] = "ddos", a.key[2] \notin HalfOpen
  PROVE  /\ a.key[2] = f.dst
         /\ a.at = clock
         /\ Len(Baseline(f, clock)) >= MinSamples
<1>1. a \in FloodCheck(f, clock)
  <2> DEFINE beacons == Beacon(<<f.src, f.dst>>, Track(f, clock), clock)
             scans == Scan(f.src, Window(f, clock))
             exfils == Exfil(f.src, Window(f, clock), clock)
  <2>1. a \notin beacons /\ a \notin scans /\ a \notin exfils
    BY OwnClass
  <2>2. a \in FloodCheck(f, clock) \/ a \in beacons \/ a \in scans \/ a \in exfils
    BY DEF Called
  <2> QED
    BY <2>1, <2>2
<1> DEFINE q == Flood(f, clock)
           b == Baseline(f, clock)
<1>2. Flooded(f.dst, q, b) /\ a = Alert("ddos", f.dst, clock, q)
  BY <1>1 DEF FloodCheck, Ddos
<1>3. a.key[2] = f.dst /\ a.at = clock
  BY <1>2 DEF Alert
<1> QED
  BY <1>2, <1>3 DEF Flooded, Spiked

\* Whatever was called for, an entry of last_fired is an old one or that of an
\* alert called for.
LEMMA EmitFires ==
  ASSUME NEW called, Emit(called)
  PROVE  \A k \in DOMAIN fired' :
            \/ \E a \in called : a.key = k /\ fired'[k] = a.at
            \/ k \in DOMAIN fired /\ fired'[k] = fired[k]
<1> DEFINE due == {a \in called : ~Recent(a.key, a.at)}
           keys == {a.key : a \in due}
           of(k) == CHOOSE a \in due : a.key = k
<1>1. fired' = [k \in DOMAIN fired \cup keys |->
                   IF k \in keys THEN of(k).at ELSE fired[k]]
  BY DEF Emit
<1>2. \A k \in keys : of(k) \in called /\ of(k).key = k
  OBVIOUS
<1> HIDE DEF due, keys, of
<1> QED
  BY <1>1, <1>2

LEMMA ConnectionKeepsSpikes ==
  ASSUME SampleInv, SpikeInv, NEW f \in Flow, on_conn(f)
  PROVE  SpikeInv'
<1> DEFINE clock == Max({now, f.ts})
<1>1. now \in Nat /\ clock \in Nat
  BY ClockType DEF SampleInv
<1>2. Emit(Called(f, clock))
  BY DEF on_conn
<1>3. /\ DOMAIN met' = DOMAIN met \cup {f.dst}
      /\ \A d \in DOMAIN met : met'[d] = met[d]
  BY <1>1, ConnectionSamples
<1>4. Watched(f.dst)' /\ f.dst \in DOMAIN met'
  BY ConnectionKeepsSamples, FlowType DEF SampleInv
<1>5. now' = clock /\ baseline'[f.dst] = Baseline(f, clock)
  <2>1. baseline' = [baseline EXCEPT ![f.dst] = Baseline(f, clock)]
    BY DEF on_conn
  <2> QED
    BY <2>1, FlowType DEF on_conn, SampleInv
<1> HIDE DEF clock
<1> SUFFICES ASSUME NEW k \in DOMAIN fired', k[1] = "ddos", k[2] \notin HalfOpen
             PROVE  /\ k[2] \in DOMAIN met'
                    /\ fired'[k] - met'[k[2]] >= MinSamples * SampleEvery
  BY DEF SpikeInv
<1>6. CASE \E a \in Called(f, clock) : a.key = k /\ fired'[k] = a.at
  <2>1. PICK a \in Called(f, clock) : a.key = k /\ fired'[k] = a.at
    BY <1>6
  <2>2. /\ k[2] = f.dst /\ fired'[k] = clock
        /\ Len(baseline'[f.dst]) >= MinSamples
    BY <1>1, <1>5, <2>1, FloodAlert
  <2> DEFINE n == Len(baseline'[f.dst])
  <2>3. n \in Nat
    BY <1>1, <1>5, BaselineGrows
  <2>4. /\ met'[f.dst] \in Nat /\ lastSample'[f.dst] \in Nat
        /\ met'[f.dst] + n * SampleEvery <= lastSample'[f.dst]
        /\ lastSample'[f.dst] <= clock
    BY <1>4, <1>5 DEF Watched
  <2> HIDE DEF n
  <2>5. /\ MinSamples * SampleEvery \in Nat /\ n * SampleEvery \in Nat
        /\ MinSamples * SampleEvery <= n * SampleEvery
    BY <2>2, <2>3, SampleConstants, TimesGrows DEF n
  <2>6. clock - met'[f.dst] >= MinSamples * SampleEvery
    BY <1>1, <2>4, <2>5
  <2> QED
    BY <1>4, <2>2, <2>6
<1>7. CASE k \in DOMAIN fired /\ fired'[k] = fired[k]
  <2>1. k[2] \in DOMAIN met /\ fired[k] - met[k[2]] >= MinSamples * SampleEvery
    BY <1>7 DEF SpikeInv
  <2> QED
    BY <1>3, <1>7, <2>1
<1> QED
  BY <1>2, <1>6, <1>7, EmitFires

\* The final sweep looks for scans and exfiltrations only.
LEMMA SweepKeepsSpikes ==
  ASSUME SpikeInv, _final_sweep
  PROVE  SpikeInv'
<1> DEFINE called ==
        UNION {Scan(s, held[s]) \cup Exfil(s, held[s], now) : s \in Sources}
<1>1. Emit(called) /\ met' = met
  BY DEF _final_sweep
<1>2. \A a \in called : a.key[1] # "ddos"
  BY OwnClass
<1> HIDE DEF called
<1>3. \A k \in DOMAIN fired' : k[1] = "ddos" => k \in DOMAIN fired /\ fired'[k] = fired[k]
  BY <1>1, <1>2, EmitFires
<1> QED
  BY <1>1, <1>3 DEF SpikeInv

-----------------------------------------------------------------------------
(* What is called for, and what an alert does.                             *)

\* A non-empty finite set of natural numbers has a greatest element.
LEMMA MaxOfFinite ==
  ASSUME NEW S \in SUBSET Nat, IsFiniteSet(S), S # {}
  PROVE  Max(S) \in S /\ \A i \in S : i <= Max(S)
<1> DEFINE Above(i) == {j \in S : j > i}
           rests == {Above(i) : i \in S}
<1>1. rests \subseteq FiniteSubsetsOf(Nat) /\ rests # {}
  <2>1. \A i \in S : Above(i) \in SUBSET S
    OBVIOUS
  <2>2. \A i \in S : IsFiniteSet(Above(i))
    BY <2>1, FS_Subset
  <2> QED
    BY <2>1, <2>2 DEF FiniteSubsetsOf
<1>2. IsWellFoundedOn(StrictSubsetOrdering(Nat), FiniteSubsetsOf(Nat))
  BY FS_StrictSubsetOrderingWellFounded
<1>3. PICK x \in S :
         \A y \in S : ~(<<Above(y), Above(x)>> \in StrictSubsetOrdering(Nat))
  <2> HIDE DEF Above
  <2>1. \E X \in rests :
           \A Y \in rests : ~(<<Y, X>> \in StrictSubsetOrdering(Nat))
    BY <1>1, <1>2, WFMin
  <2> QED
    BY <2>1
<1>4. \A y \in S : y <= x
  <2> SUFFICES ASSUME NEW y \in S, x < y
               PROVE  FALSE
    OBVIOUS
  <2>1. y \in Above(x) /\ y \notin Above(y)
    OBVIOUS
  <2>2. Above(y) \subseteq Above(x)
    <3>1. \A j \in S : j \in Nat
      OBVIOUS
    <3>2. \A j \in S : j > y => j > x
      BY <3>1
    <3> QED
      BY <3>2
  <2>3. Above(y) \in SUBSET Nat /\ Above(x) \in SUBSET Nat /\ Above(y) # Above(x)
    BY <2>1
  <2> HIDE DEF Above
  <2> QED
    BY <1>3, <2>2, <2>3 DEF StrictSubsetOrdering
<1>5. \A y \in S : x >= y
  <2>1. \A y \in S : y \in Nat /\ x \in Nat
    OBVIOUS
  <2> QED
    BY <1>4, <2>1
<1>6. Max(S) \in S /\ \A y \in S : Max(S) >= y
  BY <1>5 DEF Max
<1>7. \A y \in S : y \in Nat
  OBVIOUS
<1> QED
  BY <1>6, <1>7

\* A queue of flows has a newest.
LEMMA NewestTime ==
  ASSUME NEW q \in Seq(Flow), Range(q) # {}
  PROVE  /\ Max({f.ts : f \in Range(q)}) \in {f.ts : f \in Range(q)}
         /\ Max({f.ts : f \in Range(q)}) \in Times
         /\ Max({f.ts : f \in Range(q)}) \in Nat
         /\ \A i \in DOMAIN q : q[i].ts <= Max({f.ts : f \in Range(q)})
<1> DEFINE T == {f.ts : f \in Range(q)}
           times == [i \in 1..Len(q) |-> q[i].ts]
<1>1. /\ Len(q) \in Nat /\ DOMAIN q = 1..Len(q)
      /\ \A i \in 1..Len(q) : q[i].ts \in Times /\ q[i].ts \in Nat
  BY LenProperties, ElementOfSeq, FlowType
<1>2. T = {q[i].ts : i \in 1..Len(q)}
  BY <1>1 DEF Range
<1>3. T \in SUBSET Nat /\ T # {} /\ T \subseteq Times
  <2>1. T \in SUBSET Nat /\ T \subseteq Times
    BY <1>1, <1>2
  <2> QED
    BY <2>1
<1>4. IsFiniteSet(T)
  <2>1. times \in Surjection(1..Len(q), T)
    BY <1>2 DEF Surjection
  <2>2. IsFiniteSet(1..Len(q))
    BY <1>1, FS_Interval
  <2> QED
    BY <2>1, <2>2, FS_Surjection
<1> HIDE DEF T, times
<1>5. Max(T) \in T /\ \A t \in T : t <= Max(T)
  BY <1>3, <1>4, MaxOfFinite
<1>6. \A i \in DOMAIN q : q[i].ts \in T
  BY <1>1, <1>2
<1> QED
  BY <1>3, <1>5, <1>6 DEF T

\* What the detectors say of a queue.
LEMMA ScanSays ==
  ASSUME NEW x, NEW q, NEW a \in Scan(x, q)
  PROVE  /\ a.key = <<"port_scan", x>> /\ a.from = q /\ Range(q) # {}
         /\ a.at = Max({f.ts : f \in Range(q)})
         /\ Scan(x, q) = {a}
<1>1. ~(Cardinality(Hosts(q)) < ScanHosts)
  BY DEF Scan
<1>2. Range(q) # {}
  <2> SUFFICES ASSUME Range(q) = {} PROVE FALSE
    OBVIOUS
  <2>1. Hosts(q) = {} /\ ScanHosts \in Nat \ {0}
    BY ConnAssumption DEF Hosts
  <2>2. Cardinality(Hosts(q)) = 0
    BY <2>1, FS_EmptySet
  <2> QED
    BY <1>1, <2>1, <2>2
<1> QED
  BY <1>1, <1>2 DEF Scan, Alert

LEMMA ExfilSays ==
  ASSUME NEW x, NEW q, NEW c, NEW a \in Exfil(x, q, c)
  PROVE  /\ \E d \in Targets : a.key = <<"exfiltration", <<x, d>>>> /\ a.at = c
         /\ q # <<>>
<1>1. /\ Best(q) \subseteq Targets
      /\ \A d \in Best(q) : Cardinality(FlowsTo(q, d)) >= ExfilFlows
  BY DEF Best
<1>2. PICK d \in Best(q) : a = Alert("exfiltration", <<x, d>>, c, q)
  BY DEF Exfil
<1>3. q # <<>>
  <2> SUFFICES ASSUME q = <<>> PROVE FALSE
    OBVIOUS
  <2>1. FlowsTo(q, d) = {} /\ Cardinality({}) = 0
    BY FS_EmptySet DEF FlowsTo
  <2>2. ExfilFlows \in Nat \ {0}
    BY ConnAssumption
  <2> QED
    BY <1>1, <2>1, <2>2
<1> QED
  BY <1>1, <1>2, <1>3 DEF Alert

LEMMA BeaconSays ==
  ASSUME NEW x, NEW q, NEW c, NEW a \in Beacon(x, q, c)
  PROVE  a.key = <<"c2_beacon", x>> /\ a.at = c
  BY DEF Beacon, Alert

LEMMA FloodSays ==
  ASSUME NEW f, NEW c, NEW a \in FloodCheck(f, c)
  PROVE  a.key = <<"ddos", f.dst>> /\ a.at = c
  BY DEF FloodCheck, Ddos, Alert

\* Alerts called for at a connection.
LEMMA CalledSays ==
  ASSUME NEW f \in Flow, NEW clock, NEW a \in Called(f, clock)
  PROVE  \/ a \in Scan(f.src, Window(f, clock))
         \/ a.key = <<"c2_beacon", <<f.src, f.dst>>>> /\ a.at = clock
         \/ a.key = <<"ddos", f.dst>> /\ a.at = clock
         \/ \E d \in Targets :
               a.key = <<"exfiltration", <<f.src, d>>>> /\ a.at = clock
<1> DEFINE q == Window(f, clock)
           p == <<f.src, f.dst>>
<1>1. \/ a \in FloodCheck(f, clock)
      \/ a \in Beacon(p, Track(f, clock), clock)
      \/ a \in Scan(f.src, q) \/ a \in Exfil(f.src, q, clock)
  BY DEF Called
<1> HIDE DEF q, p
<1>2. \/ a.key = <<"ddos", f.dst>> /\ a.at = clock
      \/ a.key = <<"c2_beacon", p>> /\ a.at = clock
      \/ a \in Scan(f.src, q)
      \/ \E d \in Targets :
            a.key = <<"exfiltration", <<f.src, d>>>> /\ a.at = clock
  BY <1>1, FloodSays, BeaconSays, ExfilSays
<1> QED
  BY <1>2 DEF q, p

\* A subject that is called for ends up with a recent alert, a new one or one
\* before.
LEMMA EmitLeavesRecent ==
  ASSUME NEW called, Emit(called), NEW k, k[1] \in Classes, NEW t \in Int,
         \E a \in called : a.key = k,
         \A a \in called : a.key = k => a.at = t
  PROVE  k \in DOMAIN fired' /\ t - fired'[k] < Cooldown[k[1]]
<1> DEFINE due == {a \in called : ~Recent(a.key, a.at)}
           keys == {a.key : a \in due}
           of(x) == CHOOSE a \in due : a.key = x
<1>1. fired' = [x \in DOMAIN fired \cup keys |->
                   IF x \in keys THEN of(x).at ELSE fired[x]]
  BY DEF Emit
<1>2. Cooldown[k[1]] \in Nat /\ Cooldown[k[1]] > 0
  BY ConnAssumption
<1>3. CASE Recent(k, t)
  <2>1. k \in DOMAIN fired /\ t - fired[k] < Cooldown[k[1]]
    BY <1>3 DEF Recent, Cooling
  <2>2. k \notin keys
    BY <1>3
  <2> HIDE DEF keys, due, of
  <2> QED
    BY <1>1, <2>1, <2>2
<1>4. CASE ~Recent(k, t)
  <2>1. k \in keys
    BY <1>4
  <2>2. of(k) \in called /\ of(k).key = k
    BY <2>1
  <2>3. of(k).at = t
    BY <2>2
  <2> HIDE DEF keys, due, of
  <2>4. k \in DOMAIN fired' /\ fired'[k] = t
    BY <1>1, <2>1, <2>3
  <2> QED
    BY <1>2, <2>4
<1> QED
  BY <1>3, <1>4

\* An entry that an alert has written was not recent, and its grounds are those
\* of the same alert; the others stay with theirs.
LEMMA EmitWrites ==
  ASSUME NEW called, Emit(called)
  PROVE  /\ DOMAIN fired \subseteq DOMAIN fired'
         /\ \A k \in DOMAIN fired' :
               \/ \E a \in called : /\ a.key = k /\ ~Recent(k, a.at)
                                    /\ fired'[k] = a.at
                                    /\ k \in DOMAIN grounds' /\ grounds'[k] = a.from
               \/ /\ k \in DOMAIN fired /\ fired'[k] = fired[k]
                  /\ k \in DOMAIN grounds =>
                        k \in DOMAIN grounds' /\ grounds'[k] = grounds[k]
<1> DEFINE due == {a \in called : ~Recent(a.key, a.at)}
           keys == {a.key : a \in due}
           of(x) == CHOOSE a \in due : a.key = x
<1>1. /\ fired' = [x \in DOMAIN fired \cup keys |->
                      IF x \in keys THEN of(x).at ELSE fired[x]]
      /\ grounds' = [x \in DOMAIN grounds \cup keys |->
                        IF x \in keys THEN of(x).from ELSE grounds[x]]
  BY DEF Emit
<1>2. \A k \in keys : of(k) \in called /\ of(k).key = k /\ ~Recent(k, of(k).at)
  OBVIOUS
<1> HIDE DEF due, keys, of
<1>3. ASSUME NEW k \in keys
      PROVE  \E a \in called : /\ a.key = k /\ ~Recent(k, a.at)
                               /\ fired'[k] = a.at
                               /\ k \in DOMAIN grounds' /\ grounds'[k] = a.from
  <2>1. fired'[k] = of(k).at /\ k \in DOMAIN grounds' /\ grounds'[k] = of(k).from
    BY <1>1
  <2> QED
    BY <1>2, <2>1
<1>4. ASSUME NEW k \in DOMAIN fired', k \notin keys
      PROVE  /\ k \in DOMAIN fired /\ fired'[k] = fired[k]
             /\ k \in DOMAIN grounds =>
                   k \in DOMAIN grounds' /\ grounds'[k] = grounds[k]
  BY <1>1, <1>4
<1>5. DOMAIN fired \subseteq DOMAIN fired'
  BY <1>1
<1> QED
  BY <1>3, <1>4, <1>5

-----------------------------------------------------------------------------
(* Scans are not repeated, and the sweep leaves nothing.                   *)

\* A scan is dated by the newest of the flows it rests on.
GroundsInv ==
    \A k \in DOMAIN fired :
        k[1] = "port_scan" =>
            /\ k \in DOMAIN grounds /\ fired[k] \in Nat
            /\ fired[k] = Max({f.ts : f \in Range(grounds[k])})

\* Of an alert of a scan.
ScanOf(a) ==
    /\ a.at \in Nat /\ a.at \in Times
    /\ a.at = Max({f.ts : f \in Range(a.from)})

LEMMA EmitScans ==
  ASSUME GroundsInv, NEW called, Emit(called),
         \A a \in called : a.key[1] = "port_scan" => ScanOf(a)
  PROVE  GroundsInv' /\ NoneTwice("port_scan")
<1>1. ASSUME NEW k \in DOMAIN fired', k[1] = "port_scan"
      PROVE  /\ k \in DOMAIN grounds' /\ fired'[k] \in Nat
             /\ fired'[k] = Max({f.ts : f \in Range(grounds'[k])})
             /\ k \in DOMAIN fired /\ fired'[k] # fired[k] =>
                   grounds'[k] # grounds[k]
  <2>1. CASE \E a \in called : /\ a.key = k /\ ~Recent(k, a.at)
                               /\ fired'[k] = a.at
                               /\ k \in DOMAIN grounds' /\ grounds'[k] = a.from
    <3>1. PICK a \in called : /\ a.key = k /\ ~Recent(k, a.at)
                              /\ fired'[k] = a.at
                              /\ k \in DOMAIN grounds' /\ grounds'[k] = a.from
      BY <2>1
    <3>2. a.at \in Nat /\ a.at = Max({f.ts : f \in Range(a.from)})
      BY <1>1, <3>1 DEF ScanOf
    <3>3. ASSUME k \in DOMAIN fired, grounds'[k] = grounds[k]
          PROVE  FALSE
      <4>1. a.at = fired[k]
        BY <1>1, <3>1, <3>2, <3>3 DEF GroundsInv
      <4>2. Cooldown["port_scan"] \in Nat /\ Cooldown["port_scan"] > 0
        BY ConnAssumption DEF Classes
      <4>3. Recent(k, a.at)
        BY <1>1, <3>2, <3>3, <4>1, <4>2 DEF Recent, Cooling
      <4> QED
        BY <3>1, <4>3
    <3> QED
      BY <3>1, <3>2, <3>3
  <2>2. CASE /\ k \in DOMAIN fired /\ fired'[k] = fired[k]
             /\ k \in DOMAIN grounds =>
                   k \in DOMAIN grounds' /\ grounds'[k] = grounds[k]
    BY <1>1, <2>2 DEF GroundsInv
  <2> QED
    BY <2>1, <2>2, EmitWrites
<1>2. GroundsInv'
  BY <1>1 DEF GroundsInv
<1>3. NoneTwice("port_scan")
  BY <1>1, EmitWrites DEF NoneTwice
<1> QED
  BY <1>2, <1>3

LEMMA WindowType ==
  ASSUME WindowInv, NEW f \in Flow, NEW clock \in Nat
  PROVE  Window(f, clock) \in Seq(Flow)
<1>1. Append(held[f.src], f) \in Seq(Flow)
  BY FlowType, AppendProperties DEF WindowInv
<1>2. clock - Span \in Int
  BY SpanType
<1> QED
  BY <1>1, <1>2, TrimmedType DEF Window

LEMMA ScanType ==
  ASSUME NEW x, NEW q \in Seq(Flow), NEW a \in Scan(x, q)
  PROVE  ScanOf(a)
<1>1. /\ a.from = q /\ Range(q) # {}
      /\ a.at = Max({f.ts : f \in Range(q)})
  BY ScanSays
<1>2. a.at \in Nat /\ a.at \in Times
  BY <1>1, NewestTime
<1> QED
  BY <1>1, <1>2 DEF ScanOf

LEMMA ConnectionScans ==
  ASSUME WindowInv, GroundsInv, NEW f \in Flow, on_conn(f)
  PROVE  GroundsInv' /\ NoneTwice("port_scan")
<1> DEFINE clock == Max({now, f.ts})
           called == Called(f, clock)
<1>1. clock \in Nat
  BY ClockType DEF WindowInv
<1>2. Emit(called)
  BY DEF on_conn
<1>3. Window(f, clock) \in Seq(Flow)
  BY <1>1, WindowType
<1> HIDE DEF clock
<1>4. \A a \in called : a.key[1] = "port_scan" => ScanOf(a)
  <2> SUFFICES ASSUME NEW a \in Called(f, clock), a.key[1] = "port_scan"
               PROVE  ScanOf(a)
    OBVIOUS
  <2>1. a \in Scan(f.src, Window(f, clock))
    BY CalledSays
  <2> QED
    BY <1>3, <2>1, ScanType
<1> HIDE DEF called
<1> QED
  BY <1>2, <1>4, EmitScans

\* The alerts the final sweep calls for.
SweepCalled ==
    UNION {Scan(s, held[s]) \cup Exfil(s, held[s], now) : s \in Sources}

LEMMA SweepSays ==
  ASSUME WindowInv, NEW a \in SweepCalled
  PROVE  \/ \E s \in Sources :
               a \in Scan(s, held[s]) /\ a.key = <<"port_scan", s>> /\ ScanOf(a)
         \/ \E s \in Sources, d \in Targets :
               /\ a.key = <<"exfiltration", <<s, d>>>> /\ a.at = now
               /\ held[s] # <<>>
<1>1. PICK s \in Sources : a \in Scan(s, held[s]) \/ a \in Exfil(s, held[s], now)
  BY DEF SweepCalled
<1>2. held[s] \in Seq(Flow)
  BY DEF WindowInv
<1>3. CASE a \in Scan(s, held[s])
  BY <1>2, <1>3, ScanSays, ScanType
<1>4. CASE a \in Exfil(s, held[s], now)
  BY <1>4, ExfilSays
<1> QED
  BY <1>1, <1>3, <1>4

LEMMA SweepScans ==
  ASSUME WindowInv, GroundsInv, _final_sweep
  PROVE  GroundsInv' /\ NoneTwice("port_scan")
<1>1. Emit(SweepCalled)
  BY DEF _final_sweep, SweepCalled
<1>2. \A a \in SweepCalled : a.key[1] = "port_scan" => ScanOf(a)
  BY SweepSays
<1> QED
  BY <1>1, <1>2, EmitScans

LEMMA SweepReports ==
  ASSUME WindowInv, _final_sweep
  PROVE  SweepLeavesNothing'
<1>1. Emit(SweepCalled) /\ held' = held /\ now' = now /\ now \in Int
  BY DEF _final_sweep, SweepCalled, WindowInv
<1> SUFFICES ASSUME NEW s \in Sources,
                    NEW a \in Scan(s, held[s]) \cup Exfil(s, held[s], now)
             PROVE  Recent(a.key, a.at)'
  BY <1>1 DEF SweepLeavesNothing
<1>2. a \in SweepCalled /\ held[s] \in Seq(Flow)
  BY DEF SweepCalled, WindowInv
<1>3. /\ a.key[1] \in Classes /\ a.at \in Int
      /\ \A b \in SweepCalled : b.key = a.key => b.at = a.at
  <2>1. CASE a \in Scan(s, held[s])
    <3>1. a.key = <<"port_scan", s>> /\ a.at \in Int /\ Scan(s, held[s]) = {a}
      <4>1. a.key = <<"port_scan", s>> /\ Scan(s, held[s]) = {a}
        BY <2>1, ScanSays
      <4>2. ScanOf(a)
        BY <1>2, <2>1, ScanType
      <4>3. a.at \in Int
        BY <4>2 DEF ScanOf
      <4> QED
        BY <4>1, <4>3
    <3>2. ASSUME NEW b \in SweepCalled, b.key = a.key
          PROVE  b.at = a.at
      <4>1. PICK u \in Sources : b \in Scan(u, held[u]) /\ b.key = <<"port_scan", u>>
        BY <3>1, <3>2, SweepSays
      <4>2. u = s
        BY <3>1, <3>2, <4>1
      <4> QED
        BY <3>1, <4>1, <4>2
    <3> QED
      BY <3>1, <3>2 DEF Classes
  <2>2. CASE a \in Exfil(s, held[s], now)
    <3>1. a.key[1] = "exfiltration" /\ a.at = now
      BY <2>2, ExfilSays
    <3>2. \A b \in SweepCalled : b.key = a.key => b.at = now
      BY <3>1, SweepSays
    <3> QED
      BY <1>1, <3>1, <3>2 DEF Classes
  <2> QED
    BY <2>1, <2>2
<1>4. a.key \in DOMAIN fired' /\ a.at - fired'[a.key] < Cooldown[a.key[1]]
  BY <1>1, <1>2, <1>3, EmitLeavesRecent
<1> QED
  BY <1>4 DEF Recent, Cooling

-----------------------------------------------------------------------------
(* Types.                                                                  *)

\* A flood track holds no more flows than there were, and the clock is the time
\* of a flow as soon as there is one.
TypeInv ==
    /\ TypeOK
    /\ \A d \in Targets : Len(floods[d]) <= count
    /\ now \in Times \/ \A s \in Sources : held[s] = <<>>

LEMMA TrimmedLen ==
  ASSUME NEW q \in Seq(Flow), NEW cutoff \in Int
  PROVE  /\ Trimmed(q, cutoff) \in Seq(Flow)
         /\ Len(Trimmed(q, cutoff)) <= Len(q)
<1>1. PICK k \in 0..Len(q) : Trimmed(q, cutoff) = SubSeq(q, k + 1, Len(q))
  BY TrimmedLosesStale
<1>2. Len(SubSeq(q, k + 1, Len(q))) = Len(q) - k
  BY Rest
<1>3. Len(q) \in Nat /\ k \in Nat
  BY LenProperties
<1>4. Len(q) - k <= Len(q)
  BY <1>3
<1>5. Len(Trimmed(q, cutoff)) <= Len(q)
  BY <1>1, <1>2, <1>4
<1> QED
  BY <1>5, TrimmedType

LEMMA PutType ==
  ASSUME NEW dict, NEW key, NEW value
  PROVE  /\ DOMAIN Put(dict, key, value) = DOMAIN dict \cup {key}
         /\ Range(Put(dict, key, value)) \subseteq Range(dict) \cup {value}
  BY DEF Put, Range

LEMMA TimesType == Times \subseteq Nat /\ Keep \in Nat \ {0} /\ BeaconSpan \in Nat
  BY ConnAssumption

\* The queues after a connection.
LEMMA FloodLen ==
  ASSUME TypeInv, NEW f \in Flow, NEW clock \in Nat
  PROVE  /\ Flood(f, clock) \in Seq(Flow)
         /\ Len(Flood(f, clock)) \in 0..(count + 1)
<1> DEFINE q == Append(floods[f.dst], f)
<1>1. floods[f.dst] \in Seq(Flow) /\ Len(floods[f.dst]) <= count /\ count \in Nat
  BY FlowType DEF TypeInv, TypeOK, Queue
<1>2. q \in Seq(Flow) /\ Len(q) = Len(floods[f.dst]) + 1
  BY <1>1, AppendProperties
<1>3. clock - FloodSpan \in Int
  BY SpanType
<1>4. Flood(f, clock) \in Seq(Flow) /\ Len(Flood(f, clock)) <= Len(q)
  <2> HIDE DEF q
  <2>1. /\ Trimmed(q, clock - FloodSpan) \in Seq(Flow)
        /\ Len(Trimmed(q, clock - FloodSpan)) <= Len(q)
    BY <1>2, <1>3, TrimmedLen
  <2> QED
    BY <2>1 DEF Flood, q
<1>5. Len(Flood(f, clock)) \in Nat /\ Len(floods[f.dst]) \in Nat
  BY <1>1, <1>4, LenProperties
<1> QED
  BY <1>1, <1>2, <1>4, <1>5

LEMMA BaselineLen ==
  ASSUME TypeInv, NEW f \in Flow, NEW clock \in Nat, count < MaxFlows
  PROVE  /\ Baseline(f, clock) \in Seq(0..MaxFlows)
         /\ Len(Baseline(f, clock)) <= KeepSamples
<1> DEFINE old == baseline[f.dst]
           b == Append(old, Len(Flood(f, clock)))
<1>1. old \in Seq(0..MaxFlows) /\ Len(old) \in Nat /\ Len(old) <= KeepSamples
  BY FlowType, LenProperties DEF TypeInv, TypeOK
<1>2. Len(Flood(f, clock)) \in 0..MaxFlows
  <2>1. count \in Nat /\ MaxFlows \in Nat
    BY ConnAssumption DEF TypeInv, TypeOK
  <2> QED
    BY <2>1, FloodLen
<1>3. b \in Seq(0..MaxFlows) /\ b # <<>> /\ Len(b) = Len(old) + 1
  BY <1>1, <1>2, AppendProperties
<1>4. Baseline(f, clock) = IF ~SampleDue(f.dst, clock) THEN old
                           ELSE IF Len(b) > KeepSamples THEN Tail(b) ELSE b
  BY DEF Baseline
<1> HIDE DEF old, b
<1>5. Tail(b) \in Seq(0..MaxFlows) /\ Len(Tail(b)) = Len(b) - 1
  BY <1>3, HeadTailProperties
<1>6. KeepSamples \in Nat /\ Len(b) - 1 <= KeepSamples
  BY <1>1, <1>3, SampleConstants
<1>7. CASE ~SampleDue(f.dst, clock)
  BY <1>1, <1>4, <1>7
<1>8. CASE SampleDue(f.dst, clock) /\ Len(b) > KeepSamples
  BY <1>4, <1>5, <1>6, <1>8
<1>9. CASE SampleDue(f.dst, clock) /\ ~(Len(b) > KeepSamples)
  <2>1. Len(b) <= KeepSamples
    BY <1>1, <1>3, <1>6, <1>9
  <2> QED
    BY <1>3, <1>4, <1>9, <2>1
<1> QED
  BY <1>7, <1>8, <1>9

LEMMA TrackLen ==
  ASSUME TypeInv, NEW f \in Flow, NEW clock \in Nat
  PROVE  Track(f, clock) \in Seq(Flow) /\ Len(Track(f, clock)) <= Keep
<1> DEFINE old == tracks[<<f.src, f.dst>>]
           q == Append(old, f)
           r == IF Len(q) > Keep THEN Tail(q) ELSE q
<1>1. old \in Seq(Flow) /\ Len(old) \in Nat /\ Len(old) <= Keep
  <2>1. <<f.src, f.dst>> \in Pairs
    BY FlowType DEF Pairs
  <2> QED
    BY <2>1, LenProperties DEF TypeInv, TypeOK, Queue
<1>2. q \in Seq(Flow) /\ q # <<>> /\ Len(q) = Len(old) + 1
  BY <1>1, AppendProperties
<1>3. Track(f, clock) = IF f.dst \in Infra THEN old
                        ELSE Trimmed(r, clock - BeaconSpan)
  BY DEF Track, Newest
<1> HIDE DEF old, q
<1>4. Tail(q) \in Seq(Flow) /\ Len(Tail(q)) = Len(q) - 1
  BY <1>2, HeadTailProperties
<1>5. r \in Seq(Flow) /\ Len(r) \in Nat /\ Len(r) <= Keep
  BY <1>1, <1>2, <1>4, TimesType
<1>6. clock - BeaconSpan \in Int
  BY TimesType
<1> HIDE DEF r
<1>7. /\ Trimmed(r, clock - BeaconSpan) \in Seq(Flow)
      /\ Len(Trimmed(r, clock - BeaconSpan)) <= Len(r)
  BY <1>5, <1>6, TrimmedLen
<1>8. Len(Trimmed(r, clock - BeaconSpan)) \in Nat
  BY <1>7, LenProperties
<1> QED
  BY <1>1, <1>3, <1>5, <1>7, <1>8, TimesType

\* The clock a connection sets is the time of a flow.
LEMMA ClockIsTime ==
  ASSUME TypeInv, NEW f \in Flow
  PROVE  Max({now, f.ts}) \in Times /\ Max({now, f.ts}) \in Nat
<1>1. now \in Nat /\ (now \in Times \/ now = 0)
  BY TimesType DEF TypeInv, TypeOK
<1>2. f.ts \in Times /\ f.ts \in Nat
  BY FlowType
<1>3. Max({now, f.ts}) \in {now, f.ts} /\ Max({now, f.ts}) >= f.ts
  BY <1>1, <1>2, MaxOfTwo
<1>4. CASE Max({now, f.ts}) = now /\ now = 0
  <2>1. f.ts = 0
    BY <1>2, <1>3, <1>4
  <2> QED
    BY <1>2, <1>4, <2>1
<1> QED
  BY <1>1, <1>2, <1>3, <1>4

\* What the alerts called for are about.
Subject == Classes \X (Sources \cup Targets \cup Pairs)

LEMMA EmitTypes ==
  ASSUME DOMAIN fired \subseteq Subject, Range(fired) \subseteq Times,
         NEW called, Emit(called),
         \A a \in called : a.key \in Subject /\ a.at \in Times
  PROVE  DOMAIN fired' \subseteq Subject /\ Range(fired') \subseteq Times
<1>1. \A k \in DOMAIN fired : k \in Subject /\ fired[k] \in Times
  BY DEF Range
<1> HIDE DEF Subject
<1>2. \A k \in DOMAIN fired' : k \in Subject /\ fired'[k] \in Times
  BY <1>1, EmitFires
<1> QED
  BY <1>2 DEF Range

LEMMA SubjectTypes ==
  ASSUME NEW s \in Sources, NEW d \in Targets
  PROVE  /\ <<"port_scan", s>> \in Subject /\ <<"ddos", d>> \in Subject
         /\ <<"exfiltration", <<s, d>>>> \in Subject
         /\ <<"c2_beacon", <<s, d>>>> \in Subject
  BY DEF Subject, Classes, Pairs

LEMMA CalledTypes ==
  ASSUME TypeInv, NEW f \in Flow, NEW clock \in Times,
         NEW a \in Called(f, clock)
  PROVE  a.key \in Subject /\ a.at \in Times
<1>1. clock \in Nat /\ clock - Span \in Int
  BY TimesType, SpanType
<1>2. Window(f, clock) \in Seq(Flow)
  <2>1. held[f.src] \in Seq(Flow)
    BY FlowType DEF TypeInv, TypeOK, Queue
  <2>2. Append(held[f.src], f) \in Seq(Flow)
    BY <2>1, AppendProperties
  <2> QED
    BY <1>1, <2>2, TrimmedType DEF Window
<1>3. f.src \in Sources /\ f.dst \in Targets
  BY FlowType
<1>4. CASE a \in Scan(f.src, Window(f, clock))
  <2>1. ScanOf(a)
    BY <1>2, <1>4, ScanType
  <2>2. a.key = <<"port_scan", f.src>>
    BY <1>4, ScanSays
  <2> QED
    BY <1>3, <2>1, <2>2, SubjectTypes DEF ScanOf
<1>5. CASE \/ a.key = <<"c2_beacon", <<f.src, f.dst>>>> /\ a.at = clock
           \/ a.key = <<"ddos", f.dst>> /\ a.at = clock
           \/ \E d \in Targets :
                 a.key = <<"exfiltration", <<f.src, d>>>> /\ a.at = clock
  BY <1>3, <1>5, SubjectTypes
<1> QED
  BY <1>4, <1>5, CalledSays

LEMMA ConnectionKeepsTypes ==
  ASSUME TypeInv, NEW f \in Flow, on_conn(f), count < MaxFlows, UNCHANGED swept
  PROVE  TypeInv'
<1> DEFINE clock == Max({now, f.ts})
           dead == Dead(f, clock)
           seen == Put(lastSeen, f.src, f.ts)
           kept == {s \in Sources : s \notin dead}
<1>1. clock \in Times /\ clock \in Nat
  BY ClockIsTime
<1>2. f.src \in Sources /\ f.dst \in Targets /\ f.ts \in Times
  BY FlowType
<1>3. count \in Nat /\ MaxFlows \in Nat
  BY ConnAssumption DEF TypeInv, TypeOK
<1>4. now' = clock /\ count' = count + 1
  BY DEF on_conn
<1>5. held' \in [Sources -> Queue]
  <2>1. held' = [s \in Sources |->
                    IF s \in dead THEN <<>>
                    ELSE IF s = f.src THEN Window(f, clock) ELSE held[s]]
    BY DEF on_conn
  <2>2. Window(f, clock) \in Seq(Flow)
    <3>1. held[f.src] \in Seq(Flow)
      BY <1>2 DEF TypeInv, TypeOK, Queue
    <3>2. Append(held[f.src], f) \in Seq(Flow) /\ clock - Span \in Int
      BY <1>1, <3>1, AppendProperties, SpanType
    <3> QED
      BY <3>2, TrimmedType DEF Window
  <2>3. <<>> \in Seq(Flow)
    OBVIOUS
  <2> HIDE DEF dead, clock
  <2> QED
    BY <2>1, <2>2, <2>3 DEF TypeInv, TypeOK, Queue
<1>6. DOMAIN lastSeen' \subseteq Sources /\ Range(lastSeen') \subseteq Times
  <2>1. DOMAIN seen \subseteq Sources /\ Range(seen) \subseteq Times
    <3>1. DOMAIN lastSeen \subseteq Sources /\ Range(lastSeen) \subseteq Times
      BY DEF TypeInv, TypeOK
    <3>2. /\ DOMAIN seen = DOMAIN lastSeen \cup {f.src}
          /\ Range(seen) \subseteq Range(lastSeen) \cup {f.ts}
      BY PutType
    <3> HIDE DEF seen
    <3> QED
      BY <1>2, <3>1, <3>2
  <2>2. lastSeen' = Restrict(seen, DOMAIN seen \cap kept)
    BY DEF on_conn
  <2> HIDE DEF seen, kept
  <2>3. lastSeen' = [s \in DOMAIN seen \cap kept |-> seen[s]]
    BY <2>2 DEF Restrict
  <2>4. \A s \in DOMAIN seen : seen[s] \in Times
    BY <2>1 DEF Range
  <2> QED
    BY <2>1, <2>3, <2>4 DEF Range
<1>7. /\ floods' \in [Targets -> Queue]
      /\ \A d \in Targets : Len(floods'[d]) <= count'
  <2>1. floods' = [floods EXCEPT ![f.dst] = Flood(f, clock)]
    BY DEF on_conn
  <2>2. /\ Flood(f, clock) \in Seq(Flow)
        /\ Len(Flood(f, clock)) \in 0..(count + 1)
    BY <1>1, FloodLen
  <2>3. /\ floods \in [Targets -> Seq(Flow)]
        /\ \A d \in Targets : Len(floods[d]) \in Nat /\ Len(floods[d]) <= count
    BY LenProperties DEF TypeInv, TypeOK, Queue
  <2> HIDE DEF clock
  <2>4. floods' \in [Targets -> Seq(Flow)]
    BY <2>1, <2>2, <2>3
  <2>5. ASSUME NEW d \in Targets
        PROVE  Len(floods'[d]) <= count + 1
    <3>1. floods'[d] = IF d = f.dst THEN Flood(f, clock) ELSE floods[d]
      BY <2>1, <2>3
    <3> QED
      BY <1>3, <2>2, <2>3, <3>1
  <2> QED
    BY <1>4, <2>4, <2>5 DEF Queue
<1>8. /\ baseline' \in [Targets -> Seq(0..MaxFlows)]
      /\ \A d \in Targets : Len(baseline'[d]) <= KeepSamples
  <2>1. baseline' = [baseline EXCEPT ![f.dst] = Baseline(f, clock)]
    BY DEF on_conn
  <2>2. /\ Baseline(f, clock) \in Seq(0..MaxFlows)
        /\ Len(Baseline(f, clock)) <= KeepSamples
    BY <1>1, BaselineLen
  <2> HIDE DEF clock
  <2> QED
    BY <2>1, <2>2 DEF TypeInv, TypeOK
<1>9. DOMAIN lastSample' \subseteq Targets /\ Range(lastSample') \subseteq Times
  <2>1. lastSample' = lastSample \/ lastSample' = Put(lastSample, f.dst, clock)
    BY DEF on_conn
  <2> HIDE DEF clock
  <2>2. /\ DOMAIN Put(lastSample, f.dst, clock) = DOMAIN lastSample \cup {f.dst}
        /\ Range(Put(lastSample, f.dst, clock)) \subseteq Range(lastSample) \cup {clock}
    BY PutType
  <2>3. DOMAIN lastSample \subseteq Targets /\ Range(lastSample) \subseteq Times
    BY DEF TypeInv, TypeOK
  <2> QED
    BY <1>1, <1>2, <2>1, <2>2, <2>3
<1>10. /\ tracks' \in [Pairs -> Queue]
       /\ \A p \in Pairs : Len(tracks'[p]) <= Keep
  <2>1. tracks' = [tracks EXCEPT ![<<f.src, f.dst>>] = Track(f, clock)]
    BY DEF on_conn
  <2>2. Track(f, clock) \in Seq(Flow) /\ Len(Track(f, clock)) <= Keep
    BY <1>1, TrackLen
  <2> HIDE DEF clock
  <2> QED
    BY <2>1, <2>2 DEF TypeInv, TypeOK, Queue
<1>11. DOMAIN fired' \subseteq Subject /\ Range(fired') \subseteq Times
  <2>1. Emit(Called(f, clock))
    BY DEF on_conn
  <2>2. DOMAIN fired \subseteq Subject /\ Range(fired) \subseteq Times
    BY DEF TypeInv, TypeOK, Subject
  <2>3. \A a \in Called(f, clock) : a.key \in Subject /\ a.at \in Times
    BY <1>1, CalledTypes
  <2> HIDE DEF clock, Subject
  <2> QED
    BY <2>1, <2>2, <2>3, EmitTypes
<1>12. now' \in Times \cup {0} /\ count' \in 0..MaxFlows /\ swept' \in BOOLEAN
  BY <1>1, <1>3, <1>4 DEF TypeInv, TypeOK
<1>13. TypeOK'
  BY <1>5, <1>6, <1>7, <1>8, <1>9, <1>10, <1>11, <1>12 DEF TypeOK, Subject, Queue
<1> QED
  BY <1>1, <1>4, <1>7, <1>13 DEF TypeInv

LEMMA SweepKeepsTypes ==
  ASSUME TypeInv, WindowInv, _final_sweep
  PROVE  TypeInv'
<1>1. Emit(SweepCalled)
  BY DEF _final_sweep, SweepCalled
<1>2. /\ UNCHANGED <<now, count, held, lastSeen, floods, baseline, lastSample, tracks>>
      /\ swept' = TRUE
  BY DEF _final_sweep, trackVars
<1>3. DOMAIN fired \subseteq Subject /\ Range(fired) \subseteq Times
  BY DEF TypeInv, TypeOK, Subject
<1>4. ASSUME NEW a \in SweepCalled
      PROVE  a.key \in Subject /\ a.at \in Times
  <2>1. CASE \E s \in Sources :
               a \in Scan(s, held[s]) /\ a.key = <<"port_scan", s>> /\ ScanOf(a)
    <3>1. PICK s \in Sources : a.key = <<"port_scan", s>> /\ ScanOf(a)
      BY <2>1
    <3>2. a.key \in Subject
      BY <3>1 DEF Subject, Classes
    <3> QED
      BY <3>1, <3>2 DEF ScanOf
  <2>2. CASE \E s \in Sources, d \in Targets :
               /\ a.key = <<"exfiltration", <<s, d>>>> /\ a.at = now
               /\ held[s] # <<>>
    BY <2>2, SubjectTypes DEF TypeInv
  <2> QED
    BY <2>1, <2>2, SweepSays
<1>5. DOMAIN fired' \subseteq Subject /\ Range(fired') \subseteq Times
  BY <1>1, <1>3, <1>4, EmitTypes
<1>6. TypeOK'
  BY <1>2, <1>5 DEF TypeInv, TypeOK, Subject, Queue
<1> QED
  BY <1>2, <1>6 DEF TypeInv

LEMMA TypeFrame ==
  ASSUME TypeInv, UNCHANGED vars
  PROVE  TypeInv'
  BY DEF TypeInv, TypeOK, vars, connVars, trackVars, Queue

LEMMA TypeInit == Init => TypeInv
<1> SUFFICES ASSUME Init
             PROVE  TypeInv
  OBVIOUS
<1> USE DEF Init
<1>1. <<>> \in Seq(Flow) /\ Len(<<>>) = 0 /\ <<>> \in Seq(0..MaxFlows)
  OBVIOUS
<1>2. /\ MaxFlows \in Nat /\ KeepSamples \in Nat /\ Keep \in Nat
  BY ConnAssumption
<1>3. DOMAIN <<>> = {} /\ Range(<<>>) = {}
  <2>1. DOMAIN <<>> = {}
    OBVIOUS
  <2> QED
    BY <2>1 DEF Range
<1>4. now \in Times \cup {0} /\ count \in 0..MaxFlows /\ swept \in BOOLEAN
  <2>1. count \in 0..MaxFlows
    BY <1>2
  <2>2. now \in Times \cup {0}
    OBVIOUS
  <2> QED
    BY <2>1, <2>2
<1>5. /\ held \in [Sources -> Queue] /\ floods \in [Targets -> Queue]
      /\ tracks \in [Pairs -> Queue] /\ baseline \in [Targets -> Seq(0..MaxFlows)]
  BY <1>1 DEF Queue
<1>6. /\ \A d \in Targets : Len(baseline[d]) <= KeepSamples
      /\ \A p \in Pairs : Len(tracks[p]) <= Keep
      /\ \A d \in Targets : Len(floods[d]) <= count
  BY <1>1, <1>2
<1>7. TypeOK
  BY <1>3, <1>4, <1>5, <1>6 DEF TypeOK
<1> QED
  BY <1>6, <1>7 DEF TypeInv

-----------------------------------------------------------------------------
(* Beacons.                                                                *)

\* What BeaconSeenAtOnce says of a step.
SeenAtOnce ==
    \A p \in Pairs :
        tracks'[p] # tracks[p] /\ Regular(tracks'[p]) =>
            LET key == <<"c2_beacon", p>>
            IN  key \in DOMAIN fired' /\ now' - fired'[key] < Cooldown["c2_beacon"]

LEMMA ConnectionSeesBeacons ==
  ASSUME TypeInv, NEW f \in Flow, on_conn(f)
  PROVE  SeenAtOnce
<1> DEFINE clock == Max({now, f.ts})
           pair == <<f.src, f.dst>>
           key == <<"c2_beacon", pair>>
<1>1. clock \in Nat /\ pair \in Pairs
  BY ClockIsTime, FlowType DEF Pairs
<1>2. /\ Emit(Called(f, clock)) /\ now' = clock
      /\ tracks' = [tracks EXCEPT ![pair] = Track(f, clock)]
  BY DEF on_conn
<1>3. tracks \in [Pairs -> Seq(Flow)]
  BY DEF TypeInv, TypeOK, Queue
<1> HIDE DEF clock
<1> SUFFICES ASSUME NEW p \in Pairs, tracks'[p] # tracks[p], Regular(tracks'[p])
             PROVE  /\ <<"c2_beacon", p>> \in DOMAIN fired'
                    /\ now' - fired'[<<"c2_beacon", p>>] < Cooldown["c2_beacon"]
  BY DEF SeenAtOnce
<1>4. p = pair /\ tracks'[p] = Track(f, clock)
  BY <1>1, <1>2, <1>3
<1>5. \E a \in Called(f, clock) : a.key = key
  <2>1. Beacon(pair, Track(f, clock), clock) =
          {Alert("c2_beacon", pair, clock, Track(f, clock))}
    BY <1>4 DEF Beacon
  <2>2. Alert("c2_beacon", pair, clock, Track(f, clock)).key = key
    BY DEF Alert
  <2>3. Beacon(pair, Track(f, clock), clock) \subseteq Called(f, clock)
    BY DEF Called
  <2> QED
    BY <2>1, <2>2, <2>3
<1>6. ASSUME NEW a \in Called(f, clock), a.key = key
      PROVE  a.at = clock
  <2>1. a \notin Scan(f.src, Window(f, clock))
    <3>1. \A b \in Scan(f.src, Window(f, clock)) : b.key[1] = "port_scan"
      BY DEF Scan, Alert
    <3>2. a.key[1] = "c2_beacon"
      BY <1>6
    <3> QED
      BY <3>1, <3>2
  <2> QED
    BY <2>1, CalledSays
<1>7. key[1] = "c2_beacon" /\ key[1] \in Classes /\ clock \in Int
  BY <1>1 DEF Classes
<1> HIDE DEF key
<1>8. key \in DOMAIN fired' /\ clock - fired'[key] < Cooldown[key[1]]
  BY <1>2, <1>5, <1>6, <1>7, EmitLeavesRecent
<1> QED
  BY <1>2, <1>4, <1>7, <1>8 DEF key

-----------------------------------------------------------------------------
(* The inductive invariant.                                                *)

IInv == WindowInv /\ SampleInv /\ SpikeInv /\ GroundsInv /\ SweepLeavesNothing

LEMMA InitEstablishes == Init => IInv
<1> SUFFICES ASSUME Init
             PROVE  IInv
  OBVIOUS
<1> USE DEF Init
<1>1. WindowInv
  <2>1. <<>> \in Seq(Flow) /\ 0 - Span \in Int
    BY SpanType
  <2> QED
    BY <2>1, EndOfEmpty DEF WindowInv
<1>2. SampleInv
  BY DEF SampleInv
<1>3. SpikeInv
  BY DEF SpikeInv
<1>4. GroundsInv
  BY DEF GroundsInv
<1>5. SweepLeavesNothing
  BY DEF SweepLeavesNothing
<1> QED
  BY <1>1, <1>2, <1>3, <1>4, <1>5 DEF IInv

LEMMA ConnectionPreserves ==
  ASSUME IInv, NEW f \in Flow, on_conn(f), ~swept, UNCHANGED swept
  PROVE  IInv' /\ NoneTwice("port_scan")
<1>1. WindowInv' /\ SampleInv' /\ SpikeInv' /\ GroundsInv' /\ NoneTwice("port_scan")
  BY ConnectionKeepsWindows, ConnectionKeepsSamples, ConnectionKeepsSpikes,
     ConnectionScans DEF IInv
<1>2. SweepLeavesNothing'
  BY DEF SweepLeavesNothing
<1> QED
  BY <1>1, <1>2 DEF IInv

LEMMA SweepPreserves ==
  ASSUME IInv, _final_sweep
  PROVE  IInv' /\ NoneTwice("port_scan")
<1>1. UNCHANGED <<now, held, floods, baseline, lastSample, arrived, met>>
  BY DEF _final_sweep, trackVars
<1>2. WindowInv'
  BY <1>1, WindowFrame DEF IInv
<1>3. SampleInv'
  BY <1>1 DEF IInv, SampleInv, Watched
<1>4. SpikeInv'
  BY SweepKeepsSpikes DEF IInv
<1>5. GroundsInv' /\ NoneTwice("port_scan")
  BY SweepScans DEF IInv
<1>6. SweepLeavesNothing'
  BY SweepReports DEF IInv
<1> QED
  BY <1>2, <1>3, <1>4, <1>5, <1>6 DEF IInv

LEMMA StutteringPreserves ==
  ASSUME IInv, UNCHANGED vars
  PROVE  IInv' /\ NoneTwice("port_scan")
<1>1. /\ UNCHANGED <<now, held, floods, baseline, lastSample, arrived, met>>
      /\ UNCHANGED <<fired, grounds, swept>>
  BY DEF vars, connVars, trackVars
<1>2. WindowInv'
  BY <1>1, WindowFrame DEF IInv
<1>3. SampleInv' /\ SpikeInv' /\ GroundsInv'
  BY <1>1 DEF IInv, SampleInv, Watched, SpikeInv, GroundsInv
<1>4. SweepLeavesNothing'
  BY <1>1 DEF IInv, SweepLeavesNothing, Recent, Cooling
<1>5. NoneTwice("port_scan")
  BY <1>1 DEF NoneTwice
<1> QED
  BY <1>2, <1>3, <1>4, <1>5 DEF IInv

LEMMA IInvImplies == IInv => NothingFreshIsLost /\ SpikeHasHistory /\ SweepLeavesNothing
  BY WindowInvImplies DEF IInv, SpikeInv, SpikeHasHistory

LEMMA NextPreserves == IInv /\ [Next]_vars => IInv' /\ NoneTwice("port_scan")
<1> SUFFICES ASSUME IInv, [Next]_vars
             PROVE  IInv' /\ NoneTwice("port_scan")
  OBVIOUS
<1>1. CASE Connection
  BY <1>1, ConnectionPreserves DEF Connection
<1>2. CASE _final_sweep
  BY <1>2, SweepPreserves
<1>3. CASE UNCHANGED vars
  BY <1>3, StutteringPreserves
<1> QED
  BY <1>1, <1>2, <1>3 DEF Next

LEMMA NextKeepsTypes ==
  IInv /\ TypeInv /\ [Next]_vars => TypeInv' /\ [SeenAtOnce]_vars
<1> SUFFICES ASSUME IInv, TypeInv, [Next]_vars
             PROVE  TypeInv' /\ [SeenAtOnce]_vars
  OBVIOUS
<1>1. CASE Connection
  BY <1>1, ConnectionKeepsTypes, ConnectionSeesBeacons DEF Connection
<1>2. CASE _final_sweep
  <2>1. SeenAtOnce
    BY <1>2 DEF SeenAtOnce, _final_sweep, trackVars
  <2> QED
    BY <1>2, <2>1, SweepKeepsTypes DEF IInv
<1>3. CASE UNCHANGED vars
  BY <1>3, TypeFrame
<1> QED
  BY <1>1, <1>2, <1>3 DEF Next

\* on_conn() and the final sweep keep windows, tracks, baselines and cooldowns
\* consistent, whatever connections come.
THEOREM Inductive == Spec => [](IInv /\ TypeInv)
<1>1. Init => IInv /\ TypeInv
  BY InitEstablishes, TypeInit
<1>2. IInv /\ TypeInv /\ [Next]_vars => (IInv /\ TypeInv)'
  BY NextPreserves, NextKeepsTypes
<1> QED
  BY <1>1, <1>2, PTL DEF Spec

\* The queues and dictionaries of the pipeline and of its four detectors over
\* connections hold what they should, tracks and baselines within their bounds.
THEOREM ConnTypeCorrect == Spec => []TypeOK
<1>1. TypeInv => TypeOK
  BY DEF TypeInv
<1> QED
  BY <1>1, Inductive, PTL

\* In whatever order the timestamps of connections come, for any span and any
\* sampling: SlidingWindow loses only flows that are older than the span, and
\* what it holds is the latest of what arrived, in that order.
THEOREM NothingFreshIsLostCorrect == Spec => []NothingFreshIsLost
  BY Inductive, IInvImplies, PTL

\* For any baseline length, sampling interval and spike ratio: DDoSDetector
\* reports no target whose flows complete before it has watched it for
\* min_samples samples.
THEOREM SpikeHasHistoryCorrect == Spec => []SpikeHasHistory
  BY Inductive, IInvImplies, PTL

\* For any thresholds and cooldowns: once Pipeline._final_sweep() has run, every
\* source whose window looks like a scan or an exfiltration has a recent alert.
THEOREM SweepLeavesNothingCorrect == Spec => []SweepLeavesNothing
  BY Inductive, IInvImplies, PTL

\* For any cooldown: PortScanDetector raises no two alerts about a source on
\* the same flows, the final sweep included.
THEOREM NoScanTwiceCorrect == Spec => NoScanTwice
<1>1. IInv /\ [Next]_vars => [NoneTwice("port_scan")]_vars
  BY NextPreserves
<1> QED
  BY <1>1, Inductive, PTL DEF Spec, NoScanTwice

\* For any connections, thresholds and cooldown: the contact that makes a track
\* regular raises the alert of the beacon, unless one is recent.
THEOREM BeaconSeenAtOnceCorrect == Spec => BeaconSeenAtOnce
<1>1. IInv /\ TypeInv /\ [Next]_vars => [SeenAtOnce]_vars
  BY NextKeepsTypes
<1> QED
  BY <1>1, Inductive, PTL DEF Spec, BeaconSeenAtOnce, SeenAtOnce
=============================================================================
