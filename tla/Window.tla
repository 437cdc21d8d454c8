------------------------------- MODULE Window -------------------------------
(***************************************************************************)
(* What the detectors' queues have in common: a flow or a query joins at   *)
(* the end and the stale ones leave at the head, sampled checks come every *)
(* so many records, and a subject just reported is not reported again.     *)
(***************************************************************************)
EXTENDS Integers, Sequences, FiniteSetsExt, Functions, TLC

\* Timestamps may be out of order in a queue, and only its head is looked at.
Trimmed(q, cutoff) ==
    LET fresh == {i \in DOMAIN q : q[i].ts >= cutoff}
    IN  IF fresh = {} THEN <<>> ELSE SubSeq(q, Min(fresh), Len(q))

\* A dictionary after dict[key] = value.
Put(dict, key, value) ==
    [k \in DOMAIN dict \cup {key} |-> IF k = key THEN value ELSE dict[k]]

Sampled(n, every) == n % every = 0

\* The cooldown since last[key] has not passed at clock.
Cooling(last, key, clock, cooldown) ==
    key \in DOMAIN last /\ clock - last[key] < cooldown
=============================================================================
