------------------------------ MODULE TlsPath -------------------------------
(***************************************************************************)
(* Pipeline.on_ssl() of src/pipeline.py and the EncryptedThreatDetector it *)
(* calls (detectors/encrypted_threat.py): a TLS session is scored by how   *)
(* familiar its client's fingerprint is and by what is odd about its       *)
(* handshake. How familiar depends on the sessions read before.            *)
(*                                                                         *)
(* Scores are in hundredths. What is odd about a session is the set of its *)
(* flags. Zeek names the source of every session, so the early return for  *)
(* a session without one is left out.                                      *)
(***************************************************************************)
EXTENDS Window

CONSTANTS
    Sessions,       \* the sessions seen: [src, dst, ja4, flags]
    SessionTimes,
    NoFingerprint,  \* the ja4 of a session without one
    KnownClients,   \* fingerprints of KNOWN_CLIENTS
    LearnWindow,    \* sessions before any client counts as rare
    RareLimit,      \* rare_fp_threshold
    TlsCooldown,
    MaxSessions     \* bound: sessions read

Weight == [no_sni |-> 25, self_signed |-> 30, bad_status |-> 15,
           subject_equals_issuer |-> 15, unknown_issuer |-> 10, odd_port |-> 20]

\* A certificate whose status says self-signed has neither of the flags that
\* are looked for otherwise.
ASSUME TlsAssumption ==
    /\ \A s \in Sessions :
        /\ s.flags \subseteq DOMAIN Weight
        /\ "self_signed" \in s.flags =>
              s.flags \cap {"bad_status", "unknown_issuer"} = {}
    /\ SessionTimes \subseteq Nat
    /\ {LearnWindow, RareLimit, MaxSessions} \subseteq Nat
    /\ TlsCooldown \in Nat \ {0}

Fingerprints == {s.ja4 : s \in Sessions} \ {NoFingerprint}

VARIABLES
    tlsNow,        \* the detector's clock
    fpCounts,      \* fp_counts: sessions of each fingerprint
    seenSessions,  \* seen_sessions
    tlsFired,      \* last_fired, by source, target and fingerprint
    tlsAlerts,     \* history: the alerts raised, in order
    judged         \* history: the fingerprint and the verdict on each session

tlsVars == <<tlsNow, fpCounts, seenSessions, tlsFired, tlsAlerts, judged>>

TlsInit ==
    /\ tlsNow = 0
    /\ fpCounts = [f \in Fingerprints |-> 0]
    /\ seenSessions = 0
    /\ tlsFired = <<>>
    /\ tlsAlerts = <<>>
    /\ judged = <<>>

-----------------------------------------------------------------------------

observe(s) ==
    /\ fpCounts' = IF s.ja4 = NoFingerprint THEN fpCounts
                   ELSE [fpCounts EXCEPT ![s.ja4] = @ + 1]
    /\ seenSessions' = seenSessions + 1

\* Mutant: a client is judged before its session is counted.
Identity_uncounted(s) ==
    CASE s.ja4 = NoFingerprint -> "no_fingerprint"
      [] s.ja4 \in KnownClients -> "known"
      [] OTHER -> IF fpCounts[s.ja4] <= RareLimit /\ seenSessions' > LearnWindow
                  THEN "rare" ELSE "unrecognised"

\* The session itself is among those counted.
Identity(s) ==
    CASE s.ja4 = NoFingerprint -> "no_fingerprint"
      [] s.ja4 \in KnownClients -> "known"
      [] OTHER -> IF fpCounts'[s.ja4] <= RareLimit /\ seenSessions' > LearnWindow
                  THEN "rare" ELSE "unrecognised"

IdentityWeight ==
    [no_fingerprint |-> 10, known |-> 0, rare |-> 40, unrecognised |-> 25]

Score(s) == IdentityWeight[Identity(s)] + MapThenSumSet(LAMBDA f : Weight[f], s.flags)

ObserveScore == 22
MinScore == 45

\* The two sums whose 0.45 falls an ulp short of 0.45 in binary.
FallsShort == {<<"no_fingerprint", {"no_sni", "unknown_issuer"}>>,
               <<"known", {"self_signed", "subject_equals_issuer"}>>}

Band(s) == IF Score(s) >= MinScore /\ <<Identity(s), s.flags>> \notin FallsShort
           THEN "alert" ELSE "observe"

Key(s) == <<s.src, s.dst, s.ja4>>

\* A session is reported in either band, and silences both for a while.
Suspect(s, clock) ==
    /\ Score(s) >= ObserveScore
    /\ ~Cooling(tlsFired, Key(s), clock, TlsCooldown)

\* Dated by the session. A session without a time has time 0.
TlsAlert(s, clock) ==
    [class |-> "encrypted_malware", src |-> s.src, dst |-> s.dst,
     ts |-> IF s.ts = 0 THEN clock ELSE s.ts,
     band |-> Band(s)]

on_ssl(s) ==
    LET clock == Max({tlsNow, s.ts})
    IN  /\ observe(s)
        /\ tlsNow' = clock
        /\ judged' = Append(judged, [ja4 |-> s.ja4, as |-> Identity(s)])
        /\ IF Suspect(s, clock)
           THEN /\ tlsFired' = Put(tlsFired, Key(s), clock)
                /\ tlsAlerts' = Append(tlsAlerts, TlsAlert(s, clock))
           ELSE UNCHANGED <<tlsFired, tlsAlerts>>

-----------------------------------------------------------------------------
(* Safety.                                                                 *)

\* Type invariant.
TlsTypeOK ==
    /\ tlsNow \in SessionTimes \cup {0}
    /\ fpCounts \in [Fingerprints -> 0..MaxSessions]
    /\ seenSessions \in 0..MaxSessions
    /\ DOMAIN tlsFired \subseteq {Key(s) : s \in Sessions}
    /\ Range(tlsFired) \subseteq SessionTimes \cup {0}
    /\ Len(judged) = seenSessions

\* A client outside the allowlist is called rare for its first RareLimit
\* sessions, this one counted, as far as they fall after the LearnWindow first
\* sessions of the network, and then never again; nobody else ever is.
RareFewTimes ==
    \A i \in DOMAIN judged :
        LET f == judged[i].ja4
        IN  judged[i].as = "rare" <=>
                /\ f \in Fingerprints \ KnownClients
                /\ i > LearnWindow
                /\ Cardinality({j \in 1..i : judged[j].ja4 = f}) <= RareLimit
=============================================================================
