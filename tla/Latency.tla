------------------------------ MODULE Latency -------------------------------
(***************************************************************************)
(* The join of scripts/latency.py: from the feed trace a replay leaves     *)
(* behind and the traffic time an alert carries, the moment from which its *)
(* latency is counted.                                                     *)
(*                                                                         *)
(* A trace is the sequence of the kinds and timestamps of the records fed. *)
(* Wall time is the position in it.                                        *)
(***************************************************************************)
EXTENDS Integers, Sequences, FiniteSetsExt

KIND_OF == [port_scan |-> "conn", ddos |-> "conn", exfiltration |-> "conn",
            c2_beacon |-> "conn", dga_domain |-> "dns", dns_tunnel |-> "dns",
            encrypted_malware |-> "ssl"]

OfKind(trace, kind) == {i \in DOMAIN trace : trace[i].kind = kind}

\* When the traffic clock of a log advanced.
load_trace(trace, kind) ==
    {i \in OfKind(trace, kind) :
        \A j \in OfKind(trace, kind) : j < i => trace[j].ts < trace[i].ts}

NotFed == 0

\* Mutant: an alert is matched to the moment when every record up to its time
\* had been fed.
fed_at_everything(trace, kind, ts) ==
    LET upTo == {i \in OfKind(trace, kind) : trace[i].ts <= ts}
    IN  IF upTo = {} THEN NotFed ELSE Max(upTo)

\* When the traffic clock of the log reached ts.
fed_at(trace, kind, ts) ==
    LET reached == {i \in load_trace(trace, kind) : trace[i].ts >= ts}
    IN  IF reached = {} THEN NotFed ELSE Min(reached)
=============================================================================
