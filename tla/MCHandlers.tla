---------------------------- MODULE MCHandlers -----------------------------
(* Instances of Handlers for TLC.                                          *)
EXTENDS Handlers

MCCooldown == [port_scan |-> 1, exfiltration |-> 1, ddos |-> 2, c2_beacon |-> 2]

\* The connection path does not tell its sources apart.
MCSymmetry == Permutations(Sources)

Lookup(src, name) == [src |-> src, name |-> name, local |-> FALSE]

\* A tunnel, a suspicious domain asked for by two hosts under different names,
\* a harmless one, one in the lower band below a second-level suffix, a name
\* of the local network and two records that name no source or no domain.
MCLookups ==
    {Lookup("a", <<"x", "tunnel", "net">>), Lookup("b", <<"y", "tunnel", "net">>),
     Lookup("a", <<"qzkvjx", "com">>), Lookup("b", <<"www", "qzkvjx", "com">>),
     Lookup("a", <<"hmmmm", "org">>),
     Lookup("b", <<"vjxqzk", "co", "uk">>), Lookup("a", <<"printer", "local">>),
     Lookup("none", <<"qzkvjx", "com">>),
     [src |-> "b", name |-> <<"qzkvjx", "com">>, local |-> TRUE]}

MCVerdict == [tunnel |-> "clean", qzkvjx |-> "alert", hmmmm |-> "observe",
              vjxqzk |-> "alert", printer |-> "alert"]

Session(dst, ja4, flags) == [src |-> "a", dst |-> dst, ja4 |-> ja4, flags |-> flags]

MCSessions ==
    {Session("x", "browser", {"self_signed", "subject_equals_issuer"}),
     Session("x", "bot", {}), Session("y", "bot", {"no_sni"}), Session("x", "tool", {}),
     Session("y", "none", {"no_sni", "unknown_issuer"})}

Stream(conn, blank, dns, ssl) ==
    [conn |-> conn, blank |-> blank, dns |-> dns, ssl |-> ssl]

MCStreams == {Stream(4, 0, 0, 0), Stream(3, 1, 0, 0), Stream(0, 0, 4, 0),
              Stream(0, 0, 0, 4), Stream(1, 0, 1, 1)}
=============================================================================
