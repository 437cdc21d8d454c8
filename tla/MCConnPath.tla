----------------------------- MODULE MCConnPath -----------------------------
(* Instances of ConnPath for TLC.                                          *)
EXTENDS ConnPath

MCCooldown == [port_scan |-> 1, exfiltration |-> 1, ddos |-> 2, c2_beacon |-> 2]
=============================================================================
