---------------------------- MODULE MCAggregator ----------------------------
(* Instances of Aggregator for TLC: one infected host seen by the DNS      *)
(* detector under two domains, and one flooded service.                    *)
EXTENDS Aggregator

MCSubjects ==
    {[cls |-> "dga_domain", src |-> "bot", dst |-> "", tag |-> "", dom |-> "d1"],
     [cls |-> "dga_domain", src |-> "bot", dst |-> "", tag |-> "", dom |-> "d2"],
     [cls |-> "ddos", src |-> "many", dst |-> "web", tag |-> "443", dom |-> ""]}
=============================================================================
