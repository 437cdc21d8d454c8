----------------------------- MODULE MCEmitPath -----------------------------
(* Instances of EmitPath for TLC: one source with two DGA domains and one  *)
(* flooded service.                                                        *)
EXTENDS EmitPath

MCSubjects ==
    {[cls |-> "dga_domain", src |-> "bot", dst |-> "", tag |-> "", dom |-> "d1"],
     [cls |-> "ddos", src |-> "many", dst |-> "web", tag |-> "443", dom |-> ""]}
=============================================================================
