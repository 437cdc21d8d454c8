----------------------------- MODULE LogChannel -----------------------------
(***************************************************************************)
(* What a log is promised to be to whoever reads it: the records the       *)
(* sensor publishes come out once each, in the order they were published,  *)
(* and a reader that says it finished has handed out every one of them.    *)
(* A reader may also give up on a log (a timeout), and then promises       *)
(* nothing about the rest.                                                 *)
(*                                                                         *)
(* follow() implements this for the lines of one file (LogFollower), and   *)
(* merged() implements it for each of the logs it interleaves (Merge).     *)
(***************************************************************************)
EXTENDS Naturals, Sequences

CONSTANT Record       \* the records a sensor may publish

VARIABLES
    log,      \* records published so far
    got,      \* records handed out so far
    closed,   \* the sensor will publish nothing more
    reader    \* "reading", "finished" or "abandoned"

vars == <<log, got, closed, reader>>

Init ==
    /\ log = <<>>
    /\ got = <<>>
    /\ closed = FALSE
    /\ reader = "reading"

Publish ==
    /\ ~closed
    /\ \E r \in Record : log' = Append(log, r)
    /\ UNCHANGED <<got, closed, reader>>

Close ==
    /\ closed' = TRUE
    /\ UNCHANGED <<log, got, reader>>

Take ==
    /\ reader = "reading"
    /\ Len(got) < Len(log)
    /\ got' = Append(got, log[Len(got) + 1])
    /\ UNCHANGED <<log, closed, reader>>

Finish ==
    /\ reader = "reading"
    /\ closed
    /\ got = log
    /\ reader' = "finished"
    /\ UNCHANGED <<log, got, closed>>

Abandon ==
    /\ reader = "reading"
    /\ reader' = "abandoned"
    /\ UNCHANGED <<log, got, closed>>

Next == Publish \/ Close \/ Take \/ Finish \/ Abandon

Spec == Init /\ [][Next]_vars
=============================================================================
