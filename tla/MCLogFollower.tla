--------------------------- MODULE MCLogFollower ---------------------------
(* Instances of LogFollower for TLC: the calls of follow().                *)
EXTENDS LogFollower

\* merged() in src/pipeline.py: the caller waits, the marker ends the log.
PipelineCall == [block |-> FALSE, fromStart |-> TRUE, marker |-> TRUE,
                 timeout |-> NoTimeout]

\* The tools that read one log (extract.py, log_stream.py itself): follow()
\* waits, silence ends the log.
ToolCall == [block |-> TRUE, fromStart |-> TRUE, marker |-> FALSE,
             timeout |-> 2]

\* The remaining option, to start at the end of the log.
TailCall == [ToolCall EXCEPT !.fromStart = FALSE]

MCCalls == {PipelineCall, ToolCall, TailCall}
PipelineOnly == {PipelineCall}
=============================================================================
