------------------------------ MODULE MCReplay ------------------------------
(* Instances of Replay for TLC.                                            *)
EXTENDS Replay

CONSTANTS browser, other   \* pages, the calls of each one after the other
=============================================================================
