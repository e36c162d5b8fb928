------------------------------ MODULE MCReplay ------------------------------
(* Instances of Replay for TLC; the bounds are in the .cfg files *)
EXTENDS Replay
=============================================================================
