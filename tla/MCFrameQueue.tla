------------------------------ MODULE MCFrameQueue ------------------------------
(* Instances of FrameQueue for TLC. *)
EXTENDS FrameQueue

===============================================================================
