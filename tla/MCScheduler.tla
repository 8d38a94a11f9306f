---------------------------- MODULE MCScheduler ----------------------------
(* A small instance of Scheduler for TLC, with the times of the configuration. *)
EXTENDS Scheduler, TLC

CONSTANTS yc, x, ghosts

\* The directory is read every hour, X every four, ghosts are looked at every half.
MCInterval == yc :> 3600 @@ x :> 14400 @@ ghosts :> 1800
=============================================================================
