---------------------------- MODULE MCScheduler ----------------------------
(* The scheduler on a small instance: one job that ticks at the instants 1 *)
(* and 2, and then not again for more than a year (a 29 February).         *)
EXTENDS Scheduler

CONSTANTS j1, w1, w2, c1, o1

LeapCron(j, t) == IF t < 2 THEN t + 1 ELSE NoTick
=============================================================================
