----------------------------- MODULE MCScheduler -----------------------------
(* Scheduler for TLC: the rendering of any frame may fail. *)
EXTENDS Scheduler

AnyFrame == Frame
=============================================================================
