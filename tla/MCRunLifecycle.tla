-------------------------- MODULE MCRunLifecycle --------------------------
(* Instances of RunLifecycle for TLC: one run, its creating thread, one or *)
(* more stop requests and one polling thread.                              *)
EXTENDS RunLifecycle, TLC

AskedWhileRunning == {"running", "stopping"}
AskedAnyTime == Active
===========================================================================
