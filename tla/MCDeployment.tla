---------------------------- MODULE MCDeployment ----------------------------
(* Instances of Deployment for TLC: times in units of five seconds, as in  *)
(* the code and the unit files; 18 is systemd's default of 90 seconds.     *)
EXTENDS Deployment
=============================================================================
