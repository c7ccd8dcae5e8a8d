-------------------------------- MODULE MCCt --------------------------------
(* Two overlapping monitor processes; a certificate that the Broker may or *)
(* may not report, and an entry that validation refuses.                   *)
EXTENDS CtMonitor
=============================================================================
