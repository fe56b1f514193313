-------------------------- MODULE MCTealdEvidence ---------------------------
(* Three entries, channels of one place, one failing write, one loss of    *)
(* power, one change of the file, and up to two anomalies in an analysis.  *)
EXTENDS TealdEvidence

LastDiffers == <<1, 1, 2>>

=============================================================================
