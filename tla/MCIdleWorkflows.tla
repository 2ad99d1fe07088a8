-------------------------- MODULE MCIdleWorkflows --------------------------
(* Two commits, one retry.                                                  *)
EXTENDS IdleWorkflows
=============================================================================
