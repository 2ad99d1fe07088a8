-------------------------- MODULE MCForgejoBridge --------------------------
(* One issue, with a comment on either side of it.                          *)
EXTENDS ForgejoBridge

CONSTANT issue

MCComments == {[item |-> issue, side |-> s] : s \in Sides}
MCHome == [i \in Items |-> "github"]
=============================================================================
