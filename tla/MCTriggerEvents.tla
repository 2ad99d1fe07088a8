-------------------------- MODULE MCTriggerEvents --------------------------
(* Two versions of a rule that mention overlapping sets of people.         *)
EXTENDS TriggerEvents

CONSTANTS old, new, ann, ben

MCCc == [r \in {old, new} |-> IF r = old THEN {ann} ELSE {ann, ben}]

\* At first the old version is in force.
MCInit == Init /\ policy = old
MCSpec == MCInit /\ [][Next]_vars
=============================================================================
