---------------------------- MODULE DurableWrite ----------------------------
(***************************************************************************)
(* What docs/trigger-state.md promises about external writes, without the  *)
(* machinery that keeps the promise.  A write is requested, a request may  *)
(* take effect at any later time or never, and the receipt that is finally *)
(* recorded tells the truth.  Only an idempotent write may be requested    *)
(* again while an earlier request could still have an effect.              *)
(***************************************************************************)
EXTENDS Naturals

CONSTANTS WriteKeys, Idempotent, MaxEffects

VARIABLES
    outstanding,   \* requests of each write that may still take effect
    effects,       \* effects of each write, counted up to MaxEffects
    receipt        \* what is recorded of it: "open" while nothing is certain

abstractVars == <<outstanding, effects, receipt>>

Receipts == {"open", "confirmed", "rejected", "withdrawn"}

AbstractInit ==
    /\ outstanding = [k \in WriteKeys |-> 0]
    /\ effects = [k \in WriteKeys |-> 0]
    /\ receipt = [k \in WriteKeys |-> "open"]

Untouched(k) == outstanding[k] = 0 /\ effects[k] = 0

Request(k) ==
    /\ receipt[k] = "open"
    /\ k \in Idempotent \/ Untouched(k)
    /\ outstanding' = [outstanding EXCEPT ![k] = @ + 1]
    /\ UNCHANGED <<effects, receipt>>

TakeEffect(k) ==
    /\ outstanding[k] > 0
    /\ outstanding' = [outstanding EXCEPT ![k] = @ - 1]
    /\ effects' = [effects EXCEPT ![k] = IF @ < MaxEffects THEN @ + 1 ELSE @]
    /\ UNCHANGED receipt

Vanish(k) ==
    /\ outstanding[k] > 0
    /\ outstanding' = [outstanding EXCEPT ![k] = @ - 1]
    /\ UNCHANGED <<effects, receipt>>

Confirm(k) ==
    /\ receipt[k] \in {"open", "rejected"}
    /\ k \in Idempotent \/ effects[k] > 0
    /\ receipt' = [receipt EXCEPT ![k] = "confirmed"]
    /\ UNCHANGED <<outstanding, effects>>

Reject(k) ==
    /\ receipt[k] = "open"
    /\ k \in Idempotent \/ Untouched(k)
    /\ receipt' = [receipt EXCEPT ![k] = "rejected"]
    /\ UNCHANGED <<outstanding, effects>>

\* The operator authorizes another attempt after a definite rejection.
Reopen(k) ==
    /\ receipt[k] = "rejected"
    /\ receipt' = [receipt EXCEPT ![k] = "open"]
    /\ UNCHANGED <<outstanding, effects>>

\* A changed snapshot withdraws several unsent writes at once.
Withdraw(ks) ==
    /\ \A k \in ks : receipt[k] = "open" /\ (k \in Idempotent \/ Untouched(k))
    /\ receipt' = [k \in WriteKeys |-> IF k \in ks THEN "withdrawn" ELSE receipt[k]]
    /\ UNCHANGED <<outstanding, effects>>

AbstractNext ==
    \/ \E k \in WriteKeys : \/ Request(k) \/ TakeEffect(k) \/ Vanish(k)
                            \/ Confirm(k) \/ Reject(k) \/ Reopen(k)
    \/ \E ks \in SUBSET WriteKeys : Withdraw(ks)

AbstractSpec == AbstractInit /\ [][AbstractNext]_abstractVars
=============================================================================
