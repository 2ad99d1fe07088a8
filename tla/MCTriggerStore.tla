---------------------------- MODULE MCTriggerStore ----------------------------
(* The ledger with one of two small sets of rows.  Notices: two              *)
(* notifications of one PR compete for one recipient slot, one of them owned *)
(* by a planner, beside the operator's attested ledger.  Planners: an opened *)
(* and a path planner and a label write.  Either under an envelope leased    *)
(* twice.                                                                    *)
EXTENDS TriggerStore

CONSTANTS plan, opened, reply, notice, label, ledger, pr

VARIABLE rows

MCKeys == {plan, opened, reply, notice, label, ledger}
NoticeKeys == {plan, reply, notice, ledger}
PlannerKeys == {opened, plan, label}

MCKindOf == [k \in Keys |-> CASE k = plan -> "path"
                              [] k = opened -> "opened"
                              [] k = label -> "ensure_labels"
                              [] k = ledger -> "notification_ledger"
                              [] OTHER -> "comment"]
MCParentOf == [k \in Keys |-> IF k \in {notice, label} THEN plan ELSE None]
MCScopeOf == [k \in Keys |-> pr]
MCMaxAttempts == [k \in Keys |-> IF k \in {reply} THEN 2 ELSE 1]

MCInit == StoreInit /\ rows \in {NoticeKeys, PlannerKeys}
MCNext ==
    /\ StoreNext /\ UNCHANGED rows
    /\ \A k \in Keys \ rows : ops'[k] = ops[k]
MCSpec == MCInit /\ [][MCNext]_<<storeVars, rows>>
=============================================================================
