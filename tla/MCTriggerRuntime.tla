--------------------------- MODULE MCTriggerRuntime ---------------------------
(* Two deliveries of one comment race for its command; one delivery whose   *)
(* command ensures labels and posts a review with a fallback comment; and    *)
(* smaller instances for the temporal properties.                            *)
EXTENDS TriggerRuntime

CONSTANTS command, reply, label, review, pr

MCKindOf == [k \in Keys |-> CASE k = command -> "command" [] k = label -> "ensure_labels"
                              [] k = review -> "review" [] OTHER -> "comment"]
MCParentOf == [k \in Keys |-> IF k = command THEN None ELSE command]
MCScopeOf == [k \in Keys |-> pr]
MCMaxAttempts == [k \in Keys |-> 2]
MCLiveAttempts == [k \in Keys |-> 4]
MCCommandsOf == [d \in Deliveries |-> <<command>>]
ReplyOnly == [c \in {command} |-> <<reply>>]
LabelThenReview == [c \in {command} |-> <<label, review, reply>>]
ReviewThenReply == [c \in {command} |-> <<review, reply>>]
=============================================================================
