--------------------------- MODULE MCConversations ---------------------------
(* Two requests at a time, fetches of the conversation list or POSTs, whose *)
(* replies end in each of the ways the code tells apart.                    *)
EXTENDS Conversations

CONSTANTS r1, r2, l1, l2

MCReplies ==
  {[error |-> "None", status |-> 200, json |-> TRUE],
   [error |-> "None", status |-> 200, json |-> FALSE],
   [error |-> "Other", status |-> 503, json |-> FALSE],
   [error |-> "Other", status |-> 0, json |-> FALSE]}
\* The delay of the second retry of r1 does not fit in an int.
FewRetries == [r \in {r1, r2} |-> IF r = r1 THEN 2 ELSE 0]
=============================================================================
