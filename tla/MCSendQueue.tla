----------------------------- MODULE MCSendQueue -----------------------------
(* A text message and a batch of two attachments compete.                    *)
EXTENDS SendQueue
CONSTANTS text, first, second, chat, batch
MCAttachment == [j \in Uploads |-> IF j = second THEN 2 ELSE 1]
MCJobsOf == [r \in Requests |-> IF r = chat THEN <<text>> ELSE <<first, second>>]
=============================================================================
