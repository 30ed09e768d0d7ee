-------------------------- MODULE MCInboundPipeline -------------------------
(***************************************************************************)
(* A mailbox with one conversation: a regular email with an attachment, an *)
(* email without one (regular or automatic), and a malformed email.        *)
(***************************************************************************)
EXTENDS InboundPipeline, TLC

CONSTANTS withPart, plain, broken, p1, c1

MCPartsOf == [e \in Emails |-> IF e = withPart THEN {p1} ELSE {}]

MCConversationOf == [e \in Emails |-> c1]

\* The email with the attachment is the older one and may finish last.
MCReceivedAt == [e \in Emails |-> IF e = withPart THEN 1 ELSE 2]

Symmetry == Permutations(Workers)
=============================================================================
