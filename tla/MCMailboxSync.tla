---------------------------- MODULE MCMailboxSync ---------------------------
(***************************************************************************)
(* Mailboxes of a few emails, with and without their dates in order.       *)
(***************************************************************************)
EXTENDS MailboxSync, TLC

\* Each email is newer than those that arrived before it.
InOrder3 == <<1, 2, 3>>
InOrder2 == <<1, 2>>

\* Two emails that share a timestamp.
Together == <<1, 1>>

\* The second email was moved into the mailbox with an older date.
Moved == <<2, 1>>

Symmetry == Permutations(Instances)
=============================================================================
