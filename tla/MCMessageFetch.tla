--------------------------- MODULE MCMessageFetch ---------------------------
(***************************************************************************)
(* Words of three bits: a dense mailbox that takes two batches and more    *)
(* than one poll, and a sparse one at the top of the words, whose first    *)
(* window is empty and where no UIDNEXT is left to report.                 *)
(***************************************************************************)
EXTENDS MessageFetch

MCMailboxes == {{1, 2, 3, 4, 6}, {5, 7}}
=============================================================================
