--------------------------- MODULE MCAttachments ---------------------------
(* Small instances of Attachments. *)
EXTENDS Attachments
=============================================================================
