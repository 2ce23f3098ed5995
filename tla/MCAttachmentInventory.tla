------------------------ MODULE MCAttachmentInventory ------------------------
(* Instance of AttachmentInventory for TLC.  Attachments, objects, contents   *)
(* and rows are interchangeable.                                              *)
EXTENDS AttachmentInventory

MCSymmetry ==
    Permutations(Row) \cup Permutations(Attachment)
        \cup Permutations(Ref) \cup Permutations(Content)
==============================================================================
