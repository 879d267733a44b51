------------------------- MODULE MCReceiverChannel -------------------------
(* Instance of ReceiverChannel; its constants are all in the .cfg. *)
EXTENDS ReceiverChannel
=============================================================================
