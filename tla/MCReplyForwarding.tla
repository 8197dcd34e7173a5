------------------------- MODULE MCReplyForwarding -------------------------
(* Instances of ReplyForwarding for TLC; the bounds are in the cfg files.  *)
EXTENDS ReplyForwarding
=============================================================================
