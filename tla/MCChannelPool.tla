---------------------------- MODULE MCChannelPool ----------------------------
(***************************************************************************)
(* Small instances of ChannelPool.                                         *)
(***************************************************************************)
EXTENDS ChannelPool

AllKinds == {"instance", "tunnel"}
=============================================================================
