---------------------------- MODULE MCChannelWait ----------------------------
(* A small instance of ChannelWait for TLC. *)
EXTENDS ChannelWait, TLC

MCMaxOps == "poll" :> 4 @@ "wake" :> 3
=============================================================================
