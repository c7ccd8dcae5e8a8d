---------------------------- MODULE MCTunnelClient ----------------------------
(* A frame may be as large as the decoder's bound, as in the code.         *)
EXTENDS TunnelClient
=============================================================================
