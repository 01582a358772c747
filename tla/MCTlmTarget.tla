---------------------------- MODULE MCTlmTarget ----------------------------
(* Two arguments, so that a response can answer the wrong request.           *)
EXTENDS TlmTarget
=============================================================================
