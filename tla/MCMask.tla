------------------------------- MODULE MCMask -------------------------------
(* Short prompts for TLC. *)
EXTENDS MaskCodec

MCPlaceholders == <<"k1", "k2">>
=============================================================================
