-------------------------- MODULE MCMegaCommissioning --------------------------
(* Two stations with the default addresses 2 and 3.                          *)
EXTENDS MegaCommissioning

MCDefaultAddress == <<2, 3>>
================================================================================
