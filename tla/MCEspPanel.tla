------------------------------ MODULE MCEspPanel ------------------------------
(* Two configured channels and one that is not.                              *)
EXTENDS EspPanel

MCChannelAddress == <<7, 0, 8>>
================================================================================
