------------------------------ MODULE MCSending ------------------------------
(* Two connections and as many sends, so that they can hold them all.      *)
EXTENDS Sending, TLC
=============================================================================
