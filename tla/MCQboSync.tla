------------------------------ MODULE MCQboSync ------------------------------
(***************************************************************************)
(* An event in up to two deliveries at a time; two consents, for two       *)
(* companies.                                                              *)
(***************************************************************************)
EXTENDS QboSync, TLC

MCSupplierOf == [e \in Event |-> "acme"]
MCCompanyOf == <<"east", "west">>
MCGrant == 1 .. 2
=============================================================================
