-------------------------- MODULE MCOutboxDispatch --------------------------
(***************************************************************************)
(* An event for two connectors and one that none handles (no CSV directory,*)
(* no webhook and no QuickBooks leave PO_CREATED without one).             *)
(***************************************************************************)
EXTENDS OutboxDispatch, TLC

MCConnector == {"csv", "hook"}
MCEvent == 1 .. 2
MCHandles == 1 :> {} @@ 2 :> {"csv", "hook"}
=============================================================================
