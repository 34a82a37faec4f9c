--------------------------- MODULE MCApprovalFlow ---------------------------
(* One requisition whose chain needs a manager and then finance.           *)
EXTENDS ApprovalFlow, TLC

MCReq == {"r"}
MCUser == {"rex", "meg", "fay", "ada"}
MCRole == "rex" :> "REQUESTER" @@ "meg" :> "MANAGER" @@ "fay" :> "FINANCE" @@ "ada" :> "ADMIN"
MCRequester == "r" :> "rex"
TwoSteps == "r" :> {<<"MANAGER", "FINANCE">>}

(* Two requisitions; the rules for one are edited before its submission. *)
ManyReq == {"r", "s"}
ManyRequester == "r" :> "rex" @@ "s" :> "meg"
ManyChains == "r" :> {<<"MANAGER", "FINANCE">>, <<"ADMIN">>} @@ "s" :> {<<"MANAGER">>}

(* Calls that decide differ in nothing but their name. *)
DecisionSymmetry == Permutations(Tx \ Submitters)
=============================================================================
