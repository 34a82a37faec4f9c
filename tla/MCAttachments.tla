---------------------------- MODULE MCAttachments ----------------------------
(* One administrator and one other user, two credentials. *)
EXTENDS Attachments, TLC

CONSTANTS r1, r2, k1, k2, admin, user

MCSymmetry == Permutations({r1, r2}) \cup Permutations({k1, k2})
=============================================================================
