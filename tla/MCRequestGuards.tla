--------------------------- MODULE MCRequestGuards ---------------------------
(***************************************************************************)
(* Three clients with two keys each in a store with room for two keys; a   *)
(* window admits fewer mutations than reads.  Clients, keys and logins are *)
(* interchangeable.                                                        *)
(***************************************************************************)
EXTENDS RequestGuards, TLC

MCLimit == [read |-> 2, mutation |-> 1, auth |-> 2]

Interchangeable == Permutations(Client) \cup Permutations(Key) \cup Permutations(Attempt)
=============================================================================
