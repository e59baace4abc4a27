---------------------------- MODULE MCRemoteLease ----------------------------
(* Small instances of RemoteLease. *)
EXTENDS RemoteLease, TLC

\* Clients, requests and leases are only compared for equality.
Sym == Permutations(Client) \cup Permutations(Request) \cup Permutations(LeaseId)
=============================================================================
