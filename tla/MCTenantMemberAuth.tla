------------------------- MODULE MCTenantMemberAuth -------------------------
(* A small instance of TenantMemberAuth for TLC. *)
EXTENDS TenantMemberAuth, TLC

ASSUME AuthConstants == AuthAssumption

\* The identities of rows and of requests are interchangeable.
Symmetry ==
  Permutations(Attempts) \cup Permutations(Sessions \ {Signup}) \cup
  Permutations(Ceremonies) \cup Permutations(Credentials) \cup
  Permutations(Proofs) \cup Permutations(Handlers)
=============================================================================
