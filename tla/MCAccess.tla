------------------------------ MODULE MCAccess ------------------------------
(* Access for TLC: an administrator, two more accounts, two companies.     *)
EXTENDS Access, TLC

CONSTANTS ann, bob, cy, acme, beta, q1, q2, l1, l2, r1, r2

MCCompanyOf == q1 :> acme @@ q2 :> beta
MCOneCompany == q1 :> acme @@ q2 :> acme

Symmetry == Permutations({ann, bob, cy}) \cup Permutations({l1, l2}) \cup Permutations({r1, r2})
=============================================================================
