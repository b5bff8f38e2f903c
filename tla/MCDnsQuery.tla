----------------------------- MODULE MCDnsQuery -----------------------------
(* DnsQuery on small instances.  Queries, and children, are interchangeable  *)
(* in the safety runs; the liveness runs do not use symmetry.                *)
EXTENDS DnsQuery, TLC

Symmetry == Permutations(Query) \cup Permutations(Child)
=============================================================================
