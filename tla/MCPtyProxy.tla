----------------------------- MODULE MCPtyProxy -----------------------------
(* PtyProxy for TLC: the names of clients, addresses and lines do not      *)
(* matter, so the safety runs may permute them.                            *)
EXTENDS PtyProxyService, TLC

Symmetry == Permutations(Clients) \cup Permutations(Addrs) \cup Permutations(Lines)

=============================================================================
