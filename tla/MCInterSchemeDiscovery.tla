----------------------- MODULE MCInterSchemeDiscovery -----------------------
(***************************************************************************)
(* InterSchemeDiscovery on small sets of lookups and proxies.              *)
(***************************************************************************)
EXTENDS InterSchemeDiscovery, TLC

\* Every lookup comes from the same requester: retries of the same GET.
SameRequester == [l \in Lookup |-> CHOOSE d \in Dfsp : TRUE]

ProxySymmetry == Permutations(Proxy)
=============================================================================
