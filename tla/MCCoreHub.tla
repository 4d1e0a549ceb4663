----------------------------- MODULE MCCoreHub -----------------------------
(* Two configurations whose proxy groups differ, for the runs of CoreHub.  *)
EXTENDS CoreHub, TLC

CONSTANTS cfgA, cfgB, proxyX, proxyY

\* cfgA has one proxy, cfgB both, the default configuration none.
MCProxiesOf == [n \in ConfigNames |-> CASE n = cfgA -> {proxyX}
                                       [] n = cfgB -> {proxyX, proxyY}
                                       [] OTHER    -> {}]

Symmetry == Permutations(Calls)
============================================================================
