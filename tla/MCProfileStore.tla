--------------------------- MODULE MCProfileStore ---------------------------
(* Two urls, one a part of the other, for the runs of ProfileStore.        *)
EXTENDS ProfileStore, TLC

CONSTANTS urlShort, urlLong

MCContains == {<<u, u>> : u \in Urls} \cup {<<urlShort, urlLong>>}

Symmetry == Permutations(Ops) \cup Permutations(Ids)
==============================================================================
