----------------------------- MODULE MCAlgorithms -----------------------------
EXTENDS Algorithms

MCSlug == ("Hide ads" :> "hide-ads") @@ [n \in {"hide-ads", "theme", "elsewhere", "universal"} |-> n]
MCNameRank == (<<"Zebra">> :> 26) @@ (<<"Custom", "icon">> :> 3) @@ (<<"Apple", "pie">> :> 1)
MCEnv == "SIZE" :> "large"
==============================================================================
