------------------------------- MODULE MCRebuild -------------------------------
(* Two apps that share a bundle; file names are in no order of theirs.       *)
EXTENDS Rebuild

MCAppOrder == <<"app1", "app2">>
MCConfigs  == [app1 |-> <<<<"b2">>>>, app2 |-> <<<<"b1", "b2">>, <<"b2", "b1">>, <<"b1">>>>]
MCRank     == [b1 |-> <<3, 5, 1, 7>>, b2 |-> <<4, 2, 6, 8>>]
==============================================================================
