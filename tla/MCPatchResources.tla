--------------------------- MODULE MCPatchResources ---------------------------
(* Bounded instances of PatchResources for TLC.                              *)
EXTENDS PatchResources

CONSTANTS a1, a2, cli, p1, p2

\* Two apps that share the CLI and the patch bundle.
SharedBundle == [a \in {a1, a2} |-> <<cli, p1>>]

\* An app with one bundle, and one with that bundle behind another.
TwoBundles == [a \in {a1, a2} |-> IF a = a1 THEN <<cli, p2>> ELSE <<cli, p1, p2>>]
==============================================================================
