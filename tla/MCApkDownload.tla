---------------------------- MODULE MCApkDownload ----------------------------
(* Bounded instances of ApkDownload for TLC.                                 *)
EXTENDS ApkDownload

CONSTANTS a1, a2

App(w, v, m, e) == [way |-> w, version |-> v, morphe |-> m, existing |-> e]
Direct    == App("direct", Latest, FALSE, FALSE)
Pinned    == App("direct", 1, FALSE, FALSE)
Fallback  == App("fallback", Latest, FALSE, FALSE)
Newest    == App("selector", Latest, FALSE, FALSE)
Morphe    == App("selector", Latest, TRUE, FALSE)
First     == App("selector", 1, FALSE, FALSE)
Existing  == App("selector", Latest, FALSE, TRUE)

\* An app that wants the latest APK next to one that does the same, in the same
\* profile or the other, or goes another way; and two that want the first release.
AllWays ==
  {[a \in {a1, a2} |-> IF a = a1 THEN p[1] ELSE p[2]] :
     p \in ({Newest} \X {Newest, Morphe, Direct, Fallback, Existing})
             \cup {<<First, First>>, <<First, Fallback>>, <<Pinned, Fallback>>}}

\* Two profiles that want the latest APK of one source.
TwoProfiles == {[a \in {a1, a2} |-> IF a = a1 THEN Morphe ELSE Newest]}
==============================================================================
