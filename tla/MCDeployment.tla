---------------------------- MODULE MCDeployment ----------------------------
(* An instance of Deployment: two commits that compile and differ in their  *)
(* requirements, and a broken one that shares those of the first; one way   *)
(* back from the review, two bootstraps, three keys.                        *)
EXTENDS Deployment

CONSTANTS c1, c2, bad, r1, r2, v1, plain, t1, t2, s1, s2

MCCommits == {c1, c2, bad}
MCBroken == {bad}
MCReqs == {r1, r2}
MCNeedsOf == [c \in MCCommits |-> IF c = c2 THEN r2 ELSE r1]
MCTags == {v1, plain}
MCPlain == {plain}
MCScripts == {s1, s2}
MCLookers == {t1, t2}
=============================================================================
