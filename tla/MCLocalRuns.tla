---------------------------- MODULE MCLocalRuns ----------------------------
(* Two Attempts, a review and its retry or two reviews, under two keys.    *)
EXTENDS LocalRunsProps, TLC
CONSTANTS k1, k2, b
MCRuns == 1..2
MCKeys == {k1, k2}
MCBodies == {b}
MCOneKey == {k1}
MCNone == {}
MCOne == {1}
=============================================================================
