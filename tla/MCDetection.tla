---------------------------- MODULE MCDetection ----------------------------
(* A text of four characters, three rules of which two have one priority, and one field of  *)
(* an identity.                                                                             *)
EXTENDS Detection

CONSTANTS r1, r2, r3, f1

\* A rule that ranks with the identity, and one that the user has put above it.
MCEqual(r) == CASE r = r1 -> 1000 [] r = r2 -> 50 [] r = r3 -> 50 [] r = f1 -> 1000
MCAbove(r) == CASE r = r1 -> 2000 [] r = r2 -> 50 [] r = r3 -> 50 [] r = f1 -> 1000
MCPosition(r) == CASE r = f1 -> 0 [] r = r1 -> 1 [] r = r2 -> 2 [] r = r3 -> 3
=============================================================================
