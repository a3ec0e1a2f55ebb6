----------------------------- MODULE MCSearches -----------------------------
(* A grid of at most 2^Rounds points, on which every bisection converges.    *)
EXTENDS Searches

ASSUME GridIsResolved == Top <= 2 ^ Rounds
=============================================================================
