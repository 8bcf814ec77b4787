---------------------------- MODULE MCStreamHub ----------------------------
\* StreamHub on a small instance; publishers are interchangeable.
EXTENDS StreamHub, TLC
Symmetry == Permutations(Publishers)
=============================================================================
