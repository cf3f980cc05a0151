----------------------------- MODULE MC_Journal -----------------------------
EXTENDS Journal, TLC

CONSTANTS w1, w2, b1, b2

WriterSymmetry == Permutations(Writers)

=============================================================================
