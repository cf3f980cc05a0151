---------------------------- MODULE MC_Recovery ----------------------------
EXTENDS Recovery, TLC

CONSTANTS w1, w2

WriterSymmetry == Permutations(Writers)
=============================================================================
