----------------------------- MODULE MCPreplan -----------------------------
EXTENDS Preplan, TLC

ClientAncodeSymmetry == Permutations(Clients) \cup Permutations(Ancodes)
=============================================================================
