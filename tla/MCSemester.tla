----------------------------- MODULE MCSemester -----------------------------
EXTENDS Semester, TLC

\* Clients, collections, contents and configurations are interchangeable.
ClientCollDocSymmetry ==
    Permutations(Clients) \cup Permutations(DataColls) \cup Permutations(Docs) \cup Permutations(Configs)
=============================================================================
