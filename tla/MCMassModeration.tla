---------------------------- MODULE MCMassModeration ----------------------------
EXTENDS MassModeration, TLC
Symmetry == Permutations(Handler) \cup Permutations(Request) \cup Permutations(Slice)
=============================================================================
