---------------------------- MODULE MCKgniCdmBarr ----------------------------
EXTENDS KgniCdmBarr, TLC

Symmetry == Permutations(Procs)

=============================================================================
