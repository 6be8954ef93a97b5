--------------------------- MODULE MCEvidencePack ---------------------------
EXTENDS EvidencePack, TLC
Symmetry == Permutations(Scoped) \cup Permutations(PqKeys) \cup Permutations(Producers)
=============================================================================
