------------------------ MODULE MCObjectOwnership ------------------------
EXTENDS ObjectOwnership, TLC

\* Wrappers, and native objects, are interchangeable.
MCSymmetry == Permutations(Wrappers) \union Permutations(Handles)
=============================================================================
