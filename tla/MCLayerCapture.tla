-------------------------- MODULE MCLayerCapture --------------------------
EXTENDS LayerCapture, TLC

Symmetry == Permutations(Captures)

===========================================================================
