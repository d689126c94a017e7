-------------------------- MODULE MCResourceBuild --------------------------
EXTENDS ResourceBuild, TLC
CONSTANTS b1, b2, c0, c1
MCBuilders  == {b1, b2}
MCRevisions == {c0, c1}
MCSymmetry  == Permutations(MCBuilders)
=============================================================================
