--------------------------- MODULE MCPostingForm ---------------------------
EXTENDS PostingForm, TLC
CONSTANTS i1, i2, f1, s1, s2
FormSymmetry == Permutations(Submits)
=============================================================================
