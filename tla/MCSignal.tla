------------------------------ MODULE MCSignal ------------------------------
EXTENDS Signal, TLC

\* Which of the interchangeable objects is used first does not matter.
ObjectSymmetry == Permutations(Objects)
=============================================================================
