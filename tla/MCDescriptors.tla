--------------------------- MODULE MCDescriptors ---------------------------
EXTENDS Descriptors, TLC

\* Objects of one class are interchangeable.
ClassSymmetry == Permutations(Files) \cup Permutations(Pipes) \cup Permutations(Fifos)
=============================================================================
