------------------------------ MODULE MCCArena ------------------------------
EXTENDS CArena, TLC

\* The threads run the same code: permuting them changes no safety property.
ThreadSymmetry == Permutations(Threads)
=============================================================================
