---------------------------- MODULE MCTaskStore ----------------------------
EXTENDS TaskStore, TLC

\* Handlers are interchangeable goroutines; sound for the safety properties.
HandlerSymmetry == Permutations(Handlers)
=============================================================================
