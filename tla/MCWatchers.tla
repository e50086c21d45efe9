----------------------------- MODULE MCWatchers -----------------------------
EXTENDS Watchers, TLC

\* Handlers are interchangeable goroutines; sound for the safety properties.
CallSymmetry == Permutations(Calls)

\* fail_threshold in check-ins: absent, or the value a checker sends.
KeepOrOne == {Keep, 1}
=============================================================================
