------------------------- MODULE MCStatePersistence -------------------------
(* Model values for module StatePersistence: threads and systems.          *)
EXTENDS StatePersistence, TLC

CONSTANTS u1, u2, e1, maint, jita, amarr

TwoUploaders == {u1, u2}
OneUploader == {u1}
OneEnricher == {e1}
NoEnricher == {}

OneSystem == {jita}
TwoSystems == {jita, amarr}

\* Request threads are interchangeable in every safety property.
ThreadSymmetry == Permutations(TwoUploaders)
=============================================================================
