-------------------------- MODULE MCClientWorkers ---------------------------
(* Model values for module ClientWorkers.                                  *)
EXTENDS ClientWorkers

CONSTANTS win1, win2

TwoWindows == {win1, win2}

\* The second release comes with new models, which the third one keeps.
NewModelsInSecond == <<1, 2, 2>>
=============================================================================
