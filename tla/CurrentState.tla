---------------------------- MODULE CurrentState ----------------------------
(***************************************************************************)
(* What the committed current state promises its consumers (the web page,  *)
(* the desktop client, the QQ bot): for each system it shows a state that  *)
(* the monitoring memory really was in, and it never goes back to an older *)
(* one, whatever the threads that write it, the failed writes and the      *)
(* restarts do.                                                            *)
(***************************************************************************)
EXTENDS Naturals, Sequences

CONSTANTS
    Systems,    \* monitored star systems
    Payloads    \* what a consumer can be shown of a system

VARIABLES
    truth,      \* the states each system has had in memory, oldest first
    shown,      \* how far along them the committed state is
    current     \* the committed state

vars == <<truth, shown, current>>

Init ==
    /\ truth \in [Systems -> [1..1 -> Payloads]]
    /\ shown = [s \in Systems |-> 1]
    /\ current = [s \in Systems |-> truth[s][1]]

\* Memory moves to a new state in some systems.
Learn ==
    \A s \in Systems :
        \/ truth'[s] = truth[s]
        \/ \E p \in Payloads : truth'[s] = Append(truth[s], p)

\* What is committed is the same as before, or that state of memory or a later one.
Advance ==
    \A s \in Systems :
        \/ shown'[s] = shown[s] /\ current'[s] = current[s]
        \/ \E i \in shown[s]..Len(truth'[s]) :
               /\ shown'[s] = i
               /\ current'[s] = truth'[s][i]

Observe == Learn /\ UNCHANGED <<shown, current>>

Publish == UNCHANGED truth /\ Advance

\* A restart takes memory back to what was stored and republishes at once.
Recover == Learn /\ Advance

Next == Observe \/ Publish \/ Recover

\* What the rest allows itself only where it must: the crew of a later state is
\* shown with the count of an earlier one.
Blend ==
    /\ UNCHANGED truth
    /\ \E s \in Systems :
        \E i \in 1..Len(truth[s]), j \in shown[s]..Len(truth[s]) :
            /\ shown' = [shown EXCEPT ![s] = j]
            /\ current' = [current EXCEPT ![s] = [truth[s][i] EXCEPT !.crew = truth[s][j].crew]]

Spec == Init /\ [][Next]_vars
=============================================================================
