---------------------------- MODULE ServerClients ----------------------------
(***************************************************************************)
(* What the server believes of those who use it, and for how long: that a  *)
(* window watches its system while its lease runs, that a client is what   *)
(* its last heartbeat said, that a selection is billed between two         *)
(* heartbeats, that a session or a key is good for a stream.  They share   *)
(* no state, so each is put to work alone.                                 *)
(***************************************************************************)
EXTENDS Monitoring, Heartbeats, OnlineTime, AccessControl

VARIABLE belief     \* "lease", "beats", "billing" or "access", for good

clients == <<vars, beats, billing, access, belief>>

-----------------------------------------------------------------------------
ClientsInit ==
    /\ Init
    /\ BeatInit
    /\ OnlineInit
    /\ AccessInit
    /\ belief \in {"lease", "beats", "billing", "access"}

ByWindows(step) == belief = "lease" /\ step /\ UNCHANGED <<beats, billing, access, belief>>

ByBeats(step) == belief = "beats" /\ step /\ UNCHANGED <<vars, billing, access, belief>>

ByBilling(step) == belief = "billing" /\ step /\ UNCHANGED <<vars, beats, access, belief>>

ByCallers(step) == belief = "access" /\ step /\ UNCHANGED <<vars, beats, billing, belief>>

ClientsNext ==
    \/ ByWindows(Next)
    \/ ByBeats(BeatNext)
    \/ ByBilling(OnlineNext)
    \/ ByCallers(AccessNext)

ClientsSpec == ClientsInit /\ [][ClientsNext]_clients

\* The clock runs and the maintenance thread calls the cleanup every second; an
\* open client sends its heartbeats and frames on timers; a stream makes a pass
\* at least every second and checks its principal at least every half minute.
ClientsFairness ==
    /\ WF_vars(belief = "lease" /\ Tick)
    /\ WF_vars(belief = "lease" /\ WarmUp)
    /\ WF_vars(belief = "lease" /\ Cleanup({}))
    /\ WF_beats(belief = "beats" /\ BeatTick)
    /\ WF_beats(belief = "beats" /\ Duties)
    /\ WF_beats(belief = "beats" /\ ExpireFrames)
    /\ WF_access(belief = "access" /\ PassSteps)
    /\ WF_access(belief = "access" /\ CheckComesDue)

FairClientsSpec == ClientsSpec /\ ClientsFairness

-----------------------------------------------------------------------------
ClientsTypeOK == TypeOK /\ BeatTypeOK /\ OnlineTypeOK /\ AccessTypeOK

\* A window that sends no new frame loses its residency, what is shown of a
\* client comes to be what it does, and a stream whose session or key is good
\* no more ends (capture_state.py 241, intel_store.py 2915, http_server.py 4732).
BeliefsEnd ==
    /\ SilentWindowsLeave
    /\ belief = "beats" => BeliefsComeTrue
    /\ <>[]StreamsEntitled
=============================================================================
