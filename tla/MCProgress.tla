----------------------------- MODULE MCProgress -----------------------------
(***************************************************************************)
(* The instances of GuestCalls, GuestAccess and Startup whose progress TLC   *)
(* checks together.  They share no state: one of them is in focus from the   *)
(* start and moves, the others rest in a state where nothing is due.         *)
(***************************************************************************)
EXTENDS MCGuestCalls, GuestAccess, Startup

VARIABLE focus

\* The server has started for the last time.
Started ==
    /\ stAt = Done /\ stAttempt = 1 /\ stOld = FALSE /\ stStarts = MaxStarts
    /\ stPatched = Patches /\ stChosen = {}
    /\ stSchedule = NoSchedule
    /\ stKey = [enabled |-> FALSE, selected |-> FALSE]
    /\ stHub = [account |-> FALSE, webhook |-> FALSE, zones |-> FALSE]

\* One of the two events has a pass.
OnePass == Cardinality({e \in Events : pass[e] # NoPass}) <= 1

\* The earlier version has rows of one kind, and people write one kind of row.
OneKindOld ==
    \/ stSchedule = NoSchedule /\ ~stKey.enabled
    \/ stSchedule = NoSchedule /\ ~stHub.account
    \/ ~stKey.enabled /\ ~stHub.account
OneChosen == Cardinality(stChosen) <= 1

progressVars == <<vars, callVars, stVars, focus>>

ProgressInit ==
    /\ focus \in {"calls", "arrivals", "start"}
    /\ CallInit /\ Init
    /\ OnePass
    /\ focus # "arrivals" => pass = [e \in Events |-> NoPass]
    /\ IF focus = "start" THEN StInit /\ OneKindOld ELSE Started

ProgressNext ==
    /\ UNCHANGED focus
    /\ \/ focus = "calls" /\ CallNext /\ UNCHANGED <<vars, stVars>>
       \/ focus = "arrivals" /\ Next /\ OnePass' /\ UNCHANGED <<callVars, stVars>>
       \/ focus = "start" /\ StNext /\ OneChosen' /\ UNCHANGED <<vars, callVars>>

ProgressSpec ==
    /\ ProgressInit /\ [][ProgressNext]_progressVars
    /\ CallFairness /\ GuestFairness /\ StFairness
=============================================================================
