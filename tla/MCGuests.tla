------------------------------ MODULE MCGuests ------------------------------
(***************************************************************************)
(* The instances of GuestCalls, GuestAccess and UniversalAccess that TLC    *)
(* checks together.  They share no state: one of them is in focus from the  *)
(* start and moves, the others keep their initial state.                    *)
(***************************************************************************)
EXTENDS MCGuestCalls, GuestAccess, UniversalAccess

VARIABLE focus

\* Persons 1 and 2 belong to one network, person 3 to another.
UaNet == <<1, 1, 2>>

\* Guests call and arrive; events and tokens share their values.
GuestSymmetry == Permutations(Guests) \cup Permutations(Events)

\* No QR links exist: all guests come with a pass, or announce themselves.
PassesOnly == ((\E g \in Guests : GuestStep(g)) \/ PassStep \/ Tick) /\ token' = token

\* No passes and no event ids; the clock stops earlier.
LinksOnly ==
    /\ (\E g \in Guests : GuestStep(g)) \/ TokenStep \/ Tick
    /\ pass' = pass /\ now' <= 2
    /\ \A t \in Tokens : token'[t].event = NoEvent /\ token'[t].expires <= 2

\* One person at a time sends to the hubs: senders do not see each other.
KeysOnly == UaNext /\ Cardinality({p \in UaPeople : sending'[p] # NoOne}) <= 1

guestVars == <<vars, callVars, uaVars, focus>>

GuestInit ==
    /\ Init /\ CallInit /\ UaInit /\ online = Users
    /\ focus \in {"passes", "links", "calls", "keys"}
    /\ focus # "passes" => pass = [e \in Events |-> NoPass]

GuestNext ==
    /\ UNCHANGED focus
    /\ \/ focus = "passes" /\ PassesOnly /\ UNCHANGED <<callVars, uaVars>>
       \/ focus = "links" /\ LinksOnly /\ UNCHANGED <<callVars, uaVars>>
       \/ focus = "calls" /\ CallNext /\ UNCHANGED <<vars, uaVars>>
       \/ focus = "keys" /\ KeysOnly /\ UNCHANGED <<vars, callVars>>

GuestSpec == GuestInit /\ [][GuestNext]_guestVars

TypesOK == TypeOK /\ CallTypeOK /\ UaTypeOK
=============================================================================
