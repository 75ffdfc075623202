---------------------------- MODULE MCGuestCalls ----------------------------
(* Model-checking instances of GuestCalls.                                     *)
EXTENDS GuestCalls, TLC

CONSTANTS g1, g2, g3, a1, a2, z1, z2

\* One zone with one administrator, who calls everybody.
OneZoneOf == [g \in CallGuests |-> z1]
SameAdmin == [g \in CallGuests |-> a1]
OneZoneAdmins == [z \in {z1} |-> {a1}]
Everybody == Admins \X CallGuests
OnlyG1 == Admins \X {g1}

\* Two zones with an administrator each. a1 was responsible for g2 when g2
\* arrived in the second zone, so a1 serves both; a2 also calls g1 from there.
TwoZoneOf == [g \in CallGuests |-> IF g = g1 THEN z1 ELSE z2]
SharedAdmin == [g \in CallGuests |-> IF g = g3 THEN a2 ELSE a1]
OwnAdmins == [z \in {z1, z2} |-> IF z = z1 THEN {a1} ELSE {a2}]
AcrossZones == {<<a2, g1>>}

\* Everybody is connected to the end, and nobody's access is decided; or a2 and g3
\* are away, the sockets of the others come and go, and g1 is approved or rejected.
LinesNext ==
    /\ CallNext
    /\ IF a2 \in online THEN access' = access /\ \A u \in Users : ~Disconnect(u)
       ELSE {a2, g3} \cap online' = {} /\ \A g \in {g2, g3} : access'[g] = access[g]

LinesInit == CallInit /\ online \in {Users, Users \ {a2, g3}}

LinesSpec == LinesInit /\ [][LinesNext]_callVars
=============================================================================
