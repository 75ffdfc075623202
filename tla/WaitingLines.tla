---------------------------- MODULE WaitingLines ----------------------------
(* What the phone lines of the zones promise their guests, without calls,     *)
(* ids, handlers or sockets: one guest at a time talks on a line, the others  *)
(* wait in the order in which they came, and who is next is whoever came      *)
(* first. A guest may give up, but is passed over only for the sake of        *)
(* another line, where the guest talks or whose turn the guest gets.          *)
EXTENDS Integers, Sequences, SequencesExt

CONSTANTS Guests, Zones

VARIABLES
    talking,  \* the guests on the line of each zone
    waiting   \* the guests who wait for it, the first comer first

linesVars == <<talking, waiting>>

Init ==
    /\ talking = [z \in Zones |-> {}]
    /\ waiting = [z \in Zones |-> <<>>]

------------------------------------------------------------------------------
\* r is q without some of its members: nobody changes places.
Thinned(r, q) ==
    \E place \in [DOMAIN r -> DOMAIN q] :
        /\ \A i, j \in DOMAIN r : i < j => place[i] < place[j]
        /\ \A i \in DOMAIN r : r[i] = q[place[i]]

\* The line after a step, without the guest who came in that step.
Came(z) == waiting'[z] # <<>> /\ Last(waiting'[z]) \notin ToSet(waiting[z]) \cup talking'[z]
Stayed(z) == IF Came(z) THEN Front(waiting'[z]) ELSE waiting'[z]

\* The first k leave the line, and nobody else.
Leave(z, k) == Stayed(z) = SubSeq(waiting[z], k + 1, Len(waiting[z]))

\* Another line serves g: there g talks, or is the one who has the turn.
ServedBeside(z, g, turns) ==
    \E y \in Zones \ {z} :
        \/ g \in talking[y]
        \/ y \in turns /\ \E k \in DOMAIN waiting[y] : waiting[y][k] = g /\ Leave(y, k)

PassedOver(z, k, turns) == \A j \in 1..k : ServedBeside(z, waiting[z][j], turns)

------------------------------------------------------------------------------
\* The first who is not served elsewhere gets the free line; the ringing may
\* reach nobody.
TakeTurn(z, turns) ==
    /\ talking[z] = {}
    /\ \E k \in DOMAIN waiting[z] :
           /\ PassedOver(z, k - 1, turns) /\ Leave(z, k)
           /\ talking'[z] \subseteq {waiting[z][k]}

\* Nobody starts or stops to talk. On a free line, who is served elsewhere leaves.
Wait(z, turns) ==
    /\ talking'[z] = talking[z]
    /\ \E k \in 0..Len(waiting[z]) :
           /\ k > 0 => talking[z] = {}
           /\ PassedOver(z, k, turns) /\ Leave(z, k)

\* Nobody waits for the free line alone: a newcomer gets it.
WalkIn(z, turns) ==
    /\ talking[z] = {} /\ PassedOver(z, Len(waiting[z]), turns)
    /\ waiting'[z] = <<>>
    /\ \E g \in Guests \ ToSet(waiting[z]) : talking'[z] = {g}

\* One step may serve several lines, but a guest on one of them only.
Serve ==
    /\ \E turns \in SUBSET Zones : \A z \in Zones :
           IF z \in turns THEN TakeTurn(z, turns) ELSE Wait(z, turns) \/ WalkIn(z, turns)
    /\ \A y, z \in Zones : y # z => talking'[y] \cap talking'[z] = {}

HangUp ==
    /\ \A z \in Zones : talking'[z] \in {{}, talking[z]}
    /\ waiting' = waiting

\* g leaves the lines it waits in, or some of them; the others stay.
GiveUp(g) ==
    /\ talking' = talking
    /\ \A z \in Zones :
           /\ Thinned(waiting'[z], waiting[z])
           /\ ToSet(waiting[z]) \ ToSet(waiting'[z]) \subseteq {g}

Next == HangUp \/ Serve \/ \E g \in Guests : GiveUp(g)

Spec == Init /\ [][Next]_linesVars
=============================================================================
