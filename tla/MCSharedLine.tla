---------------------------- MODULE MCSharedLine ----------------------------
(***************************************************************************)
(* An instance of GuestCalls that keeps the order of the keys of             *)
(* _queue_by_zone, the order in which a promotion walks over the lines, and  *)
(* two zones with one administrator, whose lines wait for each other.        *)
(***************************************************************************)
EXTENDS MCGuestCalls

CONSTANT g4

\* Three guests call from z1, so that one of them waits whenever another is called,
\* and one from z2; a1 serves both zones.
SharedZoneOf == [g \in CallGuests |-> IF g = g3 THEN z2 ELSE z1]
SharedAdmins == [z \in Zones |-> {a1}]

VARIABLE keys   \* the keys of _queue_by_zone, in the order of their insertion

Walk == Promoting(keys)[Len(keys)]

\* Calls that wait are started by a walk over the keys.
FollowsKeys ==
    (\E c \in CallIds : call[c].state = "none" /\ call'[c].state # "none") =>
        /\ \A z \in Zones : IsPrefix(Walk.queue[z], queue'[z])
        /\ \A c \in Live(Walk) : call'[c] = Walk.call[c]

\* The walk drops the keys of empty lines, a cancellation that of a line it empties.
Kept(q) == SelectSeq(keys, LAMBDA z : q[z] # <<>>)
KeptByCancel == SelectSeq(keys, LAMBDA z : queue[z] = <<>> \/ queue'[z] # <<>>)

\* enqueue_or_start asks _queue_for whether the guest waits already, which leaves a
\* key behind, after the walk over a free line and again before it parks the guest.
Asked(z, admin) ==
    LET rest == IF LineBusy(Tables, z, admin) THEN keys ELSE Kept(Walk.queue)
    IN IF z \in ToSet(rest) THEN rest ELSE Append(rest, z)

KeysOfInvite(g) ==
    keys' = IF InCall(Tables, g) \/ Waiting(Tables, g, ZoneOf[g]) THEN keys
            ELSE Asked(ZoneOf[g], AdminOf[g])

SharedNext ==
    /\ \/ \E g \in CallGuests : GuestInvite(g, FALSE) /\ KeysOfInvite(g)
       \/ \E c \in CallIds : CallStep(c) /\ UNCHANGED keys
       \/ CancelStep /\ keys' = KeptByCancel
       \/ \E k \in Tasks :
              Resume(k) /\ keys' = IF task[k].pc = "promote" THEN Kept(queue') ELSE keys
    /\ FollowsKeys

sharedVars == <<callVars, keys>>

SharedSpec ==
    /\ CallInit /\ keys = <<>>
    /\ [][SharedNext]_sharedVars
    /\ CallFairness
=============================================================================
