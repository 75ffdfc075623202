------------------------------- MODULE Zones -------------------------------
(***************************************************************************)
(* Zones, their quota and the accounts they belong to: zone_policy.py,      *)
(* POST/PATCH/DELETE /zones (routers/zones.py, zone_service.py), the owner  *)
(* routes that change an account, and the backfill of every server start.   *)
(*                                                                         *)
(* zones[o] lists the rows owner o created (owner_id = creator_id), oldest  *)
(* first.  A soft-deleted row is never read again but for its place among   *)
(* the first rows, which the backfill counts: it is Gone, and forgotten     *)
(* once BackfillDepth rows are older.  A name stands for its lower case.    *)
(* Who may edit or delete is left out: the system administrator may always, *)
(* so authorisation never decides whether a change can happen.              *)
(***************************************************************************)
EXTENDS Naturals, Sequences, FiniteSets

CONSTANTS
    Owners,         \* the people, i.e. rows of owners
    Names,          \* zone names
    MaxAdmin,       \* settings.MAX_ZONES_ADMINISTRATOR
    MaxPrimary,     \* settings.MAX_ZONES_ADMINISTRATOR_PRIMARY
    MaxRegraded,    \* bound: no regrading once so many owners are regraded
    NoAccount,      \* not registered; as a root, account_owner_id is NULL
    Gone            \* a soft-deleted zone

\* The settings' validator clamps the primary limit to the total.
ASSUME LimitsAssumption ==
    /\ MaxAdmin \in Nat \ {0}
    /\ MaxPrimary \in 1..MaxAdmin
    /\ MaxRegraded \in Nat

MaxSolo == 2            \* INDIVIDUAL_SECONDARY_ZONE_LIMIT
BackfillDepth == 2      \* "rn <= 2" of the backfill, whatever MaxPrimary is

VARIABLES
    account,        \* owner -> role, account type and account root
    zones,          \* owner -> its zones, oldest first
    regraded,       \* history: owners whose role or type was changed
    backfilled      \* history: owners whose zones a start made primary

znVars == <<account, zones, regraded, backfilled>>

Roles == {"administrator", "user"}
\* enhanced_plus behaves as private_plus here, private as enhanced.
Types == {"exclusive", "enhanced", "private_plus"}
Accounts == [role : Roles, type : Types, root : Owners \cup {NoAccount}]
Rows == [name : Names, primary : BOOLEAN]

ASSUME ZnNullsOK == NoAccount \notin Accounts \cup Owners /\ Gone \notin Rows

-----------------------------------------------------------------------------
(* Accounts *)

Registered == {o \in Owners : account[o] # NoAccount}
Root(o) == IF account[o].root = NoAccount THEN o ELSE account[o].root
Admin(o) == account[o].role = "administrator"

\* lock_account_for_zone_policy: the owners of the account o belongs to.
Scope(o) == {x \in Registered : x = Root(o) \/ Root(x) = Root(o)}

\* An Individual who invited itself: exclusive, and its own account root.
Solo(o) == account[o].type = "exclusive" /\ Root(o) = o

\* The types an account's role allows: Individual is a user, Pro an administrator.
RoleFits(role, type) ==
    /\ type = "exclusive" => role = "user"
    /\ type = "enhanced" => role = "administrator"

\* account_type_for_invited_member
MemberType(type) == IF type = "private_plus" THEN type ELSE "exclusive"

-----------------------------------------------------------------------------
(* Rows and counts *)

IsPrimary(r) == r # Gone /\ r.primary
IsSecondary(r) == r # Gone /\ ~r.primary

\* The places of the rows that are there, and of those of one tier.
ActiveRows(s) == {i \in DOMAIN s : s[i] # Gone}
PrimaryRows(s) == {i \in DOMAIN s : IsPrimary(s[i])}
SecondaryRows(s) == {i \in DOMAIN s : IsSecondary(s[i])}

Primaries(s) == Cardinality(PrimaryRows(s))
Secondaries(s) == Cardinality(SecondaryRows(s))

\* The rows at some places, in their order: Nth is the place that has k of them up
\* to it.
Rank(places, i) == Cardinality({j \in places : j <= i})
Nth(places, k) == CHOOSE i \in places : Rank(places, i) = k
Picked(s, places) == [k \in 1..Cardinality(places) |-> s[Nth(places, k)]]

Active(s) == Picked(s, ActiveRows(s))

NamesOf(s) == {s[i].name : i \in ActiveRows(s)}

\* Mutant of NamesTaken: uniqueness is checked among the creator's own zones only.
OwnNamesTaken(zs, o) == NamesOf(zs[o])

NamesTaken(zs, o) == UNION {NamesOf(zs[m]) : m \in Scope(o)}

MemberLimit(primaries) == IF primaries < MaxAdmin THEN MaxAdmin - primaries ELSE 0

\* build_capabilities: what an owner may have, and what counts against it.
Limit(o) ==
    CASE Solo(o) -> MaxSolo
      [] ~Solo(o) /\ Admin(o) -> MaxAdmin
      [] OTHER -> MemberLimit(Primaries(zones[Root(o)]))

Counted(o) == IF Solo(o) THEN Secondaries(zones[o]) ELSE Cardinality(ActiveRows(zones[o]))

MayCreatePrimary(o) == ~Solo(o) /\ Admin(o) /\ Primaries(zones[o]) < MaxPrimary

Forget(s) == Picked(s, {i \in DOMAIN s : i <= BackfillDepth \/ s[i] # Gone})

SoftDelete(s, doomed) == Forget([i \in DOMAIN s |-> IF i \in doomed THEN Gone ELSE s[i]])

\* Mutant of Overflow: the rows come oldest first and the head of the list is taken.
OverflowOldest(s, limit) == {i \in SecondaryRows(s) : Rank(SecondaryRows(s), i) + limit <= Secondaries(s)}

\* The newest secondaries, as many as exceed the limit.
Overflow(s, limit) == {i \in SecondaryRows(s) : Rank(SecondaryRows(s), i) > limit}

\* Mutant of Evict: the limit is computed from the primaries before the new one.
EvictLate(o) ==
    LET limit == MemberLimit(Primaries(zones[o]))
    IN  [m \in Owners |-> IF m \in Scope(o) \ {o}
                          THEN SoftDelete(zones[m], Overflow(zones[m], limit))
                          ELSE zones[m]]

\* evict_member_secondary_overflow, for one more primary of administrator o.
Evict(o) ==
    LET limit == MemberLimit(Primaries(zones[o]) + 1)
    IN  [m \in Owners |-> IF m \in Scope(o) \ {o}
                          THEN SoftDelete(zones[m], Overflow(zones[m], limit))
                          ELSE zones[m]]

-----------------------------------------------------------------------------
ZnTypeOK ==
    /\ account \in [Owners -> Accounts \cup {NoAccount}]
    /\ zones \in [Owners -> Seq(Rows \cup {Gone})]
    /\ \A o \in Registered : Root(o) \in Registered
    /\ \A o \in Registered \ regraded : RoleFits(account[o].role, account[o].type)
    /\ \A o \in Owners \ Registered : zones[o] = <<>>
    /\ regraded \subseteq Registered /\ backfilled \subseteq Registered

ZnInit ==
    /\ account = [o \in Owners |-> NoAccount]
    /\ zones = [o \in Owners |-> <<>>]
    /\ regraded = {} /\ backfilled = {}

-----------------------------------------------------------------------------
(* Registration and account changes *)

RegisterAdministrator(o, type) ==
    /\ o \notin Registered
    /\ RoleFits("administrator", type)
    /\ account' = [account EXCEPT ![o] = [role |-> "administrator", type |-> type, root |-> o]]
    /\ UNCHANGED <<zones, regraded, backfilled>>

\* A member joins administrator a.  The seat limit only refuses, and is left out.
Join(o, a) ==
    /\ o \notin Registered /\ a \in Registered
    /\ Admin(a) /\ account[a].type = "private_plus"
    /\ account' = [account EXCEPT
           ![o] = [role |-> "user", type |-> MemberType(account[a].type), root |-> a]]
    /\ UNCHANGED <<zones, regraded, backfilled>>

\* An Individual signs up: its one primary is made from the zones of a Communal ID,
\* under a name nobody checks.
RegisterSolo(o, name) ==
    /\ o \notin Registered
    /\ account' = [account EXCEPT ![o] = [role |-> "user", type |-> "exclusive", root |-> o]]
    /\ zones' = [zones EXCEPT ![o] = <<[name |-> name, primary |-> TRUE]>>]
    /\ UNCHANGED <<regraded, backfilled>>

\* PATCH /owners by the system administrator.  A change of type, or the same type
\* sent again, re-types whoever else is linked to the root of administrator o.
Regrade(o, role, type, typed) ==
    LET root == IF role = "administrator" /\ role # account[o].role THEN Root(o) ELSE account[o].root
        cascade(m) == typed /\ role = "administrator" /\ m # o /\ account[m].root = Root(o)
    IN  /\ o \in Registered
        /\ Cardinality(regraded) < MaxRegraded
        /\ RoleFits(role, type)
        /\ type # account[o].type => typed
        /\ account' = [m \in Owners |->
               CASE m = o -> [role |-> role, type |-> type, root |-> root]
                 [] m \in Registered \ {o} /\ cascade(m) ->
                        [account[m] EXCEPT !.type = MemberType(type)]
                 [] OTHER -> account[m]]
        /\ regraded' = regraded \cup {m \in Owners : account'[m] # account[m]}
        /\ UNCHANGED <<zones, backfilled>>

\* Mutant of DeleteOwner: the members keep pointing at the deleted account holder.
DeleteOwnerOrphaning(o) ==
    /\ o \in Registered
    /\ account' = [account EXCEPT ![o] = NoAccount]
    /\ zones' = [zones EXCEPT ![o] = <<>>]
    /\ regraded' = regraded \ {o}
    /\ backfilled' = backfilled \ {o}

\* DELETE /owners/{self}: the zones go with it, and account_owner_id of its members
\* becomes NULL, which makes each the root of an account of its own.
DeleteOwner(o) ==
    /\ o \in Registered
    /\ account' = [m \in Owners |->
           CASE m = o -> NoAccount
             [] m \in Registered \ {o} /\ account[m].root = o -> [account[m] EXCEPT !.root = NoAccount]
             [] OTHER -> account[m]]
    /\ zones' = [zones EXCEPT ![o] = <<>>]
    /\ regraded' = regraded \ {o}
    /\ backfilled' = backfilled \ {o}

-----------------------------------------------------------------------------
(* Zones *)

\* POST /zones: quota, tier, eviction, then the name, checked against what is left.
\* A request that names no tier gets a primary while it may: one of these cases.
CreateZone(o, name, primary) ==
    /\ o \in Registered
    /\ Counted(o) < Limit(o)
    /\ primary => MayCreatePrimary(o)
    /\ LET others == IF primary THEN Evict(o) ELSE zones
       IN  /\ name \notin NamesTaken(others, o)
           /\ zones' = [others EXCEPT ![o] = Append(@, [name |-> name, primary |-> primary])]
    /\ UNCHANGED <<account, regraded, backfilled>>

\* PATCH /zones: the tier never changes.  Renaming a soft-deleted row, which the
\* route allows, changes nothing anybody reads.
RenameZone(o, i, name) ==
    /\ zones[o][i] # Gone
    /\ name \notin NamesTaken([zones EXCEPT ![o][i] = Gone], o)
    /\ zones' = [zones EXCEPT ![o][i].name = name]
    /\ UNCHANGED <<account, regraded, backfilled>>

DeleteZone(o, i) ==
    /\ zones[o][i] # Gone
    /\ zones' = [zones EXCEPT ![o] = SoftDelete(@, {i})]
    /\ UNCHANGED <<account, regraded, backfilled>>

-----------------------------------------------------------------------------
(* A server start: init_db, on a thread of its own while requests are served; the *)
(* two statements are transactions of their own.                                  *)

\* Every administrator's oldest rows become primary.
Backfill(s) == [i \in DOMAIN s |-> IF i <= BackfillDepth /\ s[i] # Gone
                                   THEN [s[i] EXCEPT !.primary = TRUE] ELSE s[i]]

Backfilling ==
    /\ zones' = [o \in Owners |-> IF o \in Registered /\ Admin(o)
                                  THEN Backfill(zones[o]) ELSE zones[o]]
    /\ backfilled' = backfilled \cup {o \in Owners : zones'[o] # zones[o]}
    /\ UNCHANGED <<account, regraded>>

\* migrate_invited_member_account_types
Realigned(m) == \E a \in Registered \ {m} :
    Admin(a) /\ account[a].type = "private_plus" /\ Root(a) = account[m].root

Realign ==
    /\ account' = [m \in Owners |-> IF m \in Registered /\ Realigned(m)
                                    THEN [account[m] EXCEPT !.type = "private_plus"] ELSE account[m]]
    /\ UNCHANGED <<zones, regraded, backfilled>>

-----------------------------------------------------------------------------
ZnNext ==
    \/ \E o \in Owners :
        \/ \E type \in Types : RegisterAdministrator(o, type)
        \/ \E a \in Owners : Join(o, a)
        \/ \E name \in Names : RegisterSolo(o, name)
        \/ \E role \in Roles, type \in Types, typed \in BOOLEAN : Regrade(o, role, type, typed)
        \/ DeleteOwner(o)
        \/ \E name \in Names, primary \in BOOLEAN : CreateZone(o, name, primary)
        \/ \E i \in DOMAIN zones[o], name \in Names : RenameZone(o, i, name)
        \/ \E i \in DOMAIN zones[o] : DeleteZone(o, i)
    \/ Backfilling
    \/ Realign

ZnSpec == ZnInit /\ [][ZnNext]_znVars

-----------------------------------------------------------------------------
(* Properties *)

AsRegistered(o) == Scope(o) \cap regraded = {}
Undisturbed(o) == AsRegistered(o) /\ Scope(o) \cap backfilled = {}

\* Nobody ever has more zones than the quota of docs/zones-capabilities.md gives: a
\* member's shrinks as its administrator creates primaries, so creating must evict.
\* Accounts the system administrator or a server start changed are excepted: neither
\* looks at the quota.
WithinQuota ==
    \A o \in Registered : Undisturbed(o) =>
        /\ Counted(o) <= Limit(o)
        /\ Primaries(zones[o]) <=
               CASE Solo(o) -> 1 [] ~Solo(o) /\ Admin(o) -> MaxPrimary [] OTHER -> 0

\* Active zones of one account have different names, through renames, evictions that
\* free a name, deletions and accounts that split.
NamesUnique ==
    \A o \in Registered : AsRegistered(o) =>
        \A x, y \in Scope(o) : \A i \in ActiveRows(zones[x]), j \in ActiveRows(zones[y]) :
            zones[x][i].name = zones[y][j].name => x = y /\ i = j

\* A member loses zones to its administrator's new primary only as far as its new
\* limit demands, and the newest ones: what is kept is the oldest part.
EvictionSparesTheOldest ==
    [][\A m \in Registered :
           /\ Root(m) # m /\ Undisturbed(m)
           /\ Cardinality(ActiveRows(zones'[Root(m)])) > Cardinality(ActiveRows(zones[Root(m)]))
           => LET had == Active(zones[m])
                  keeps == IF Len(had) < Limit(m)' THEN Len(had) ELSE Limit(m)'
              IN  Active(zones'[m]) = SubSeq(had, 1, keeps)]_znVars

\* An administrator never has more primaries than MAX_ZONES_ADMINISTRATOR_PRIMARY
\* (core/config.py: "of those, up to ... are primary").  A server start breaks it.
PrimariesWithinLimit ==
    \A o \in Registered : AsRegistered(o) /\ Admin(o) => Primaries(zones[o]) <= MaxPrimary
=============================================================================
