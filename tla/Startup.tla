------------------------------ MODULE Startup ------------------------------
(***************************************************************************)
(* The server's start (main.py lifespan, database.py init_db and its        *)
(* patches) and the rows its backfills touch: access schedules              *)
(* (access_schedule_service.py), private keys of universal access and       *)
(* smart-home hubs.                                                         *)
(*                                                                         *)
(* The port opens at once; a daemon thread patches the schema.  In a        *)
(* rolling deploy the previous container is still there and may hold locks: *)
(* patches with a lock timeout then fail, those without one wait.  Every    *)
(* patch is one transaction, and runs again at every start.                 *)
(***************************************************************************)
EXTENDS Naturals, Sequences, FiniteSets

CONSTANTS
    MaxInitRetries, \* _MAX_INIT_RETRIES
    MaxStarts,      \* bound: starts of the process
    NoSchedule

ASSUME StartupConstantsOK == MaxInitRetries \in Nat \ {0} /\ MaxStarts \in Nat \ {0}

VARIABLES
    stAt,           \* next step of the thread in Program, Done or GaveUp
    stAttempt,
    stOld,          \* the previous container is still there
    stStarts,
    stPatched,      \* patches the schema has
    stSchedule,     \* a row of access_schedules
    stKey,          \* a private key: enabled by its administrator, selected by its member
    stHub,          \* a hub: its webhook and whether zones are linked to it
    stChosen        \* history: rows somebody wrote since their columns are there

stVars == <<stAt, stAttempt, stOld, stStarts, stPatched, stSchedule, stKey, stHub, stChosen>>
stRows == <<stSchedule, stKey, stHub, stChosen>>

\* Mutant of Program: the patch of the keys is left to the next start.
ProgramWithoutKeys == <<
    [patch |-> "owners",    fails |-> "again"],
    [patch |-> "codes",     fails |-> "again"],
    [patch |-> "owners",    fails |-> "init"],
    [patch |-> "devices",   fails |-> "skip"],
    [patch |-> "invites",   fails |-> "skip"],
    [patch |-> "critical",  fails |-> "wait"],
    [patch |-> "broad",     fails |-> "wait"],
    [patch |-> "codes",     fails |-> "wait"] >>

\* _init_db_background and, from step 3, init_db.  On a failure a patch is tried
\* again ("again"), init_db is tried again ("init"), or the failure is logged and
\* init_db goes on ("skip").  A patch that has no lock timeout waits ("wait").
Program == <<
    [patch |-> "owners",    fails |-> "again"],
    [patch |-> "codes",     fails |-> "again"],
    [patch |-> "owners",    fails |-> "init"],
    [patch |-> "devices",   fails |-> "skip"],
    [patch |-> "devices",   fails |-> "skip"],
    [patch |-> "invites",   fails |-> "skip"],
    [patch |-> "keys",      fails |-> "skip"],
    [patch |-> "critical",  fails |-> "wait"],
    [patch |-> "broad",     fails |-> "wait"],
    [patch |-> "codes",     fails |-> "wait"] >>

InitDb == 3
Done == Len(Program) + 1
GaveUp == 0
Patches == {"owners", "codes", "devices", "invites", "keys", "critical", "broad"}
ScheduleStatuses == {"PENDING", "ACCEPTED", "REJECTED", "REVOKED"}

-----------------------------------------------------------------------------
StTypeOK ==
    /\ stAt \in DOMAIN Program \cup {Done, GaveUp}
    /\ stAttempt \in 1 .. MaxInitRetries
    /\ stOld \in BOOLEAN
    /\ stStarts \in 1 .. MaxStarts
    /\ stPatched \subseteq Patches
    /\ stSchedule \in [status : ScheduleStatuses, active : BOOLEAN] \cup {NoSchedule}
    /\ stKey \in [enabled : BOOLEAN, selected : BOOLEAN]
    /\ stHub \in [account : BOOLEAN, webhook : BOOLEAN, zones : BOOLEAN]
    /\ stChosen \subseteq {"schedule", "key", "hub"}

\* A database of an earlier version: its columns are missing, a schedule may be live, a
\* key has no selection, and the webhook is the account's ("account") and not the hub's.
StInit ==
    /\ stAt = 1 /\ stAttempt = 1 /\ stOld = TRUE /\ stStarts = 1
    /\ stPatched = {}
    /\ stSchedule \in {NoSchedule} \cup [status : {"PENDING"}, active : BOOLEAN]
    /\ stKey \in [enabled : BOOLEAN, selected : {FALSE}]
    /\ stHub \in [account : BOOLEAN, webhook : {FALSE}, zones : {FALSE}]
    /\ stChosen = {}

-----------------------------------------------------------------------------
(* The backfills *)

\* Mutant of ScheduleBackfilled: a schedule need not be live to be accepted.
AnyScheduleBackfilled ==
    IF stSchedule # NoSchedule /\ stSchedule.status = "PENDING"
    THEN [status |-> "ACCEPTED", active |-> TRUE] ELSE stSchedule

\* Live rows of an earlier version are accepted; what is not accepted is not live.
ScheduleBackfilled ==
    IF stSchedule # NoSchedule /\ stSchedule.active /\ stSchedule.status = "PENDING"
    THEN [stSchedule EXCEPT !.status = "ACCEPTED"]
    ELSE IF stSchedule # NoSchedule /\ stSchedule.status # "ACCEPTED"
         THEN [stSchedule EXCEPT !.active = FALSE] ELSE stSchedule

\* An enabled private key without a row of its member gets one.
KeyBackfilled == [stKey EXCEPT !.selected = @ \/ stKey.enabled]

\* A hub without a webhook gets the account's, and a hub with one gets all zones if it has none.
HubBackfilled ==
    LET url == stHub.webhook \/ stHub.account
    IN  [stHub EXCEPT !.webhook = url, !.zones = @ \/ url]

Apply(patch) ==
    /\ stPatched' = stPatched \cup {patch}
    /\ stSchedule' = IF patch = "broad" THEN ScheduleBackfilled ELSE stSchedule
    /\ stKey' = IF patch = "keys" THEN KeyBackfilled ELSE stKey
    /\ stHub' = IF patch = "devices" THEN HubBackfilled ELSE stHub
    /\ UNCHANGED stChosen

-----------------------------------------------------------------------------
(* The thread *)

\* The patch gets its locks, which the previous container need not hold.
Succeed ==
    /\ stAt \in DOMAIN Program
    /\ Apply(Program[stAt].patch)
    /\ stAt' = stAt + 1
    /\ stAttempt' = IF stAt < InitDb THEN 1 ELSE stAttempt
    /\ UNCHANGED <<stOld, stStarts>>

\* The lock timeout: sleep and try again, up to MaxInitRetries attempts.
FailAgain ==
    /\ stAt \in DOMAIN Program /\ stOld /\ Program[stAt].fails \in {"again", "init"}
    /\ IF stAttempt < MaxInitRetries
       THEN stAttempt' = stAttempt + 1 /\ UNCHANGED stAt
       ELSE /\ stAttempt' = 1
            /\ stAt' = IF Program[stAt].fails = "again" THEN stAt + 1 ELSE GaveUp
    /\ UNCHANGED <<stOld, stStarts, stPatched, stRows>>

FailSkipped ==
    /\ stAt \in DOMAIN Program /\ stOld /\ Program[stAt].fails = "skip"
    /\ stAt' = stAt + 1
    /\ UNCHANGED <<stAttempt, stOld, stStarts, stPatched, stRows>>

OldExits ==
    /\ stOld /\ stOld' = FALSE
    /\ UNCHANGED <<stAt, stAttempt, stStarts, stPatched, stRows>>

\* The process is deployed again, or crashes at any point of the program.
Restart ==
    /\ stStarts < MaxStarts
    /\ stStarts' = stStarts + 1 /\ stAt' = 1 /\ stAttempt' = 1
    /\ stOld' \in BOOLEAN
    /\ UNCHANGED <<stPatched, stRows>>

-----------------------------------------------------------------------------
(* Requests: they fail while the columns of their table are missing *)

Write(row, patch) ==
    /\ patch \in stPatched
    /\ stChosen' = stChosen \cup {row}
    /\ UNCHANGED <<stAt, stAttempt, stOld, stStarts, stPatched>>

\* An administrator's schedule is accepted at once, a member's waits for one.
CreateSchedule(byAdmin) ==
    /\ stSchedule = NoSchedule
    /\ stSchedule' = [status |-> IF byAdmin THEN "ACCEPTED" ELSE "PENDING", active |-> byAdmin]
    /\ Write("schedule", "broad") /\ UNCHANGED <<stKey, stHub>>

DecideSchedule(from, to) ==
    /\ stSchedule # NoSchedule /\ stSchedule.status = from
    /\ stSchedule' = [status |-> to, active |-> to = "ACCEPTED"]
    /\ Write("schedule", "broad") /\ UNCHANGED <<stKey, stHub>>

AcceptSchedule == DecideSchedule("PENDING", "ACCEPTED")
RejectSchedule == DecideSchedule("PENDING", "REJECTED")
RevokeSchedule == DecideSchedule("ACCEPTED", "REVOKED")

\* A member keeps an enabled private key on its list of zones, or takes it off.
SelectKey(selected) ==
    /\ stKey.enabled /\ stKey' = [stKey EXCEPT !.selected = selected]
    /\ Write("key", "keys") /\ UNCHANGED <<stSchedule, stHub>>

\* The owner of a hub edits its webhook and its zones.
EditHub(webhook, zones) ==
    /\ stHub' = [stHub EXCEPT !.webhook = webhook, !.zones = zones]
    /\ Write("hub", "devices") /\ UNCHANGED <<stSchedule, stKey>>

StThread == Succeed \/ FailAgain \/ FailSkipped

StNext ==
    \/ Succeed \/ FailAgain \/ FailSkipped \/ OldExits \/ Restart
    \/ \E byAdmin \in BOOLEAN : CreateSchedule(byAdmin)
    \/ AcceptSchedule \/ RejectSchedule \/ RevokeSchedule
    \/ \E selected \in BOOLEAN : SelectKey(selected)
    \/ \E webhook, zones \in BOOLEAN : EditHub(webhook, zones)

StSpec == StInit /\ [][StNext]_stVars

\* The thread runs, a lock that is not held is granted, and the platform stops the previous container.
StFairness == WF_stVars(StThread) /\ WF_stVars(OldExits)
StLiveSpec == StSpec /\ StFairness

-----------------------------------------------------------------------------
(* Properties *)

\* A start decides no schedule: what members asked for waits for an administrator, and what
\* was rejected or revoked stays so.
StartSparesSchedules ==
    [][(stAt' # stAt /\ "schedule" \in stChosen) => stSchedule' = stSchedule]_stVars

\* A bootstrap that is at init_db when the previous container has left applies every patch,
\* the ones whose failure it only logs included.
QuietStartPatches ==
    (stAt = InitDb /\ ~stOld /\ stStarts = MaxStarts) ~> (stPatched = Patches)
=============================================================================
