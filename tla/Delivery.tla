------------------------------ MODULE Delivery ------------------------------
(* What happens after an alarm is committed: the hubs of its recipients are called
   one after the other, then their phones are pushed to, and an alarm of the highest
   priority is pushed again while a push fails (_finalize_geo_propagation,
   smart_home_webhook_service.py, push_notification_service.py).  Every call to a
   hub or a push service is an await, in which phones are registered, hubs edited
   and the server restarted.  Commands to a hub (hub_command_service.py) run on
   threads and are recorded once the hub has answered. *)
EXTENDS Naturals, Sequences, FiniteSets

CONSTANTS
    DlOwners,       \* active owners
    DlSender,       \* the owner who raises the alarm
    OwnerNet,       \* owner -> network
    Phones,         \* push tokens, which are unique
    Platform,       \* phone -> "EXPO", "FCM" or "APNS"
    Skipped,        \* platforms without credentials: FCM_SERVER_KEY, APNS_AUTH_KEY
    DlHubs,         \* hardware ids of hubs
    HubOwner,       \* hub -> owner
    DlZones,        \* zone records
    ZoneNetwork,    \* zone record -> network
    MaxTries,       \* PANIC_PUSH_RETRY_MAX_ATTEMPTS, unless it turns the retries off
    Workers,        \* threads that serve hub commands
    MaxLedger,      \* bound: hub_commands rows
    MaxMoves,       \* bound: registrations and hub edits
    Vacant          \* no owner, no hub

ASSUME DeliveryConstantsOK ==
    /\ MaxTries \in Nat \ {0} /\ MaxLedger \in Nat /\ MaxMoves \in Nat
    /\ Vacant \notin DlOwners /\ Vacant \notin DlHubs /\ Skipped \subseteq {"FCM", "APNS"}

VARIABLES
    phone,          \* push_tokens: phone -> owner
    hub,            \* devices: hub -> linked zones and webhook
    alarm,          \* the zone_message_events row
    stage,          \* how far its delivery is
    calls,          \* hubs still to be called, with the address read for them
    read,           \* history: phones the last attempt has read
    batch,          \* those it has not come to
    outcome,        \* those counted as sent, as failed, and not at all
    tries,          \* attempts of the retry loop
    mode,           \* hub -> the last command it carried out
    job,            \* worker -> the command it has running
    ledger,         \* hub_commands, oldest first
    moves           \* history: registrations and edits

dlRows == <<phone, hub, moves>>
dlPush == <<read, batch, outcome, tries>>
dlCommands == <<mode, job, ledger>>
dlVars == <<dlRows, alarm, stage, calls, dlPush, dlCommands>>

AlarmKinds == {"PANIC", "SENSOR", "UNKNOWN", "PERMISSION"}
Commands == {"arm", "disarm"}
Addresses == {"none", "good", "broken"}
NoAlarm == [kind |-> "none", to |-> {}, zones |-> {}]
NoJob == [hub |-> Vacant, command |-> "none", status |-> "none"]
NoOutcome == [sent |-> {}, failed |-> {}, uncounted |-> {}]
Resting == {"idle", "done", "delivered", "exhausted", "failed", "aborted", "lost"}

-----------------------------------------------------------------------------
(* Whom an alarm is for *)

\* type_priority is MAX: only these are pushed again.
Urgent == alarm.kind = "PANIC"

\* is_pushable_geo_type; an arrival notice goes to hubs alone (require_pushable=False).
Pushable == alarm.kind # "PERMISSION"

\* message_related_network_ids
Networks == {OwnerNet[DlSender]} \cup {ZoneNetwork[z] : z \in alarm.zones}

\* owner_should_receive_webhook, for the recipients and, of an alarm, the sender.
HubOwners ==
    {o \in alarm.to \cup (IF Pushable THEN {DlSender} ELSE {}) :
        o \in alarm.to \/ alarm.to = {} \/ OwnerNet[o] \in Networks}

\* device_matches_message_zones
Matches(h) ==
    IF alarm.zones = {}
    THEN \E z \in hub[h].zones : ZoneNetwork[z] \in Networks
    ELSE hub[h].zones \cap alarm.zones # {}

\* send_smart_home_webhooks: whom it will call, and where.
Targets == {[hub |-> h, url |-> hub[h].url] :
               h \in {g \in DlHubs : HubOwner[g] \in HubOwners /\ hub[g].url # "none" /\ Matches(g)}}

\* The active tokens of the recipients.
Reachable == {t \in Phones : phone[t] \in alarm.to}

-----------------------------------------------------------------------------
DlInit ==
    /\ phone \in [Phones -> DlOwners \cup {Vacant}]
    /\ hub = [h \in DlHubs |-> [zones |-> DlZones, url |-> "good"]]
    /\ alarm = NoAlarm /\ stage = "idle" /\ calls = {}
    /\ read = {} /\ batch = {} /\ outcome = NoOutcome /\ tries = 0
    /\ mode = [h \in DlHubs |-> "disarm"]
    /\ job = [w \in Workers |-> NoJob] /\ ledger = <<>>
    /\ moves = 0

-----------------------------------------------------------------------------
(* Delivery of the alarm *)

\* The message is committed; the handler awaits the WebSocket broadcast.
Raise(kind, to, zones) ==
    /\ stage = "idle"
    /\ (zones = {}) = (kind \in {"UNKNOWN", "PERMISSION"})
    /\ alarm' = [kind |-> kind, to |-> to, zones |-> zones]
    /\ stage' = "stored"
    /\ UNCHANGED <<dlRows, calls, dlPush, dlCommands>>

SelectHubs ==
    /\ stage = "stored"
    /\ calls' = Targets
    /\ stage' = "calling"
    /\ UNCHANGED <<dlRows, alarm, dlPush, dlCommands>>

\* A hub that fails or is silent is only counted (httpx.HTTPError); an address httpx
\* cannot parse raises InvalidURL, which is none and leaves _finalize_geo_propagation.
PostHub(c) ==
    /\ stage = "calling" /\ c \in calls
    /\ calls' = IF c.url = "broken" THEN {} ELSE calls \ {c}
    /\ stage' = IF c.url = "broken" THEN "failed" ELSE stage
    /\ UNCHANGED <<dlRows, alarm, dlPush, dlCommands>>

NoticeDone ==
    /\ stage = "calling" /\ calls = {} /\ ~Pushable
    /\ stage' = "done"
    /\ UNCHANGED <<dlRows, alarm, calls, dlPush, dlCommands>>

\* send_alarm_push_to_owners reads the tokens, at first and again in every retry.
ReadPhones ==
    /\ \/ stage = "calling" /\ calls = {} /\ Pushable
          /\ stage' = "pushing" /\ tries' = tries
       \/ stage = "waiting"
          /\ stage' = "retrying" /\ tries' = tries + 1
    /\ read' = Reachable /\ batch' = Reachable
    /\ outcome' = NoOutcome
    /\ UNCHANGED <<dlRows, alarm, calls, dlCommands>>

\* _dispatch_to_tokens, one platform: a call that fails counts all its phones as
\* failed.  An answer is counted as it comes: Expo's tickets are paired with the
\* phones from the first on, FCM's two numbers are 0 when they are missing, so that
\* phones may be counted as neither.  Without credentials nobody is called or
\* counted, and there is no sender for APNS even with them.
PushBatch(p, reached, silent) ==
    LET mine == {t \in batch : Platform[t] = p}
    IN  /\ stage \in {"pushing", "retrying"} /\ mine # {}
        /\ reached \cup silent \subseteq (IF p \in Skipped \cup {"APNS"} THEN {} ELSE mine)
        /\ reached \cap silent = {}
        /\ batch' = batch \ mine
        /\ outcome' = [sent |-> outcome.sent \cup reached,
                       failed |-> outcome.failed \cup (IF p \in Skipped THEN {} ELSE mine \ (reached \cup silent)),
                       uncounted |-> outcome.uncounted \cup silent]
        /\ UNCHANGED <<dlRows, alarm, stage, calls, read, tries, dlCommands>>

\* An answer that is no JSON object raises what is no httpx.HTTPError: the request
\* ends there, a retry is given up and the loop goes on to the next.
PushBreaks(p) ==
    /\ stage \in {"pushing", "retrying"} /\ p \notin Skipped \cup {"APNS"}
    /\ \E t \in batch : Platform[t] = p
    /\ batch' = {}
    /\ stage' = IF stage = "pushing" THEN "aborted" ELSE IF tries = MaxTries THEN "exhausted" ELSE "waiting"
    /\ UNCHANGED <<dlRows, alarm, calls, read, outcome, tries, dlCommands>>

\* schedule_panic_retries_if_needed: after a failure, or when nobody had a phone.
FinishFirst ==
    /\ stage = "pushing" /\ batch = {}
    /\ stage' = IF ~Urgent \/ alarm.to = {} THEN "done"
                ELSE IF outcome.failed # {} \/ read = {} THEN "waiting"
                ELSE "delivered"
    /\ UNCHANGED <<dlRows, alarm, calls, dlPush, dlCommands>>

AfterRetry(delivered) ==
    /\ stage = "retrying" /\ batch = {}
    /\ stage' = IF delivered THEN "delivered" ELSE IF tries = MaxTries THEN "exhausted" ELSE "waiting"
    /\ UNCHANGED <<dlRows, alarm, calls, dlPush, dlCommands>>

\* Mutant of FinishRetry: one phone reached is enough.
FinishWhenOneReached == AfterRetry(outcome.sent # {})

\* _retry_delivery_loop: every phone is pushed to again, and none may be counted as failed.
FinishRetry == AfterRetry(outcome.failed = {} /\ outcome.sent # {})

\* What is in memory goes with the process: the request, the loop, the commands.
DeliveryRestart ==
    /\ stage' = IF stage \in Resting THEN stage ELSE "lost"
    /\ calls' = {} /\ batch' = {}
    /\ job' = [w \in Workers |-> NoJob]
    /\ UNCHANGED <<dlRows, alarm, read, outcome, tries, mode, ledger>>

-----------------------------------------------------------------------------
(* Rows that change meanwhile *)

CountMove == moves < MaxMoves /\ moves' = moves + 1

\* upsert_push_token: a phone has one owner, the one who registered it last.
RegisterPhone(o, t) ==
    /\ CountMove
    /\ phone' = [phone EXCEPT ![t] = o]
    /\ UNCHANGED <<hub, alarm, stage, calls, dlPush, dlCommands>>

\* A hub is edited (UpdateDevice of Devices): is_valid_webhook_url asks for a scheme
\* and a host, and lets through addresses nobody can call.
EditHub(h, zones, url) ==
    /\ CountMove
    /\ hub' = [hub EXCEPT ![h] = [zones |-> zones, url |-> url]]
    /\ UNCHANGED <<phone, alarm, stage, calls, dlPush, dlCommands>>

-----------------------------------------------------------------------------
(* Hub commands *)

\* What the caller learns: a hub that carried the command out may still not answer
\* in time, or answer with an error; without a webhook it is not called.
Answers(h, runs) ==
    IF hub[h].url = "none" THEN {"failed"}
    ELSE {"failed", "no_reply"} \cup (IF runs THEN {"sent"} ELSE {})

\* send_hub_command up to the answer.  A broken address ends in an error 500.
Command(w, h, c, runs, status) ==
    /\ job[w] = NoJob /\ hub[h].url # "broken"
    /\ runs => hub[h].url = "good"
    /\ status \in Answers(h, runs)
    /\ mode' = IF runs THEN [mode EXCEPT ![h] = c] ELSE mode
    /\ job' = [job EXCEPT ![w] = [hub |-> h, command |-> c, status |-> status]]
    /\ UNCHANGED <<dlRows, alarm, stage, calls, dlPush, ledger>>

\* send_hub_command after it: the row is written when the answer is there.
RecordCommand(w) ==
    /\ job[w] # NoJob /\ Len(ledger) < MaxLedger
    /\ ledger' = Append(ledger, job[w])
    /\ job' = [job EXCEPT ![w] = NoJob]
    /\ UNCHANGED <<dlRows, alarm, stage, calls, dlPush, mode>>

-----------------------------------------------------------------------------
AlarmStep ==
    \/ \E kind \in AlarmKinds, to \in SUBSET (DlOwners \ {DlSender}), zones \in SUBSET DlZones :
           Raise(kind, to, zones)
    \/ SelectHubs
    \/ \E c \in calls : PostHub(c)
    \/ NoticeDone
    \/ ReadPhones
    \/ \E p \in {"EXPO", "FCM", "APNS"} :
        \/ \E reached, silent \in SUBSET batch : PushBatch(p, reached, silent)
        \/ PushBreaks(p)
    \/ FinishFirst
    \/ FinishRetry
    \/ \E o \in DlOwners, t \in Phones : RegisterPhone(o, t)

CommandStep ==
    \/ \E w \in Workers, h \in DlHubs, c \in Commands, runs \in BOOLEAN :
           \E status \in {"sent", "failed", "no_reply"} : Command(w, h, c, runs, status)
    \/ \E w \in Workers : RecordCommand(w)

HubStep == \E h \in DlHubs, zones \in SUBSET DlZones, url \in Addresses : EditHub(h, zones, url)

DlNext == AlarmStep \/ CommandStep \/ HubStep \/ DeliveryRestart

DlSpec == DlInit /\ [][DlNext]_dlVars

-----------------------------------------------------------------------------
(* Properties *)

\* Types; a push is under way only for an alarm that is pushed.
DlTypeOK ==
    /\ phone \in [Phones -> DlOwners \cup {Vacant}]
    /\ hub \in [DlHubs -> [zones : SUBSET DlZones, url : Addresses]]
    /\ alarm \in [kind : AlarmKinds \cup {"none"}, to : SUBSET DlOwners, zones : SUBSET DlZones]
    /\ stage \in Resting \cup {"stored", "calling", "pushing", "waiting", "retrying"}
    /\ batch \subseteq read
    /\ outcome.sent \cup outcome.failed \cup outcome.uncounted \subseteq read \ batch
    /\ outcome.sent \cap outcome.failed = {}
    /\ outcome.uncounted \cap (outcome.sent \cup outcome.failed) = {}
    /\ tries \in 0..MaxTries /\ (tries > 0 => Urgent)
    /\ calls # {} => stage = "calling"

\* Retries stop early only for a reason: when an alarm of the highest priority counts
\* as delivered, no phone the last attempt read is left to be called or was counted as
\* failed; apart from phones without credentials, all were reached or left out of the
\* count of an answer.  Those are never pushed again, although the retries are for
\* alarms "that did not fully deliver" (push_notification_service.py:311).
DoneMeansAnswered ==
    stage = "delivered" => \A t \in read :
        Platform[t] \in Skipped \/ t \in outcome.sent \/ t \in outcome.uncounted

\* send_smart_home_webhooks "Never raises": no hub, however configured, keeps an
\* alarm from the phones.
AlarmSurvivesHub == stage # "failed"
=============================================================================
