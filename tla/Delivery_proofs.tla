--------------------------- MODULE Delivery_proofs ---------------------------
(* Proofs about Delivery and Devices, for any owners, phones, hubs, plans and *)
(* limits.                                                                    *)
EXTENDS Delivery, Devices, TLAPS

------------------------------------------------------------------------------
(* Delivery: what is given up as delivered *)

\* Every phone an attempt has read is still to come or was counted or left out of the
\* count, unless the server has no credentials for its platform.
Accounted ==
    stage \in {"pushing", "retrying"} =>
        \A t \in read : \/ t \in batch \/ Platform[t] \in Skipped
                        \/ t \in outcome.sent \/ t \in outcome.failed \/ t \in outcome.uncounted

\* DoneMeansAnswered is not inductive: whether an attempt that ends has called for
\* every phone rests on what became of each batch before.
PushInv == Accounted /\ DoneMeansAnswered

------------------------------------------------------------------------------
\* An attempt begins: everything it reads is still to come.
LEMMA ReadInv ==
  ASSUME PushInv, ReadPhones
  PROVE  PushInv'
BY DEF ReadPhones, PushInv, Accounted, DoneMeansAnswered

\* One platform is done: its phones were reached, failed, not counted, or are skipped.
LEMMA BatchInv ==
  ASSUME PushInv, NEW p, NEW reached, NEW silent, PushBatch(p, reached, silent)
  PROVE  PushInv'
<1> DEFINE mine == {t \in batch : Platform[t] = p}
<1>1. /\ stage \in {"pushing", "retrying"} /\ stage' = stage /\ read' = read
      /\ batch' = batch \ mine
      /\ outcome'.sent = outcome.sent \cup reached
      /\ outcome'.failed = outcome.failed \cup (IF p \in Skipped THEN {} ELSE mine \ (reached \cup silent))
      /\ outcome'.uncounted = outcome.uncounted \cup silent
  BY DEF PushBatch
<1>2. \A t \in mine : Platform[t] = p
  OBVIOUS
<1> HIDE DEF mine
<1>3. ASSUME NEW t \in read
      PROVE  \/ t \in batch' \/ Platform[t] \in Skipped
             \/ t \in outcome'.sent \/ t \in outcome'.failed \/ t \in outcome'.uncounted
  <2>1. \/ t \in batch \/ Platform[t] \in Skipped
        \/ t \in outcome.sent \/ t \in outcome.failed \/ t \in outcome.uncounted
    BY <1>1 DEF PushInv, Accounted
  <2> QED
    BY <1>1, <1>2, <2>1
<1> QED
  BY <1>1, <1>3 DEF PushInv, Accounted, DoneMeansAnswered

\* An answer nobody can read ends the attempt, and it is not given up as delivered.
LEMMA BreaksInv ==
  ASSUME PushInv, NEW p, PushBreaks(p)
  PROVE  PushInv'
BY DEF PushBreaks, PushInv, Accounted, DoneMeansAnswered

\* An attempt ends: given up as delivered only when nothing failed.
LEMMA FinishInv ==
  ASSUME PushInv, FinishFirst \/ FinishRetry
  PROVE  PushInv'
<1>1. /\ stage \in {"pushing", "retrying"} /\ batch = {}
      /\ stage' \notin {"pushing", "retrying"}
      /\ stage' = "delivered" => outcome.failed = {}
      /\ UNCHANGED <<read, batch, outcome>>
  BY DEF FinishFirst, FinishRetry, AfterRetry, dlPush
<1>2. \A t \in read : \/ Platform[t] \in Skipped
                      \/ t \in outcome.sent \/ t \in outcome.failed \/ t \in outcome.uncounted
  BY <1>1 DEF PushInv, Accounted
<1> QED
  BY <1>1, <1>2 DEF PushInv, Accounted, DoneMeansAnswered

\* Every other step of the alarm is before the pushes or beside them.
LEMMA BesideInv ==
  ASSUME PushInv,
         UNCHANGED <<read, batch, outcome>>,
         stage' = stage \/ stage' \in {"stored", "calling", "failed", "done"}
  PROVE  PushInv'
BY DEF PushInv, Accounted, DoneMeansAnswered

\* A restart keeps the outcome of what was finished and forgets the rest.
LEMMA RestartInv ==
  ASSUME PushInv, DeliveryRestart
  PROVE  PushInv'
BY DEF DeliveryRestart, Resting, PushInv, Accounted, DoneMeansAnswered

LEMMA AlarmInv ==
  ASSUME PushInv, AlarmStep
  PROVE  PushInv'
<1>1. CASE \E kind \in AlarmKinds, to \in SUBSET (DlOwners \ {DlSender}), zones \in SUBSET DlZones :
               Raise(kind, to, zones)
  BY <1>1, BesideInv DEF Raise, dlPush
<1>2. CASE SelectHubs
  BY <1>2, BesideInv DEF SelectHubs, dlPush
<1>3. CASE \E c \in calls : PostHub(c)
  BY <1>3, BesideInv DEF PostHub, dlPush
<1>4. CASE NoticeDone
  BY <1>4, BesideInv DEF NoticeDone, dlPush
<1>5. CASE ReadPhones
  BY <1>5, ReadInv
<1>6. CASE \E p \in {"EXPO", "FCM", "APNS"} :
               (\E reached, silent \in SUBSET batch : PushBatch(p, reached, silent)) \/ PushBreaks(p)
  BY <1>6, BatchInv, BreaksInv
<1>7. CASE FinishFirst \/ FinishRetry
  BY <1>7, FinishInv
<1>8. CASE \E o \in DlOwners, t \in Phones : RegisterPhone(o, t)
  BY <1>8, BesideInv DEF RegisterPhone, dlPush
<1> QED
  BY <1>1, <1>2, <1>3, <1>4, <1>5, <1>6, <1>7, <1>8 DEF AlarmStep

LEMMA DlNextInv ==
  ASSUME PushInv, [DlNext]_dlVars
  PROVE  PushInv'
<1>1. CASE CommandStep
  BY <1>1, BesideInv DEF CommandStep, Command, RecordCommand, dlPush
<1>2. CASE HubStep
  BY <1>2, BesideInv DEF HubStep, EditHub, dlPush
<1>3. CASE UNCHANGED dlVars
  BY <1>3, BesideInv DEF dlVars, dlPush
<1> QED
  BY <1>1, <1>2, <1>3, AlarmInv, RestartInv DEF DlNext

------------------------------------------------------------------------------
\* An alarm of the highest priority is given up as delivered only when the last
\* attempt called for every phone it read and counted none as failed
\* (_retry_delivery_loop), whatever phones are registered, hubs edited and restarts
\* happen meanwhile.  What an answer leaves out of its count is the one exception.
THEOREM DeliveredIsAnswered == DlSpec => []DoneMeansAnswered
<1>1. DlInit => PushInv
  BY DEF DlInit, PushInv, Accounted, DoneMeansAnswered
<1>2. PushInv /\ [DlNext]_dlVars => PushInv'
  BY DlNextInv
<1>3. PushInv => DoneMeansAnswered
  BY DEF PushInv
<1> QED
  BY <1>1, <1>2, <1>3, PTL DEF DlSpec

------------------------------------------------------------------------------
(* Delivery: types *)

\* A retry is for an alarm of the highest priority, and one is left while it waits.
TriesFit ==
    /\ stage \in {"idle", "stored", "calling", "pushing"} => tries = 0
    /\ stage \in {"waiting", "retrying"} => Urgent
    /\ stage = "waiting" => tries < MaxTries

Outcomes == [sent : SUBSET Phones, failed : SUBSET Phones, uncounted : SUBSET Phones]

DlInv ==
    /\ DlTypeOK
    /\ read \subseteq Phones /\ outcome \in Outcomes
    /\ TriesFit

\* What moves neither the pushes nor the alarm.
LEMMA DlAsideInv ==
  ASSUME DlInv, UNCHANGED <<alarm, dlPush>>,
         phone' \in [Phones -> DlOwners \cup {Vacant}],
         hub' \in [DlHubs -> [zones : SUBSET DlZones, url : Addresses]],
         \/ stage' = stage
         \/ stage' \in {"calling", "failed", "done"} /\ stage \in {"stored", "calling"},
         calls' # {} => stage' = "calling"
  PROVE  DlInv'
<1>1. UNCHANGED <<alarm, read, batch, outcome, tries>>
  BY DEF dlPush
<1>2. TriesFit'
  BY <1>1 DEF DlInv, TriesFit, Urgent
<1>3. DlTypeOK'
  BY <1>1 DEF DlInv, DlTypeOK, Urgent, Resting
<1> QED
  BY <1>1, <1>2, <1>3 DEF DlInv

LEMMA RaiseTyped ==
  ASSUME DlInv, NEW kind \in AlarmKinds, NEW to \in SUBSET (DlOwners \ {DlSender}),
         NEW zones \in SUBSET DlZones, Raise(kind, to, zones)
  PROVE  DlInv'
<1>1. alarm' \in [kind : AlarmKinds \cup {"none"}, to : SUBSET DlOwners, zones : SUBSET DlZones]
  BY DEF Raise
<1>2. /\ stage = "idle" /\ stage' = "stored"
      /\ UNCHANGED <<phone, hub, calls, read, batch, outcome, tries>>
  BY DEF Raise, dlRows, dlPush
<1>3. tries' = 0
  BY <1>2 DEF DlInv, TriesFit
<1> QED
  BY <1>1, <1>2, <1>3 DEF DlInv, DlTypeOK, TriesFit, Resting

LEMMA ReadTyped ==
  ASSUME DlInv, ReadPhones
  PROVE  DlInv'
<1> USE DeliveryConstantsOK
<1>1. /\ read' = Reachable /\ batch' = Reachable /\ outcome' = NoOutcome
      /\ UNCHANGED <<phone, hub, alarm, calls>>
      /\ \/ stage = "calling" /\ calls = {} /\ stage' = "pushing" /\ tries' = tries
         \/ stage = "waiting" /\ stage' = "retrying" /\ tries' = tries + 1
  BY DEF ReadPhones, dlRows
<1>2. NoOutcome \in Outcomes /\ NoOutcome.sent = {} /\ NoOutcome.failed = {} /\ NoOutcome.uncounted = {}
  BY DEF NoOutcome, Outcomes
<1>3. tries' \in 0..MaxTries /\ (tries' > 0 => Urgent') /\ Reachable \subseteq Phones
  BY <1>1 DEF DlInv, DlTypeOK, TriesFit, Urgent, Reachable
<1>4. calls' = {}
  BY <1>1 DEF DlInv, DlTypeOK
<1>5. TriesFit'
  BY <1>1 DEF DlInv, TriesFit, Urgent
<1> QED
  BY <1>1, <1>2, <1>3, <1>4, <1>5 DEF DlInv, DlTypeOK

LEMMA BatchTyped ==
  ASSUME DlInv, NEW p, NEW reached, NEW silent, PushBatch(p, reached, silent)
  PROVE  DlInv'
<1> DEFINE mine == {t \in batch : Platform[t] = p}
<1> DEFINE lost == IF p \in Skipped THEN {} ELSE mine \ (reached \cup silent)
<1> DEFINE next == [sent |-> outcome.sent \cup reached, failed |-> outcome.failed \cup lost,
                    uncounted |-> outcome.uncounted \cup silent]
<1>1. /\ reached \subseteq mine /\ silent \subseteq mine /\ reached \cap silent = {}
      /\ batch' = batch \ mine /\ outcome' = next
      /\ UNCHANGED <<phone, hub, alarm, stage, calls, read, tries>>
  BY DEF PushBatch, dlRows
<1>2. mine \subseteq batch /\ lost \subseteq mine \ (reached \cup silent) /\ batch \subseteq read
  BY DEF DlInv, DlTypeOK
<1>3. /\ outcome.sent \in SUBSET Phones /\ outcome.failed \in SUBSET Phones
      /\ outcome.uncounted \in SUBSET Phones
      /\ outcome.sent \cup outcome.failed \cup outcome.uncounted \subseteq read \ batch
      /\ outcome.sent \cap outcome.failed = {}
      /\ outcome.uncounted \cap (outcome.sent \cup outcome.failed) = {}
      /\ stage \in {"pushing", "retrying"}
  BY DEF DlInv, DlTypeOK, PushBatch, Outcomes
<1> HIDE DEF mine, lost
<1>4. /\ next.sent = outcome.sent \cup reached /\ next.failed = outcome.failed \cup lost
      /\ next.uncounted = outcome.uncounted \cup silent
  OBVIOUS
<1>5. next \in Outcomes
  BY <1>1, <1>2, <1>3 DEF DlInv, Outcomes
<1> HIDE DEF next
<1>6. /\ batch' \subseteq read'
      /\ outcome'.sent \cup outcome'.failed \cup outcome'.uncounted \subseteq read' \ batch'
      /\ outcome'.sent \cap outcome'.failed = {}
      /\ outcome'.uncounted \cap (outcome'.sent \cup outcome'.failed) = {}
  BY <1>1, <1>2, <1>3, <1>4
<1>7. TriesFit'
  BY <1>1 DEF DlInv, TriesFit, Urgent
<1> QED
  BY <1>1, <1>2, <1>3, <1>5, <1>6, <1>7 DEF DlInv, DlTypeOK, Urgent

LEMMA BreaksTyped ==
  ASSUME DlInv, NEW p, PushBreaks(p)
  PROVE  DlInv'
<1>1. /\ UNCHANGED <<phone, hub, alarm, calls, read, outcome, tries>> /\ batch' = {}
      /\ stage \in {"pushing", "retrying"}
      /\ stage' \in {"aborted", "exhausted", "waiting"}
      /\ stage' = "waiting" => stage = "retrying" /\ tries # MaxTries
  BY DEF PushBreaks, dlRows
<1>2. stage' = "waiting" => Urgent /\ tries < MaxTries
  BY <1>1, DeliveryConstantsOK DEF DlInv, DlTypeOK, TriesFit
<1>3. calls = {}
  BY <1>1 DEF DlInv, DlTypeOK
<1>4. TriesFit'
  BY <1>1, <1>2 DEF TriesFit, Urgent
<1> QED
  BY <1>1, <1>2, <1>3, <1>4 DEF DlInv, DlTypeOK, Urgent, Resting

LEMMA FinishTyped ==
  ASSUME DlInv, FinishFirst \/ FinishRetry
  PROVE  DlInv'
<1>1. UNCHANGED <<phone, hub, alarm, calls, read, batch, outcome, tries>> /\ batch = {}
  BY DEF FinishFirst, FinishRetry, AfterRetry, dlRows, dlPush
<1>2. /\ stage \in {"pushing", "retrying"}
      /\ stage' \in {"done", "delivered", "exhausted", "waiting"}
      /\ stage' = "waiting" => Urgent /\ tries < MaxTries
  <2>1. CASE FinishFirst
    BY <2>1, DeliveryConstantsOK DEF FinishFirst, DlInv, TriesFit
  <2>2. CASE FinishRetry
    BY <2>2, DeliveryConstantsOK DEF FinishRetry, AfterRetry, DlInv, DlTypeOK, TriesFit
  <2> QED
    BY <2>1, <2>2
<1>3. calls = {}
  BY <1>2 DEF DlInv, DlTypeOK
<1>4. TriesFit'
  BY <1>1, <1>2 DEF TriesFit, Urgent
<1> QED
  BY <1>1, <1>2, <1>3, <1>4 DEF DlInv, DlTypeOK, Urgent, Resting

LEMMA RestartTyped ==
  ASSUME DlInv, DeliveryRestart
  PROVE  DlInv'
<1>1. /\ stage' \in Resting /\ (stage' = stage \/ stage' = "lost")
      /\ calls' = {} /\ batch' = {} /\ UNCHANGED <<phone, hub, alarm, read, outcome, tries>>
  BY DEF DeliveryRestart, dlRows, Resting
<1>2. TriesFit'
  BY <1>1 DEF DlInv, TriesFit, Urgent, Resting
<1> QED
  BY <1>1, <1>2 DEF DlInv, DlTypeOK, Urgent

LEMMA DlNextTyped ==
  ASSUME DlInv, [DlNext]_dlVars
  PROVE  DlInv'
<1>0. /\ phone \in [Phones -> DlOwners \cup {Vacant}]
      /\ hub \in [DlHubs -> [zones : SUBSET DlZones, url : Addresses]]
      /\ calls # {} => stage = "calling"
  BY DEF DlInv, DlTypeOK
<1>1. ASSUME SelectHubs \/ NoticeDone \/ \E c \in calls : PostHub(c)
      PROVE  DlInv'
  <2>1. UNCHANGED <<phone, hub, alarm, dlPush>>
    BY <1>1 DEF SelectHubs, NoticeDone, PostHub, dlRows
  <2>2. /\ stage' = stage \/ (stage' \in {"calling", "failed", "done"} /\ stage \in {"stored", "calling"})
        /\ calls' # {} => stage' = "calling"
    BY <1>1 DEF SelectHubs, NoticeDone, PostHub
  <2> QED
    BY <1>0, <2>1, <2>2, DlAsideInv
<1>2. ASSUME NEW o \in DlOwners, NEW t \in Phones, RegisterPhone(o, t)
      PROVE  DlInv'
  BY <1>0, <1>2, DlAsideInv DEF RegisterPhone
<1>3. CASE CommandStep
  <2>1. UNCHANGED <<phone, hub, alarm, stage, calls, dlPush>>
    BY <1>3 DEF CommandStep, Command, RecordCommand, dlRows
  <2> QED
    BY <1>0, <2>1, DlAsideInv
<1>4. CASE HubStep
  <2>1. /\ UNCHANGED <<phone, alarm, stage, calls, dlPush>>
        /\ hub' \in [DlHubs -> [zones : SUBSET DlZones, url : Addresses]]
    BY <1>0, <1>4 DEF HubStep, EditHub
  <2> QED
    BY <1>0, <2>1, DlAsideInv
<1>5. CASE UNCHANGED dlVars
  BY <1>0, <1>5, DlAsideInv DEF dlVars, dlRows
<1>6. CASE AlarmStep
  BY <1>1, <1>2, <1>6, RaiseTyped, ReadTyped, BatchTyped, BreaksTyped, FinishTyped DEF AlarmStep
<1> QED
  BY <1>3, <1>4, <1>5, <1>6, RestartTyped DEF DlNext

\* The stages of an alarm keep to the retry limit: retries are for the highest
\* priority alone, and what a batch has tried was read for it (_dispatch_to_tokens,
\* schedule_panic_retries_if_needed).
THEOREM DeliveryTypesHold == DlSpec => []DlTypeOK
<1>1. DlInit => DlInv
  <2> SUFFICES ASSUME DlInit PROVE DlInv
    OBVIOUS
  <2>1. alarm \in [kind : AlarmKinds \cup {"none"}, to : SUBSET DlOwners, zones : SUBSET DlZones]
    BY DEF DlInit, NoAlarm
  <2>2. outcome.sent = {} /\ outcome.failed = {} /\ outcome.uncounted = {}
        /\ outcome \in Outcomes
    BY DEF DlInit, NoOutcome, Outcomes
  <2>3. hub \in [DlHubs -> [zones : SUBSET DlZones, url : Addresses]]
    BY DEF DlInit, Addresses
  <2> QED
    BY <2>1, <2>2, <2>3, DeliveryConstantsOK DEF DlInit, DlInv, DlTypeOK, TriesFit, Resting
<1>2. DlInv /\ [DlNext]_dlVars => DlInv'
  BY DlNextTyped
<1>3. DlInv => DlTypeOK
  BY DEF DlInv
<1> QED
  BY <1>1, <1>2, <1>3, PTL DEF DlSpec

------------------------------------------------------------------------------
(* Devices *)

\* A login session has no webhook; a hub has one, and its sessions do not age.
DvRow(d, row) ==
    /\ row \in Devices
    /\ d \in Logins => row.url = NoUrl
    /\ d \in HubIds => row.url # NoUrl /\ row.fresh

DvInv ==
    /\ DvTypeOK
    /\ device \in [Hids -> Devices \cup {NoDevice}]

LEMMA DvRows ==
  ASSUME DvInv, NEW d \in Hids, Enrolled(d)
  PROVE  DvRow(d, device[d])
BY DEF DvInv, DvTypeOK, DvRow, Hids, Enrolled

\* Rows that are each absent or well formed are a table.
LEMMA DvRowsInv ==
  ASSUME NEW table, device' = table,
         table = [d \in Hids |-> table[d]],
         \A d \in Hids : table[d] = NoDevice \/ DvRow(d, table[d]),
         plan' \in [DvOwners -> 0..MaxPlan], sockets' \in [DvOwners -> 0..MaxSockets]
  PROVE  DvInv'
<1>1. device' \in [Hids -> Devices \cup {NoDevice}]
  BY DEF DvRow
<1> QED
  BY <1>1 DEF DvRow, DvInv, DvTypeOK, Enrolled, Hids

\* An expiry and the news of a socket rewrite the flags of sessions alone.
LEMMA ExpiredRows ==
  ASSUME DvInv, NEW o, NEW online \in BOOLEAN, NEW d \in Hids
  PROVE  /\ SessionsExpired(o)[d] = NoDevice \/ DvRow(d, SessionsExpired(o)[d])
         /\ SetLoginsOnline(o, online)[d] = NoDevice \/ DvRow(d, SetLoginsOnline(o, online)[d])
<1>1. CASE d \in Of(o, Logins)
  <2>1. d \in Logins /\ Enrolled(d)
    BY <1>1 DEF Of
  <2>2. DvRow(d, device[d])
    BY <2>1, DvRows
  <2> DEFINE gone == [device[d] EXCEPT !.online = FALSE]
  <2> DEFINE back == [device[d] EXCEPT !.online = online, !.fresh = @ \/ online]
  <2>3. gone \in Devices /\ gone.url = NoUrl /\ back \in Devices /\ back.url = NoUrl
    BY <2>1, <2>2 DEF DvRow, Devices
  <2>4. d \notin HubIds
    BY <2>1, DevicesConstantsOK
  <2>5. /\ SessionsExpired(o)[d] \in {gone, device[d]}
        /\ SetLoginsOnline(o, online)[d] = back
    BY <1>1 DEF SessionsExpired, SetLoginsOnline
  <2> HIDE DEF gone, back
  <2> QED
    BY <2>2, <2>3, <2>4, <2>5 DEF DvRow
<1>2. CASE d \notin Of(o, Logins)
  <2>1. SessionsExpired(o)[d] = device[d] /\ SetLoginsOnline(o, online)[d] = device[d]
    BY <1>2 DEF SessionsExpired, SetLoginsOnline
  <2> QED
    BY <2>1, DvRows DEF Enrolled
<1> QED
  BY <1>1, <1>2

\* One step of LiveSessionsKeep, whoever takes it.
Sparing == \A d \in Logins : GoesOffline(d) => LastSocketGone(device[d].owner) \/ SignedOff(d)

\* One row is written, or deleted; if it is a live session's that goes offline, by an
\* update of that row.
LEMMA OneRow ==
  ASSUME DvInv, NEW d \in Hids, NEW row, row = NoDevice \/ DvRow(d, row),
         d \in Logins /\ PresenceIsActive(d) /\ row # NoDevice /\ ~row.online => SignedOff(d),
         device' = [device EXCEPT ![d] = row], UNCHANGED <<plan, sockets>>
  PROVE  DvInv' /\ Sparing
<1>1. \A e \in Hids : device'[e] = IF e = d THEN row ELSE device[e]
  BY DEF DvInv
<1>2. \A e \in Hids : device'[e] = NoDevice \/ DvRow(e, device'[e])
  BY <1>1, DvRows DEF Enrolled
<1>3. device' = [e \in Hids |-> device'[e]]
  BY DEF DvInv
<1>4. DvInv'
  <2>1. plan' \in [DvOwners -> 0..MaxPlan] /\ sockets' \in [DvOwners -> 0..MaxSockets]
    BY DEF DvInv, DvTypeOK
  <2> QED
    BY <1>2, <1>3, <2>1, DvRowsInv
<1>5. ASSUME NEW e \in Logins, GoesOffline(e)
      PROVE  SignedOff(e)
  <2>1. e \in Hids /\ PresenceIsActive(e) /\ device[e].online /\ device'[e] # NoDevice /\ ~device'[e].online
    BY <1>5 DEF GoesOffline, PresenceIsActive, Enrolled, Hids
  <2>2. e = d
    BY <1>1, <2>1
  <2> QED
    BY <1>1, <2>1, <2>2
<1> QED
  BY <1>4, <1>5 DEF Sparing

\* Sessions of some owners are expired: those that were seen lately stay online.
LEMMA OthersExpire ==
  ASSUME DvInv, NEW table, device' = table, table = [d \in Hids |-> table[d]],
         \A d \in Hids : table[d] = NoDevice \/ DvRow(d, table[d]),
         \A d \in Hids : Enrolled(d) => table[d] = NoDevice \/ table[d] = device[d]
                                     \/ \E o \in DvOwners : table[d] = SessionsExpired(o)[d],
         UNCHANGED <<plan, sockets>>
  PROVE  DvInv' /\ Sparing
<1>1. DvInv'
  <2>1. plan' \in [DvOwners -> 0..MaxPlan] /\ sockets' \in [DvOwners -> 0..MaxSockets]
    BY DEF DvInv, DvTypeOK
  <2> QED
    BY <2>1, DvRowsInv
<1>2. ASSUME NEW d \in Logins, PresenceIsActive(d), Enrolled(d)'
      PROVE  device'[d].online
  <2>1. d \in Hids /\ Enrolled(d) /\ device[d].online /\ device[d].fresh
    BY <1>2 DEF PresenceIsActive, Hids
  <2>2. \A o \in DvOwners : SessionsExpired(o)[d] = device[d]
    BY <2>1 DEF SessionsExpired
  <2>3. device'[d] = device[d]
    BY <1>2, <2>1, <2>2 DEF Enrolled
  <2> QED
    BY <2>1, <2>3
<1> QED
  BY <1>1, <1>2 DEF Sparing, GoesOffline

LEMMA EnrolledFits ==
  ASSUME DvInv, NEW o \in DvOwners, NEW d \in Hids, ~Enrolled(d), NEW row, DvRow(d, row),
         device' = [SessionsExpired(o) EXCEPT ![d] = row], UNCHANGED <<plan, sockets>>
  PROVE  DvInv' /\ Sparing
<1> DEFINE table == [SessionsExpired(o) EXCEPT ![d] = row]
<1>1. \A e \in Hids : table[e] = IF e = d THEN row ELSE SessionsExpired(o)[e]
  BY DEF SessionsExpired
<1>2. table = [e \in Hids |-> table[e]]
  BY DEF SessionsExpired
<1>3. device' = table
  OBVIOUS
<1> HIDE DEF table
<1>4. \A e \in Hids : SessionsExpired(o)[e] = NoDevice \/ DvRow(e, SessionsExpired(o)[e])
  BY ExpiredRows
<1>5. \A e \in Hids : table[e] = NoDevice \/ DvRow(e, table[e])
  BY <1>1, <1>4
<1>6. \A e \in Hids : Enrolled(e) => table[e] = SessionsExpired(o)[e]
  BY <1>1
<1> QED
  BY <1>2, <1>3, <1>5, <1>6, OthersExpire

LEMMA EnrolInv ==
  ASSUME DvInv, NEW o \in DvOwners, NEW d \in Hids, NEW online \in BOOLEAN, NEW u \in Urls \cup {NoUrl},
         EnrolLogin(o, d, online) \/ EnrolHub(o, d, u, online)
  PROVE  DvInv' /\ Sparing
<1>1. CASE EnrolLogin(o, d, online)
  <2> DEFINE row == [owner |-> o, online |-> online, fresh |-> TRUE, url |-> NoUrl]
  <2>1. row \in Devices /\ row.url = NoUrl
    BY DEF Devices
  <2>2. d \in Logins /\ ~Enrolled(d) /\ UNCHANGED <<plan, sockets>>
        /\ device' = [SessionsExpired(o) EXCEPT ![d] = row]
    BY <1>1 DEF EnrolLogin
  <2> HIDE DEF row
  <2>3. DvRow(d, row)
    BY <2>1, <2>2, DevicesConstantsOK DEF DvRow
  <2> QED
    BY <2>2, <2>3, EnrolledFits
<1>2. CASE EnrolHub(o, d, u, online)
  <2> DEFINE row == [owner |-> o, online |-> online, fresh |-> TRUE, url |-> u]
  <2>1. row \in Devices /\ row.url = u /\ row.fresh
    BY DEF Devices
  <2>2. d \in HubIds /\ u \in Urls /\ ~Enrolled(d) /\ UNCHANGED <<plan, sockets>>
        /\ device' = [SessionsExpired(o) EXCEPT ![d] = row]
    BY <1>2 DEF EnrolHub
  <2> HIDE DEF row
  <2>3. DvRow(d, row)
    BY <2>1, <2>2, DevicesConstantsOK DEF DvRow
  <2> QED
    BY <2>2, <2>3, EnrolledFits
<1> QED
  BY <1>1, <1>2

LEMMA AgainInv ==
  ASSUME DvInv, NEW o \in DvOwners, NEW d \in Hids, NEW online \in BOOLEAN, NEW fresh \in BOOLEAN,
         NEW u \in Urls \cup {NoUrl},
         \/ EnrolAgain(o, d, online, fresh) \/ SwitchAccount(o, d, online, fresh)
         \/ EnrolHubAgain(o, d, u, online) \/ UpdateDevice(o, d, online, u)
  PROVE  DvInv' /\ Sparing
<1>1. DvRow(d, device[d]) /\ device \in [Hids -> Devices \cup {NoDevice}]
  BY DvRows DEF EnrolAgain, SwitchAccount, EnrolHubAgain, UpdateDevice, Of, DvInv
<1>2. Logins \cap HubIds = {} /\ NoUrl \notin Urls
  BY DevicesConstantsOK
<1>3. device[d] \in Devices
  BY <1>1 DEF DvRow
<1>4. CASE EnrolAgain(o, d, online, fresh)
  <2> DEFINE row == [device[d] EXCEPT !.online = online, !.fresh = fresh \/ @]
  <2>1. row \in Devices /\ row.url = device[d].url
    BY <1>3 DEF Devices
  <2>2. d \in Logins /\ device' = [device EXCEPT ![d] = row] /\ UNCHANGED <<plan, sockets>>
    BY <1>1, <1>4 DEF EnrolAgain, Of
  <2> HIDE DEF row
  <2>3. DvRow(d, row)
    BY <1>1, <1>2, <2>1, <2>2 DEF DvRow
  <2>4. ~row.online => SignedOff(d)
    <3>1. row.online = online
      BY <1>3 DEF row, Devices
    <3> QED
      BY <1>4, <3>1 DEF SignedOff
  <2> QED
    BY <2>2, <2>3, <2>4, OneRow
<1>5. CASE SwitchAccount(o, d, online, fresh)
  <2> DEFINE row == [device[d] EXCEPT !.owner = o, !.online = online, !.fresh = fresh \/ @]
  <2>1. row \in Devices /\ row.url = device[d].url
    BY <1>3 DEF Devices
  <2>2. d \in Logins /\ device' = [device EXCEPT ![d] = row] /\ UNCHANGED <<plan, sockets>>
    BY <1>1, <1>5 DEF SwitchAccount
  <2> HIDE DEF row
  <2>3. DvRow(d, row)
    BY <1>1, <1>2, <2>1, <2>2 DEF DvRow
  <2>4. ~PresenceIsActive(d)
    BY <1>5 DEF SwitchAccount
  <2> QED
    BY <2>2, <2>3, <2>4, OneRow
<1>6. CASE EnrolHubAgain(o, d, u, online) \/ UpdateDevice(o, d, online, u)
  <2> DEFINE row == [device[d] EXCEPT !.online = online, !.url = u]
  <2>1. row \in Devices /\ row.url = u /\ row.fresh = device[d].fresh
    BY <1>3 DEF Devices
  <2>2. /\ device' = [device EXCEPT ![d] = row] /\ UNCHANGED <<plan, sockets>>
        /\ IF d \in HubIds THEN u \in Urls ELSE u = NoUrl
        /\ d \in Logins => UpdateDevice(o, d, online, NoUrl)
    BY <1>1, <1>2, <1>6 DEF EnrolHubAgain, UpdateDevice, Of
  <2> HIDE DEF row
  <2>3. DvRow(d, row)
    BY <1>1, <1>2, <2>1, <2>2 DEF DvRow
  <2>4. d \in Logins /\ ~row.online => SignedOff(d)
    <3>1. row.online = online
      BY <1>3 DEF row, Devices
    <3> QED
      BY <2>2, <3>1 DEF SignedOff
  <2> QED
    BY <2>2, <2>3, <2>4, OneRow
<1> QED
  BY <1>4, <1>5, <1>6

LEMMA SignInv ==
  ASSUME DvInv, NEW o \in DvOwners, NEW d \in Hids,
         Heartbeat(o, d) \/ DeleteDevice(o, d) \/ Age(d)
  PROVE  DvInv' /\ Sparing
<1>1. DvRow(d, device[d]) /\ device \in [Hids -> Devices \cup {NoDevice}] /\ device[d] \in Devices
  BY DvRows DEF Heartbeat, DeleteDevice, Age, DvInv, DvRow
<1>2. CASE Heartbeat(o, d)
  <2> DEFINE row == [device[d] EXCEPT !.online = TRUE, !.fresh = TRUE]
  <2>1. row \in Devices /\ row.url = device[d].url /\ row.fresh /\ row.online
    BY <1>1 DEF Devices
  <2>2. device' = [device EXCEPT ![d] = row] /\ UNCHANGED <<plan, sockets>>
    BY <1>1, <1>2 DEF Heartbeat
  <2> HIDE DEF row
  <2>3. DvRow(d, row)
    BY <1>1, <2>1 DEF DvRow
  <2> QED
    BY <2>1, <2>2, <2>3, OneRow
<1>3. CASE Age(d)
  <2> DEFINE row == [device[d] EXCEPT !.fresh = FALSE]
  <2>1. row \in Devices /\ row.url = device[d].url /\ row.online = device[d].online
    BY <1>1 DEF Devices
  <2>2. d \in Logins /\ device' = [device EXCEPT ![d] = row] /\ UNCHANGED <<plan, sockets>>
    BY <1>1, <1>3 DEF Age
  <2> HIDE DEF row
  <2>3. DvRow(d, row)
    BY <1>1, <2>1, <2>2, DevicesConstantsOK DEF DvRow
  <2>4. PresenceIsActive(d) => row.online
    BY <2>1 DEF PresenceIsActive
  <2> QED
    BY <2>2, <2>3, <2>4, OneRow
<1>4. CASE DeleteDevice(o, d)
  BY <1>4, OneRow DEF DeleteDevice
<1> QED
  BY <1>2, <1>3, <1>4

LEMMA ClaimInv ==
  ASSUME DvInv, NEW o \in DvOwners, NEW keep \in Logins, ClaimSession(o, keep)
  PROVE  DvInv' /\ Sparing
<1>1. PICK gone \in Room(o) :
        /\ device' = [d \in Hids |-> IF d \in gone \cup (Of(o, Logins) \ {keep})
                                     THEN NoDevice ELSE SessionsExpired(o)[d]]
        /\ UNCHANGED <<plan, sockets>>
  BY DEF ClaimSession
<1> DEFINE table == [d \in Hids |-> IF d \in gone \cup (Of(o, Logins) \ {keep})
                                   THEN NoDevice ELSE SessionsExpired(o)[d]]
<1>2. table = [d \in Hids |-> table[d]] /\ device' = table
  BY <1>1
<1>3. \A d \in Hids : table[d] \in {NoDevice, SessionsExpired(o)[d]}
  OBVIOUS
<1> HIDE DEF table
<1>4. \A d \in Hids : table[d] = NoDevice \/ DvRow(d, table[d])
  BY <1>3, ExpiredRows
<1> QED
  BY <1>1, <1>2, <1>3, <1>4, OthersExpire

LEMMA ListInv ==
  ASSUME DvInv, NEW p \in DvOwners, ListDevices(p)
  PROVE  DvInv' /\ Sparing
<1> DEFINE table == [d \in Hids |-> IF Enrolled(d) /\ device[d].owner \in DvVisible[p]
                                   THEN SessionsExpired(device[d].owner)[d] ELSE device[d]]
<1>1. table = [d \in Hids |-> table[d]] /\ device' = table /\ UNCHANGED <<plan, sockets>>
  BY DEF ListDevices
<1>2. \A d \in Hids : table[d] = device[d] \/ \E o \in DvOwners : table[d] = SessionsExpired(o)[d]
  BY DevicesConstantsOK
<1> HIDE DEF table
<1>3. \A d \in Hids : table[d] = NoDevice \/ DvRow(d, table[d])
  BY <1>2, ExpiredRows, DvRows DEF Enrolled
<1> QED
  BY <1>1, <1>2, <1>3, OthersExpire

\* The first and the last socket of an owner write every session of that owner.
LEMMA SocketInv ==
  ASSUME DvInv, NEW o \in DvOwners, Connect(o) \/ Disconnect(o) \/ DropSocket(o)
  PROVE  DvInv' /\ Sparing
<1>1. sockets \in [DvOwners -> 0..MaxSockets] /\ plan \in [DvOwners -> 0..MaxPlan] /\ MaxSockets \in Nat
  BY DevicesConstantsOK DEF DvInv, DvTypeOK
<1>2. sockets' \in [DvOwners -> 0..MaxSockets] /\ plan' \in [DvOwners -> 0..MaxPlan]
  <2>1. plan' = plan
    BY DEF Connect, Disconnect, DropSocket
  <2>2. CASE Connect(o)
    <3>1. sockets' = [sockets EXCEPT ![o] = sockets[o] + 1] /\ sockets[o] < MaxSockets
      BY <2>2 DEF Connect
    <3>2. sockets[o] + 1 \in 0..MaxSockets
      BY <1>1, <3>1
    <3> QED
      BY <1>1, <2>1, <3>1, <3>2
  <2>3. CASE Disconnect(o) \/ DropSocket(o)
    <3>1. sockets' = [sockets EXCEPT ![o] = sockets[o] - 1] /\ sockets[o] > 0
      BY <2>3 DEF Disconnect, DropSocket
    <3>2. sockets[o] - 1 \in 0..MaxSockets
      BY <1>1, <3>1
    <3> QED
      BY <1>1, <2>1, <3>1, <3>2
  <2> QED
    BY <2>2, <2>3
<1>3. device' = device \/ device' = SetLoginsOnline(o, TRUE)
      \/ (device' = SetLoginsOnline(o, FALSE) /\ LastSocketGone(o))
  <2>1. CASE Connect(o)
    BY <2>1 DEF Connect
  <2>2. CASE DropSocket(o)
    BY <2>2 DEF DropSocket
  <2>3. CASE Disconnect(o)
    <3>1. sockets'[o] = sockets[o] - 1
      BY <1>1, <2>3 DEF Disconnect
    <3>2. device' = device \/ (device' = SetLoginsOnline(o, FALSE) /\ sockets[o] = 1)
      BY <2>3 DEF Disconnect
    <3>3. sockets[o] = 1 => sockets'[o] = 0
      BY <3>1
    <3> QED
      BY <3>2, <3>3 DEF LastSocketGone
  <2> QED
    BY <2>1, <2>2, <2>3
<1>4. /\ device' = [d \in Hids |-> device'[d]]
      /\ \A d \in Hids : device'[d] = NoDevice \/ DvRow(d, device'[d])
  <2>1. CASE device' = device
    BY <2>1, DvRows DEF DvInv, Enrolled
  <2>2. ASSUME NEW online \in BOOLEAN, device' = SetLoginsOnline(o, online)
        PROVE  /\ device' = [d \in Hids |-> device'[d]]
               /\ \A d \in Hids : device'[d] = NoDevice \/ DvRow(d, device'[d])
    <3>1. device' = [d \in Hids |-> device'[d]]
      BY <2>2 DEF SetLoginsOnline
    <3> QED
      BY <2>2, <3>1, ExpiredRows
  <2> QED
    BY <1>3, <2>1, <2>2
<1>5. DvInv'
  BY <1>2, <1>4, DvRowsInv
<1>6. ASSUME NEW d \in Logins, PresenceIsActive(d), ~device'[d].online
      PROVE  LastSocketGone(device[d].owner)
  <2>1. d \in Hids /\ Enrolled(d) /\ device[d].online
    BY <1>6 DEF PresenceIsActive, Hids
  <2>2. device[d] \in Devices
    BY <2>1, DvRows DEF DvRow
  <2>3. device' # device
    BY <1>6, <2>1
  <2>4. device' # SetLoginsOnline(o, TRUE)
    <3>1. SetLoginsOnline(o, TRUE)[d].online
      BY <2>1, <2>2 DEF SetLoginsOnline, Devices
    <3> QED
      BY <1>6, <3>1
  <2>5. d \in Of(o, Logins)
    BY <1>3, <1>6, <2>1, <2>3, <2>4 DEF SetLoginsOnline
  <2> QED
    BY <1>3, <2>3, <2>4, <2>5 DEF Of
<1> QED
  BY <1>5, <1>6 DEF Sparing, GoesOffline

LEMMA DvNextInv ==
  ASSUME DvInv, [DvNext]_dvVars
  PROVE  DvInv' /\ Sparing
<1>1. ASSUME NEW o \in DvOwners, NEW n \in 0..MaxPlan, ChangePlan(o, n)
      PROVE  DvInv' /\ Sparing
  <2>1. device' = device /\ sockets' = sockets /\ plan' \in [DvOwners -> 0..MaxPlan]
    BY <1>1 DEF ChangePlan, DvInv, DvTypeOK
  <2> QED
    BY <2>1 DEF DvInv, DvTypeOK, Enrolled, Sparing, GoesOffline, PresenceIsActive
<1>2. CASE UNCHANGED dvVars
  BY <1>2 DEF dvVars, DvInv, DvTypeOK, Enrolled, Sparing, GoesOffline, PresenceIsActive
<1>3. Logins \subseteq Hids /\ NoUrl \in Urls \cup {NoUrl} /\ TRUE \in BOOLEAN
  BY DEF Hids
<1> QED
  BY <1>1, <1>2, <1>3, EnrolInv, AgainInv, SignInv, ClaimInv, ListInv, SocketInv DEF DvNext

LEMMA DvInductive == DvSpec => []DvInv
<1>1. DvInit => DvInv
  BY DevicesConstantsOK DEF DvInit, DvInv, DvTypeOK, Enrolled, Hids
<1>2. DvInv /\ [DvNext]_dvVars => DvInv'
  BY DvNextInv
<1> QED
  BY <1>1, <1>2, PTL DEF DvSpec

\* The devices table keeps its types: a login session has no webhook, a hub has one.
THEOREM DeviceTypesHold == DvSpec => []DvTypeOK
<1>1. DvInv => DvTypeOK
  BY DEF DvInv
<1> QED
  BY <1>1, DvInductive, PTL

\* A listing or a claim expires sessions that were not seen lately and no other.
LEMMA AsksSpare ==
  ASSUME DvInv, ListsOrClaims
  PROVE  \A d \in Logins : ~GoesOffline(d)
<1> SUFFICES ASSUME NEW d \in Logins, PresenceIsActive(d), Enrolled(d)'
             PROVE  device'[d].online
  BY DEF GoesOffline
<1>1. d \in Hids /\ Enrolled(d) /\ device[d].online /\ device[d].fresh
  BY DEF PresenceIsActive, Hids
<1>2. \A o : SessionsExpired(o)[d] = device[d]
  BY <1>1 DEF SessionsExpired
<1>3. device'[d] = device[d]
  <2>1. PICK o \in DvOwners : ListDevices(o) \/ \E keep \in Logins : ClaimSession(o, keep)
    BY DEF ListsOrClaims
  <2>2. CASE ListDevices(o)
    BY <1>1, <1>2, <2>2 DEF ListDevices
  <2>3. CASE \E keep \in Logins : ClaimSession(o, keep)
    <3>1. device'[d] \in {NoDevice, SessionsExpired(o)[d]}
      BY <1>1, <2>3 DEF ClaimSession
    <3> QED
      BY <1>2, <3>1 DEF Enrolled
  <2> QED
    BY <2>1, <2>2, <2>3
<1> QED
  BY <1>1, <1>3

\* A live session goes offline only when its owner's last socket closes or its own
\* row is updated, and never by a listing or a claim, whatever else happens
\* (device_entitlements.py, member_presence_service.py).
THEOREM LiveSessionsStay == DvSpec => LiveSessionsKeep
<1>1. DvInv /\ [DvNext]_dvVars =>
        \A d \in Logins : GoesOffline(d) => ~ListsOrClaims /\ (LastSocketGone(device[d].owner) \/ SignedOff(d))
  BY DvNextInv, AsksSpare DEF Sparing
<1>2. DvSpec => [][\A d \in Logins : GoesOffline(d) =>
                       ~ListsOrClaims /\ (LastSocketGone(device[d].owner) \/ SignedOff(d))]_dvVars
  BY <1>1, DvInductive, PTL DEF DvSpec
<1> QED
  BY <1>2 DEF LiveSessionsKeep
=============================================================================
