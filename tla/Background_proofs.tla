------------------------- MODULE Background_proofs -------------------------
(* Proofs about what the server does behind the requests: its start (Startup), for *)
(* any number of retries and starts, and the wellness checks with the worker that  *)
(* reminds of them (Wellness), for any recipients, limits, delays and clock.       *)
EXTENDS Startup, Wellness, TLAPS

-----------------------------------------------------------------------------
(* The server start *)

\* A schedule somebody wrote is live only if it was accepted: the backfill, which
\* accepts what is live and ends what is not accepted, then has nothing to do.
ChosenIsSettled ==
    "schedule" \in stChosen =>
        /\ stSchedule \in [status : ScheduleStatuses, active : BOOLEAN]
        /\ stSchedule.active => stSchedule.status = "ACCEPTED"

-----------------------------------------------------------------------------
LEMMA InitSettled == StInit => ChosenIsSettled
BY DEF StInit, ChosenIsSettled

\* The backfill leaves a settled schedule alone.
LEMMA BackfillSpares ==
  ASSUME ChosenIsSettled, "schedule" \in stChosen
  PROVE  ScheduleBackfilled = stSchedule
<1>1. stSchedule \in [status : ScheduleStatuses, active : BOOLEAN]
  BY DEF ChosenIsSettled
<1>2. CASE stSchedule.status = "ACCEPTED"
  BY <1>1, <1>2 DEF ScheduleBackfilled
<1>3. CASE stSchedule.status # "ACCEPTED"
  <2>1. stSchedule.active = FALSE
    BY <1>1, <1>3 DEF ChosenIsSettled
  <2>2. [stSchedule EXCEPT !.active = FALSE] = stSchedule
    BY <1>1, <2>1
  <2> QED
    BY <1>3, <2>1, <2>2 DEF ScheduleBackfilled
<1> QED
  BY <1>2, <1>3

\* A step of the thread, of the platform or of a new start.
LEMMA StartStep ==
  ASSUME ChosenIsSettled, Succeed \/ FailAgain \/ FailSkipped \/ OldExits \/ Restart
  PROVE  /\ stChosen' = stChosen
         /\ "schedule" \in stChosen => stSchedule' = stSchedule
         /\ ChosenIsSettled'
<1>1. stChosen' = stChosen
  BY DEF Succeed, Apply, FailAgain, FailSkipped, OldExits, Restart, stRows
<1>2. ASSUME "schedule" \in stChosen PROVE stSchedule' = stSchedule
  <2>1. CASE Succeed
    BY <1>2, <2>1, BackfillSpares DEF Succeed, Apply
  <2>2. CASE FailAgain \/ FailSkipped \/ OldExits \/ Restart
    BY <2>2 DEF FailAgain, FailSkipped, OldExits, Restart, stRows
  <2> QED
    BY <2>1, <2>2
<1> QED
  BY <1>1, <1>2 DEF ChosenIsSettled

\* A schedule written by a request is settled.
LEMMA WrittenIsSettled ==
  ASSUME NEW status \in ScheduleStatuses, NEW live \in BOOLEAN, live => status = "ACCEPTED",
         stSchedule' = [status |-> status, active |-> live]
  PROVE  ChosenIsSettled'
<1>1. stSchedule' \in [status : ScheduleStatuses, active : BOOLEAN]
  OBVIOUS
<1>2. stSchedule'.active = live /\ stSchedule'.status = status
  OBVIOUS
<1> QED
  BY <1>1, <1>2 DEF ChosenIsSettled

LEMMA DecisionIsSettled ==
  ASSUME NEW from, NEW to \in ScheduleStatuses, DecideSchedule(from, to)
  PROVE  stAt' = stAt /\ ChosenIsSettled'
<1> DEFINE live == to = "ACCEPTED"
<1>1. stSchedule' = [status |-> to, active |-> live] /\ stAt' = stAt
  BY DEF DecideSchedule, Write
<1>2. live \in BOOLEAN /\ (live => to = "ACCEPTED")
  OBVIOUS
<1> HIDE DEF live
<1> QED
  BY <1>1, <1>2, WrittenIsSettled

\* A request that decides the schedule leaves it settled.
LEMMA RequestStep ==
  ASSUME ChosenIsSettled,
         \/ \E byAdmin \in BOOLEAN : CreateSchedule(byAdmin)
         \/ AcceptSchedule \/ RejectSchedule \/ RevokeSchedule
         \/ \E selected \in BOOLEAN : SelectKey(selected)
         \/ \E webhook, zones \in BOOLEAN : EditHub(webhook, zones)
  PROVE  stAt' = stAt /\ ChosenIsSettled'
<1>1. CASE \E byAdmin \in BOOLEAN : CreateSchedule(byAdmin)
  <2>1. PICK byAdmin \in BOOLEAN : CreateSchedule(byAdmin)
    BY <1>1
  <2>2. stSchedule' = [status |-> IF byAdmin THEN "ACCEPTED" ELSE "PENDING", active |-> byAdmin]
    BY <2>1 DEF CreateSchedule
  <2>3. (IF byAdmin THEN "ACCEPTED" ELSE "PENDING") \in ScheduleStatuses
    BY DEF ScheduleStatuses
  <2> QED
    BY <2>1, <2>2, <2>3, WrittenIsSettled DEF CreateSchedule, Write
<1>2. CASE AcceptSchedule \/ RejectSchedule \/ RevokeSchedule
  <2>1. {"ACCEPTED", "REJECTED", "REVOKED"} \subseteq ScheduleStatuses
    BY DEF ScheduleStatuses
  <2> QED
    BY <1>2, <2>1, DecisionIsSettled DEF AcceptSchedule, RejectSchedule, RevokeSchedule
<1>3. CASE \E selected \in BOOLEAN : SelectKey(selected)
  BY <1>3 DEF SelectKey, Write, ChosenIsSettled
<1>4. CASE \E webhook, zones \in BOOLEAN : EditHub(webhook, zones)
  BY <1>4 DEF EditHub, Write, ChosenIsSettled
<1> QED
  BY <1>1, <1>2, <1>3, <1>4

LEMMA SettledNext ==
  ASSUME ChosenIsSettled, [StNext]_stVars
  PROVE  /\ ChosenIsSettled'
         /\ (stAt' # stAt /\ "schedule" \in stChosen) => stSchedule' = stSchedule
<1>1. CASE Succeed \/ FailAgain \/ FailSkipped \/ OldExits \/ Restart
  BY <1>1, StartStep
<1>2. CASE \/ \E byAdmin \in BOOLEAN : CreateSchedule(byAdmin)
           \/ AcceptSchedule \/ RejectSchedule \/ RevokeSchedule
           \/ \E selected \in BOOLEAN : SelectKey(selected)
           \/ \E webhook, zones \in BOOLEAN : EditHub(webhook, zones)
  BY <1>2, RequestStep
<1>3. CASE UNCHANGED stVars
  BY <1>3 DEF stVars, ChosenIsSettled
<1> QED
  BY <1>1, <1>2, <1>3 DEF StNext

-----------------------------------------------------------------------------
(* The types *)

LEMMA StInitTyped == StInit => StTypeOK
<1>1. 1 \in DOMAIN Program \cup {Done, GaveUp} /\ 1 \in 1 .. MaxInitRetries /\ 1 \in 1 .. MaxStarts
  BY StartupConstantsOK DEF Program
<1> QED
  BY <1>1 DEF StInit, StTypeOK, ScheduleStatuses

\* The program has ten steps, each of which has a patch of Patches.
LEMMA ProgramSteps ==
  /\ DOMAIN Program = 1 .. 10 /\ Done = 11 /\ InitDb = 3 /\ GaveUp = 0
  /\ \A i \in 1 .. 10 : Program[i].patch \in Patches
<1>1. DOMAIN Program = 1 .. 10 /\ Done = 11
  BY DEF Program, Done
<1>2. \A i \in 1 .. 10 : Program[i].patch \in Patches
  BY DEF Program, Patches
<1> QED
  BY <1>1, <1>2 DEF InitDb, GaveUp

\* A backfill keeps the types of the rows.
LEMMA ApplyTyped ==
  ASSUME StTypeOK, NEW patch \in Patches, Apply(patch)
  PROVE  /\ stPatched' \subseteq Patches
         /\ stSchedule' \in [status : ScheduleStatuses, active : BOOLEAN] \cup {NoSchedule}
         /\ stKey' \in [enabled : BOOLEAN, selected : BOOLEAN]
         /\ stHub' \in [account : BOOLEAN, webhook : BOOLEAN, zones : BOOLEAN]
         /\ stChosen' \subseteq {"schedule", "key", "hub"}
<1>1. stPatched' \subseteq Patches /\ stChosen' \subseteq {"schedule", "key", "hub"}
  BY DEF Apply, StTypeOK
<1>2. ScheduleBackfilled \in [status : ScheduleStatuses, active : BOOLEAN] \cup {NoSchedule}
  BY DEF ScheduleBackfilled, StTypeOK, ScheduleStatuses
<1>3. KeyBackfilled \in [enabled : BOOLEAN, selected : BOOLEAN]
  BY DEF KeyBackfilled, StTypeOK
<1>4. HubBackfilled \in [account : BOOLEAN, webhook : BOOLEAN, zones : BOOLEAN]
  BY DEF HubBackfilled, StTypeOK
<1> QED
  BY <1>1, <1>2, <1>3, <1>4 DEF Apply, StTypeOK

LEMMA StartStepTyped ==
  ASSUME StTypeOK, Succeed \/ FailAgain \/ FailSkipped \/ OldExits \/ Restart
  PROVE  StTypeOK'
<1>1. CASE Succeed
  <2>1. stAt \in 1 .. 10 /\ Program[stAt].patch \in Patches /\ Apply(Program[stAt].patch)
    BY <1>1, ProgramSteps DEF Succeed
  <2>2. stAt' \in DOMAIN Program \cup {Done, GaveUp}
    BY <1>1, <2>1, ProgramSteps DEF Succeed
  <2>3. stAttempt' \in 1 .. MaxInitRetries
    BY <1>1, StartupConstantsOK DEF Succeed, StTypeOK
  <2> QED
    BY <1>1, <2>1, <2>2, <2>3, ApplyTyped DEF Succeed, StTypeOK
<1>2. CASE FailAgain
  <2>1. stAt \in 1 .. 10 /\ stAt' \in DOMAIN Program \cup {Done, GaveUp}
    BY <1>2, ProgramSteps DEF FailAgain
  <2>2. stAttempt' \in 1 .. MaxInitRetries
    BY <1>2, StartupConstantsOK DEF FailAgain, StTypeOK
  <2> QED
    BY <1>2, <2>1, <2>2 DEF FailAgain, StTypeOK, stRows
<1>3. CASE FailSkipped
  <2>1. stAt' \in DOMAIN Program \cup {Done, GaveUp}
    BY <1>3, ProgramSteps DEF FailSkipped
  <2> QED
    BY <1>3, <2>1 DEF FailSkipped, StTypeOK, stRows
<1>4. CASE OldExits
  BY <1>4 DEF OldExits, StTypeOK, stRows
<1>5. CASE Restart
  <2>1. /\ 1 \in DOMAIN Program \cup {Done, GaveUp} /\ 1 \in 1 .. MaxInitRetries
        /\ stStarts + 1 \in 1 .. MaxStarts
    BY <1>5, ProgramSteps, StartupConstantsOK DEF Restart, StTypeOK
  <2> QED
    BY <1>5, <2>1 DEF Restart, StTypeOK, stRows
<1> QED
  BY <1>1, <1>2, <1>3, <1>4, <1>5

LEMMA RequestTyped ==
  ASSUME StTypeOK,
         \/ \E byAdmin \in BOOLEAN : CreateSchedule(byAdmin)
         \/ AcceptSchedule \/ RejectSchedule \/ RevokeSchedule
         \/ \E selected \in BOOLEAN : SelectKey(selected)
         \/ \E webhook, zones \in BOOLEAN : EditHub(webhook, zones)
  PROVE  StTypeOK'
<1>1. CASE \E byAdmin \in BOOLEAN : CreateSchedule(byAdmin)
  BY <1>1 DEF CreateSchedule, Write, StTypeOK, ScheduleStatuses
<1>2. ASSUME NEW from, NEW to \in ScheduleStatuses, DecideSchedule(from, to) PROVE StTypeOK'
  <2> DEFINE live == to = "ACCEPTED"
  <2>1. stSchedule' = [status |-> to, active |-> live] /\ live \in BOOLEAN
    BY <1>2 DEF DecideSchedule
  <2> HIDE DEF live
  <2>2. stSchedule' \in [status : ScheduleStatuses, active : BOOLEAN]
    BY <2>1
  <2> QED
    BY <1>2, <2>2 DEF DecideSchedule, Write, StTypeOK
<1>3. CASE AcceptSchedule \/ RejectSchedule \/ RevokeSchedule
  <2>1. {"ACCEPTED", "REJECTED", "REVOKED"} \subseteq ScheduleStatuses
    BY DEF ScheduleStatuses
  <2> QED
    BY <1>2, <1>3, <2>1 DEF AcceptSchedule, RejectSchedule, RevokeSchedule
<1>4. CASE \E selected \in BOOLEAN : SelectKey(selected)
  BY <1>4 DEF SelectKey, Write, StTypeOK
<1>5. CASE \E webhook, zones \in BOOLEAN : EditHub(webhook, zones)
  BY <1>5 DEF EditHub, Write, StTypeOK
<1> QED
  BY <1>1, <1>3, <1>4, <1>5

\* The position in the program, the attempts and the rows keep their types, for any
\* number of retries and starts: the thread never runs past the program's end.
THEOREM StartTypeCorrect == StSpec => []StTypeOK
<1>1. StInit => StTypeOK
  BY StInitTyped
<1>2. StTypeOK /\ [StNext]_stVars => StTypeOK'
  <2> SUFFICES ASSUME StTypeOK, [StNext]_stVars PROVE StTypeOK'
    OBVIOUS
  <2>1. CASE UNCHANGED stVars
    BY <2>1 DEF stVars, StTypeOK
  <2> QED
    BY <2>1, StartStepTyped, RequestTyped DEF StNext
<1> QED
  BY <1>1, <1>2, PTL DEF StSpec

-----------------------------------------------------------------------------
\* No start, crash, retry or backfill decides a schedule that somebody created or
\* decided since its columns exist, however many starts there are and wherever the
\* thread is interrupted (init_db runs again at every start).
THEOREM StartsDecideNothing == StSpec => StartSparesSchedules
<1>1. StInit => ChosenIsSettled
  BY InitSettled
<1>2. ChosenIsSettled /\ [StNext]_stVars => ChosenIsSettled'
  BY SettledNext
<1>3. ChosenIsSettled /\ [StNext]_stVars =>
          [(stAt' # stAt /\ "schedule" \in stChosen) => stSchedule' = stSchedule]_stVars
  BY SettledNext
<1> QED
  BY <1>1, <1>2, <1>3, PTL DEF StSpec, StartSparesSchedules

-----------------------------------------------------------------------------
(* Wellness checks *)

\* What a delivery under way knows: the count it will write is the next one, and
\* those it is about to push to were never reminded after an answer.
DeliverySound ==
    /\ reminders <= MaxReminders
    /\ worker # Idle =>
           /\ worker.no = reminders + 1
           /\ reminders < MaxReminders
           /\ ~worker.pushed => \A r \in worker.to : late[r] = 0

\* Each push is counted, lost, or about to be counted.
PushesAccounted ==
    \A r \in Recipients :
        pushed[r] <= reminders + lost + (IF worker # Idle /\ worker.pushed THEN 1 ELSE 0)

LateSound ==
    \A r \in Recipients : late[r] <= 1 /\ (ack[r] = NoAck => late[r] = 0)

\* The answered asks are the oldest, answered in order.
AnswersOrdered ==
    /\ \A a \in Asks : answer[a] <= replies /\ (a > asked => answer[a] = 0)
    /\ \A a, b \in Asks : a <= b /\ answer[b] # 0 => answer[a] \in 1..answer[b]

\* RemindersBounded is not inductive: a delivery under way must be
\* accounted for in both its bounds, and DialogueSound needs the order of the answers.
IInv ==
    /\ TypeOK
    /\ DeliverySound
    /\ PushesAccounted
    /\ LateSound
    /\ DialogueSound
    /\ AnswersOrdered

------------------------------------------------------------------------------
LEMMA InitInv == Init => IInv
<1> SUFFICES ASSUME Init PROVE IInv
  OBVIOUS
<1> USE ConstantsOK DEF Init
<1>1. TypeOK
  BY DEF TypeOK, People, Asks
<1>2. DeliverySound /\ PushesAccounted /\ LateSound
  BY DEF DeliverySound, PushesAccounted, LateSound
<1>3. DialogueSound /\ AnswersOrdered
  BY DEF DialogueSound, AnswersOrdered, PendingAsks, Asks
<1> QED
  BY <1>1, <1>2, <1>3 DEF IInv

------------------------------------------------------------------------------
(* One lemma per handler. *)

LEMMA AcknowledgeInv ==
  ASSUME IInv, NEW p \in People, NEW status \in Statuses, Acknowledge(p, status)
  PROVE  IInv'
<1> USE ConstantsOK DEF Acknowledge, meta, dialogue, history
<1>1. TypeOK'
  BY DEF IInv, TypeOK, Statuses
<1>2. DeliverySound' /\ PushesAccounted'
  BY DEF IInv, DeliverySound, PushesAccounted
<1>3. LateSound'
  BY DEF IInv, LateSound, TypeOK, People, Statuses
<1>4. DialogueSound' /\ AnswersOrdered'
  BY DEF IInv, DialogueSound, AnswersOrdered, PendingAsks, Asks
<1> QED
  BY <1>1, <1>2, <1>3, <1>4 DEF IInv

LEMMA AskInv ==
  ASSUME IInv, NEW r \in Recipients, Ask(r)
  PROVE  IInv'
<1> USE ConstantsOK DEF Ask, meta, history
<1>1. asked + 1 \in Asks /\ asked \in Nat
  BY DEF IInv, TypeOK, Asks
<1>2. TypeOK'
  BY <1>1 DEF IInv, TypeOK, People, Asks
<1>3. DeliverySound' /\ PushesAccounted' /\ LateSound'
  BY DEF IInv, DeliverySound, PushesAccounted, LateSound
<1>4. AnswersOrdered'
  BY <1>1 DEF IInv, AnswersOrdered, TypeOK, Asks
<1>5. DialogueSound'
  <2>1. PendingAsks' = PendingAsks \cup {asked + 1}
    BY <1>1 DEF IInv, TypeOK, AnswersOrdered, PendingAsks, Asks
  <2>2. \A a \in PendingAsks : asker'[a] = asker[a] /\ asker[a] # r
    BY <1>1 DEF IInv, TypeOK, PendingAsks, Asks
  <2>3. asker'[asked + 1] = r
    BY <1>1 DEF IInv, TypeOK
  <2>4. \A a, b \in PendingAsks' : asker'[a] = asker'[b] => a = b
    BY <2>1, <2>2, <2>3 DEF IInv, DialogueSound
  <2>5. \A k \in 1..replies : \E a \in 1..(asked + 1) : answer[a] = k
    <3> SUFFICES ASSUME NEW k \in 1..replies PROVE \E a \in 1..(asked + 1) : answer[a] = k
      OBVIOUS
    <3>1. PICK a \in 1..asked : answer[a] = k
      BY DEF IInv, DialogueSound
    <3> QED
      BY <1>1, <3>1
  <2> QED
    BY <2>4, <2>5 DEF DialogueSound
<1> QED
  BY <1>2, <1>3, <1>4, <1>5 DEF IInv

LEMMA ReplyInv ==
  ASSUME IInv, Reply
  PROVE  IInv'
<1> USE ConstantsOK DEF Reply, meta, history
<1>1. replies \in Nat /\ asked \in Nat /\ answer \in [Asks -> Nat]
  BY DEF IInv, TypeOK
<1>2. /\ PendingAsks \subseteq Asks
      /\ \A a \in Asks : answer'[a] = IF a \in PendingAsks THEN replies + 1 ELSE answer[a]
  BY DEF IInv, TypeOK, PendingAsks, Asks
<1>3. PendingAsks' = {}
  BY <1>1, <1>2 DEF IInv, TypeOK, PendingAsks, Asks
<1>4. TypeOK'
  BY <1>1 DEF IInv, TypeOK
<1>5. DeliverySound' /\ PushesAccounted' /\ LateSound'
  BY DEF IInv, DeliverySound, PushesAccounted, LateSound
<1>6. AnswersOrdered'
  <2>1. \A a \in Asks : answer'[a] <= replies + 1 /\ (a > asked => answer'[a] = 0)
    BY <1>1, <1>2 DEF IInv, AnswersOrdered, PendingAsks, Asks
  <2>2. ASSUME NEW a \in Asks, NEW b \in Asks, a <= b, answer'[b] # 0
        PROVE  answer'[a] \in 1..answer'[b]
    <3>1. CASE b \in PendingAsks
      BY <1>1, <1>2, <2>2, <3>1 DEF IInv, AnswersOrdered, PendingAsks, Asks
    <3>2. CASE b \notin PendingAsks
      <4>1. answer[b] # 0 /\ answer[a] \in 1..answer[b]
        BY <1>1, <1>2, <2>2, <3>2 DEF IInv, AnswersOrdered
      <4>2. a \notin PendingAsks
        BY <1>1, <4>1 DEF PendingAsks
      <4> QED
        BY <1>2, <3>2, <4>1, <4>2
    <3> QED
      BY <3>1, <3>2
  <2> QED
    BY <2>1, <2>2 DEF AnswersOrdered
<1>7. DialogueSound'
  <2> SUFFICES ASSUME NEW k \in 1..(replies + 1) PROVE \E a \in 1..asked : answer'[a] = k
    BY <1>3 DEF DialogueSound
  <2>1. CASE k = replies + 1
    <3>1. PICK a \in PendingAsks : TRUE
      OBVIOUS
    <3> QED
      BY <1>2, <2>1, <3>1 DEF PendingAsks
  <2>2. CASE k # replies + 1
    <3>1. PICK a \in 1..asked : answer[a] = k
      BY <1>1, <2>2 DEF IInv, DialogueSound
    <3>2. a \in Asks /\ a \notin PendingAsks
      BY <1>1, <2>2, <3>1 DEF IInv, TypeOK, PendingAsks, Asks
    <3> QED
      BY <1>2, <3>1, <3>2
  <2> QED
    BY <2>1, <2>2
<1> QED
  BY <1>4, <1>5, <1>6, <1>7 DEF IInv

------------------------------------------------------------------------------
(* One lemma per step of the worker. *)

LEMMA ScanInv ==
  ASSUME IInv, NEW at \in 0..now, Scan(at)
  PROVE  IInv'
<1> USE ConstantsOK DEF Scan, meta, dialogue, history
<1>1. worker' \in Delivery /\ worker' # Idle
  <2>1. at \in Nat /\ reminders + 1 \in Nat
    BY DEF IInv, TypeOK
  <2>2. worker' \in Delivery
    BY <2>1 DEF Delivery, Pending
  <2> QED
    BY <2>2 DEF Delivery
<1>2. TypeOK'
  BY <1>1 DEF IInv, TypeOK
<1>3. DeliverySound'
  BY DEF IInv, TypeOK, DeliverySound, LateSound, Pending
<1>4. PushesAccounted' /\ LateSound'
  BY DEF IInv, PushesAccounted, LateSound
<1>5. DialogueSound' /\ AnswersOrdered'
  BY DEF IInv, DialogueSound, AnswersOrdered, PendingAsks
<1> QED
  BY <1>2, <1>3, <1>4, <1>5 DEF IInv

LEMMA PushInv ==
  ASSUME IInv, Push
  PROVE  IInv'
<1> USE ConstantsOK DEF Push, meta, dialogue
<1>1. worker \in Delivery /\ worker' = [worker EXCEPT !.pushed = TRUE]
  BY DEF IInv, TypeOK
<1>2. /\ worker' \in Delivery /\ worker' # Idle
      /\ worker'.pushed /\ worker'.no = worker.no
  BY <1>1 DEF Delivery
<1>3. TypeOK'
  BY <1>1, <1>2 DEF IInv, TypeOK
<1>4. DeliverySound'
  BY <1>1, <1>2 DEF IInv, DeliverySound
<1>5. PushesAccounted'
  BY <1>1, <1>2 DEF IInv, TypeOK, PushesAccounted
<1>6. LateSound'
  BY <1>1 DEF IInv, TypeOK, LateSound, DeliverySound
<1>7. DialogueSound' /\ AnswersOrdered'
  BY DEF IInv, DialogueSound, AnswersOrdered, PendingAsks
<1> QED
  BY <1>3, <1>4, <1>5, <1>6, <1>7 DEF IInv

LEMMA CountInv ==
  ASSUME IInv, Count
  PROVE  IInv'
<1> USE ConstantsOK DEF Count, dialogue, history
<1>1. worker \in Delivery
  BY DEF IInv, TypeOK
<1>2. TypeOK'
  BY <1>1 DEF IInv, TypeOK, Delivery
<1>3. DeliverySound' /\ PushesAccounted' /\ LateSound'
  BY <1>1 DEF IInv, TypeOK, DeliverySound, PushesAccounted, LateSound, Delivery
<1>4. DialogueSound' /\ AnswersOrdered'
  BY DEF IInv, DialogueSound, AnswersOrdered, PendingAsks
<1> QED
  BY <1>2, <1>3, <1>4 DEF IInv

LEMMA LoseInv ==
  ASSUME IInv, Lose
  PROVE  IInv'
<1> USE ConstantsOK DEF Lose, meta, dialogue
<1>1. TypeOK'
  BY DEF IInv, TypeOK
<1>2. DeliverySound' /\ PushesAccounted' /\ LateSound'
  BY DEF IInv, TypeOK, DeliverySound, PushesAccounted, LateSound
<1>3. DialogueSound' /\ AnswersOrdered'
  BY DEF IInv, DialogueSound, AnswersOrdered, PendingAsks
<1> QED
  BY <1>1, <1>2, <1>3 DEF IInv

LEMMA QuietInv ==
  ASSUME IInv, Tick \/ UNCHANGED vars
  PROVE  IInv'
<1>1. TypeOK'
  BY DEF IInv, TypeOK, Tick, vars, meta, dialogue, history
<1>2. DeliverySound' /\ PushesAccounted' /\ LateSound' /\ DialogueSound' /\ AnswersOrdered'
  BY DEF IInv, Tick, vars, meta, dialogue, history, DeliverySound, PushesAccounted,
         LateSound, DialogueSound, AnswersOrdered, PendingAsks
<1> QED
  BY <1>1, <1>2 DEF IInv

LEMMA StepInv == IInv /\ [Next]_vars => IInv'
<1> SUFFICES ASSUME IInv, [Next]_vars PROVE IInv'
  OBVIOUS
<1>1. ASSUME NEW p \in People, NEW status \in Statuses, Acknowledge(p, status) PROVE IInv'
  BY <1>1, AcknowledgeInv
<1>2. ASSUME NEW r \in Recipients, Ask(r) PROVE IInv'
  BY <1>2, AskInv
<1>3. CASE Reply
  BY <1>3, ReplyInv
<1>4. ASSUME NEW at \in 0..now, Scan(at) PROVE IInv'
  BY <1>4, ScanInv
<1>5. CASE Push
  BY <1>5, PushInv
<1>6. CASE Count
  BY <1>6, CountInv
<1>7. CASE Lose
  BY <1>7, LoseInv
<1>8. CASE Tick \/ UNCHANGED vars
  BY <1>8, QuietInv
<1> QED
  BY <1>1, <1>2, <1>3, <1>4, <1>5, <1>6, <1>7, <1>8 DEF Next

LEMMA Invariance == Spec => []IInv
<1>1. Init => IInv
  BY InitInv
<1>2. IInv /\ [Next]_vars => IInv'
  BY StepInv
<1> QED
  BY <1>1, <1>2, PTL DEF Spec

------------------------------------------------------------------------------
\* The columns keep their types.
THEOREM WellnessTypesHold == Spec => []TypeOK
<1>1. IInv => TypeOK
  BY DEF IInv
<1> QED
  BY <1>1, Invariance, PTL

\* The reminder worker keeps to WELLNESS_REMINDER_MAX, up to deliveries it could not
\* count, and reminds once at most after an answer, however acknowledgements and
\* restarts fall between its steps.
THEOREM BoundedReminders == Spec => []RemindersBounded
<1>1. IInv => RemindersBounded
  BY ConstantsOK DEF IInv, TypeOK, DeliverySound, PushesAccounted, LateSound, RemindersBounded
<1> QED
  BY <1>1, Invariance, PTL

\* Everybody has one pending ask, no reply is empty, an answer is final, and asks are
\* answered in the order they were asked.
THEOREM StandingAnswers == Spec => AnswersStand
<1>1. IInv /\ IInv' /\ [Next]_vars =>
        [/\ \A a \in Asks : answer[a] # 0 => answer'[a] = answer[a]
         /\ \A a, b \in Asks : a <= b /\ answer'[b] # 0 => answer'[a] \in 1..answer'[b]]_vars
  <2> SUFFICES ASSUME IInv, IInv', Next
               PROVE  /\ \A a \in Asks : answer[a] # 0 => answer'[a] = answer[a]
                      /\ \A a, b \in Asks : a <= b /\ answer'[b] # 0 => answer'[a] \in 1..answer'[b]
    OBVIOUS
  <2>1. \A a, b \in Asks : a <= b /\ answer'[b] # 0 => answer'[a] \in 1..answer'[b]
    BY DEF IInv, AnswersOrdered
  <2>2. Reply \/ answer' = answer
    BY DEF Next, Acknowledge, Ask, Scan, Push, Count, Lose, Tick, dialogue
  <2>3. ASSUME Reply, NEW a \in Asks, answer[a] # 0 PROVE answer'[a] = answer[a]
    BY <2>3 DEF Reply, PendingAsks
  <2> QED
    BY <2>1, <2>2, <2>3
<1>2. IInv => DialogueSound
  BY DEF IInv
<1> QED
  BY <1>1, <1>2, Invariance, PTL DEF Spec, AnswersStand
=============================================================================
