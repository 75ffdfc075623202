------------------------------ MODULE Wellness ------------------------------
(***************************************************************************)
(* One wellness check that tracks responses: its acknowledgements, what the *)
(* recipients ask the sender and the sender's replies                       *)
(* (wellness_ack_service.py and its routes), and the reminder worker, a     *)
(* thread that pushes to whoever has not answered (startup_jobs.py).        *)
(*                                                                         *)
(* The worker's thread runs beside the handlers: between its reading of the *)
(* acknowledgements, the push and the commit of the count anything happens, *)
(* and the process may die.  The check is sent at time 0.                   *)
(***************************************************************************)
EXTENDS Naturals, FiniteSets

CONSTANTS
    Recipients,     \* delivered_owner_ids without the sender
    Sender,         \* sender_id
    MaxReminders,   \* WELLNESS_REMINDER_MAX
    Delay,          \* WELLNESS_REMINDER_DELAY_SECONDS
    Lookback,       \* WELLNESS_REMINDER_LOOKBACK_HOURS
    NoAck,          \* no row of wellness_check_acknowledgements
    Idle,           \* the worker sleeps between scans
    MaxTime,        \* bound: the clock
    MaxAsks,        \* bound: rows of wellness_recipient_asks
    MaxLost         \* bound: deliveries that are not counted

ASSUME ConstantsOK ==
    /\ Sender \notin Recipients
    /\ MaxReminders \in Nat /\ Delay \in Nat \ {0} /\ Lookback \in Nat
    /\ MaxTime \in Nat /\ MaxAsks \in Nat /\ MaxLost \in Nat
    /\ NoAck \notin {"ok", "need_help"}
    /\ Idle \notin [at : Nat, to : SUBSET Recipients, no : Nat, pushed : BOOLEAN]

VARIABLES
    now,
    reminders,      \* metadata: wellness_reminders
    lastAt,         \* metadata: wellness_last_reminder_at, or when the check was sent
    ack,            \* person -> status of the acknowledgement
    asked,          \* the asks so far are 1..asked
    asker,          \* ask -> who asked
    answer,         \* ask -> the reply that answered it, 0 while pending
    replies,        \* the replies so far are 1..replies
    worker,         \* Idle, or the delivery under way
    pushed,         \* history: recipient -> reminders pushed
    late,           \* history: recipient -> reminders pushed after the answer
    lost            \* history: deliveries that are not counted

vars == <<now, reminders, lastAt, ack, asked, asker, answer, replies, worker, pushed, late, lost>>
meta == <<reminders, lastAt>>
dialogue == <<asked, asker, answer, replies>>
history == <<pushed, late, lost>>

People == Recipients \cup {Sender}
Statuses == {"ok", "need_help"}
Asks == 1..MaxAsks
Delivery == [at : Nat, to : SUBSET Recipients, no : Nat, pushed : BOOLEAN]

\* Mutant of Pending: only an "ok" counts as an answer.
PendingUntilOk == {r \in Recipients : ack[r] # "ok"}

\* _pending_wellness_recipient_ids
Pending == {r \in Recipients : ack[r] = NoAck}

PendingAsks == {a \in 1..asked : answer[a] = 0}

-----------------------------------------------------------------------------
TypeOK ==
    /\ now \in Nat /\ reminders \in Nat /\ lastAt \in Nat /\ lost \in Nat
    /\ ack \in [People -> Statuses \cup {NoAck}]
    /\ asked \in 0..MaxAsks
    /\ asker \in [Asks -> People]
    /\ answer \in [Asks -> Nat]
    /\ replies \in Nat
    /\ worker \in Delivery \cup {Idle}
    /\ pushed \in [Recipients -> Nat]
    /\ late \in [Recipients -> Nat]

Init ==
    /\ now = 0 /\ reminders = 0 /\ lastAt = 0 /\ lost = 0
    /\ ack = [p \in People |-> NoAck]
    /\ asked = 0
    /\ asker = [a \in Asks |-> Sender]
    /\ answer = [a \in Asks |-> 0]
    /\ replies = 0
    /\ worker = Idle
    /\ pushed = [r \in Recipients |-> 0]
    /\ late = [r \in Recipients |-> 0]

-----------------------------------------------------------------------------
(* Handlers *)

\* Recipients answer, and may change the answer; the sender may answer too.
Acknowledge(p, status) ==
    /\ ack' = [ack EXCEPT ![p] = status]
    /\ UNCHANGED <<now, meta, dialogue, worker, history>>

\* A second ask while the first is pending returns the first.
Ask(r) ==
    /\ asked < MaxAsks
    /\ \A a \in PendingAsks : asker[a] # r
    /\ asked' = asked + 1
    /\ asker' = [asker EXCEPT ![asked + 1] = r]
    /\ UNCHANGED <<now, meta, ack, answer, replies, worker, history>>

\* Mutant of Reply: only the newest pending ask is looked up.
ReplyToNewest ==
    /\ PendingAsks # {}
    /\ replies' = replies + 1
    /\ answer' = [answer EXCEPT ![CHOOSE a \in PendingAsks : \A b \in PendingAsks : b <= a] = replies + 1]
    /\ UNCHANGED <<now, meta, ack, asked, asker, worker, history>>

\* The sender answers every pending ask at once.
Reply ==
    /\ PendingAsks # {}
    /\ replies' = replies + 1
    /\ answer' = [a \in Asks |-> IF a \in PendingAsks THEN replies + 1 ELSE answer[a]]
    /\ UNCHANGED <<now, meta, ack, asked, asker, worker, history>>

-----------------------------------------------------------------------------
(* The reminder worker: _scan_wellness_reminders_once *)

\* A scan delivers for one check after the other with the time it began at.
Scan(at) ==
    /\ worker = Idle
    /\ at <= Lookback
    /\ reminders < MaxReminders
    /\ at >= lastAt + Delay
    /\ Pending # {}
    /\ worker' = [at |-> at, to |-> Pending, no |-> reminders + 1, pushed |-> FALSE]
    /\ UNCHANGED <<now, meta, ack, dialogue, history>>

\* send_alarm_push_to_owners and the webhooks
Push ==
    /\ worker # Idle /\ ~worker.pushed
    /\ worker' = [worker EXCEPT !.pushed = TRUE]
    /\ pushed' = [r \in Recipients |-> IF r \in worker.to THEN pushed[r] + 1 ELSE pushed[r]]
    /\ late' = [r \in Recipients |-> IF r \in worker.to /\ ack[r] # NoAck THEN late[r] + 1 ELSE late[r]]
    /\ UNCHANGED <<now, meta, ack, dialogue, lost>>

Count ==
    /\ worker # Idle /\ worker.pushed
    /\ reminders' = worker.no
    /\ lastAt' = worker.at
    /\ worker' = Idle
    /\ UNCHANGED <<now, ack, dialogue, history>>

\* The delivery raises, the commit fails, or the process dies: nothing is counted.
Lose ==
    /\ worker # Idle /\ lost < MaxLost
    /\ lost' = lost + 1
    /\ worker' = Idle
    /\ UNCHANGED <<now, meta, ack, dialogue, pushed, late>>

Tick ==
    /\ now < MaxTime
    /\ now' = now + 1
    /\ UNCHANGED <<meta, ack, dialogue, worker, history>>

-----------------------------------------------------------------------------
Next ==
    \/ \E p \in People, status \in Statuses : Acknowledge(p, status)
    \/ \E r \in Recipients : Ask(r)
    \/ Reply
    \/ \E at \in 0..now : Scan(at)
    \/ Push \/ Count \/ Lose
    \/ Tick

Spec == Init /\ [][Next]_vars

-----------------------------------------------------------------------------
(* Properties *)

\* core/config.py: "up to a capped number of reminders".  Only a delivery that was
\* not counted, whose push may have gone out, adds to the cap; a restart does not
\* begin the count again. Who has answered, "need_help" included, gets at most the one
\* reminder that was under way, whatever the worker still counts or repeats.
RemindersBounded ==
    \A r \in Recipients :
        /\ pushed[r] <= MaxReminders + lost
        /\ late[r] <= 1

\* A recipient never has two pending asks, and no reply is empty: each answered
\* something that no later reply took over.
DialogueSound ==
    /\ \A a, b \in PendingAsks : asker[a] = asker[b] => a = b
    /\ \A k \in 1..replies : \E a \in 1..asked : answer[a] = k

\* Asks and replies fit together, and stay so: an ask is answered once, and in the
\* order of asking.
AnswersStand ==
    /\ []DialogueSound
    /\ [][/\ \A a \in Asks : answer[a] # 0 => answer'[a] = answer[a]
          /\ \A a, b \in Asks : a <= b /\ answer'[b] # 0 => answer'[a] \in 1..answer'[b]]_vars
=============================================================================
