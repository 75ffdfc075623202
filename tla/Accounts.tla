------------------------------ MODULE Accounts ------------------------------
(***************************************************************************)
(* Registration: codes of administrators, invites and seats of members      *)
(* (routers/owners.py, routers/utils.py, routes/contract_routes.py,         *)
(* auth_service.py, registration_code_service.py, device_entitlements.py).  *)
(*                                                                         *)
(* The web routes run on the event loop to their commit.  The mobile        *)
(* routes POST /register and POST /login run on a thread, with the address  *)
(* looked up in between, and commit back on the event loop: meanwhile the   *)
(* transaction holds the rows it wrote.  A web route that needs such a row  *)
(* waits for it on the event loop, which the commit needs too.              *)
(***************************************************************************)
EXTENDS Naturals, FiniteSets

CONSTANTS
    Emails,         \* an account is known by its e-mail address
    RegCodes,       \* rows of registration_codes
    QrInvites,      \* rows of qr_registrations
    SeatLimit,      \* active users of one administrator's account, itself included
    Threads,        \* bound: mobile requests under way
    System,         \* the system administrator, who invites people to networks of their own
    NoOwner, NoCode, NoInvite, NoReg

ASSUME AccountsConstantsOK ==
    /\ SeatLimit \in Nat \ {0}
    /\ System \notin Emails /\ NoCode \notin RegCodes
    /\ RegCodes \cap QrInvites = {}
    /\ IsFiniteSet(Emails) /\ IsFiniteSet(Threads)

VARIABLES
    acct,           \* owners
    regCode,        \* registration_codes
    invite,         \* qr_registrations
    reg,            \* thread -> the mobile request it serves
    stuck,          \* a web route waits on the event loop for a row of a thread
    admitted,       \* history: code or invite -> accounts registered with it
    excused         \* history: accounts that got a member while another was checked, or made active again

acVars == <<acct, regCode, invite, reg, stuck, admitted, excused>>

AdminTypes == {"private_plus", "enhanced", "enhanced_plus"}
AcRows == [kind : {"administrator", "member", "solo"}, root : Emails, active : BOOLEAN]
RegCodeRows == [issued : BOOLEAN, for : Emails \cup {NoOwner}, state : {"live", "used", "expired"}]
InviteRows == [by : Emails \cup {System}, used : BOOLEAN, expired : BOOLEAN]
Requests == [kind : {"administrator", "member", "solo", "login"}, email : Emails, under : Emails,
             with : RegCodes \cup {NoCode}, holds : SUBSET {"code", "row"},
             at : {"code", "seat", "insert", "flush", "done", "failed"}]

ASSUME AccountsNullsOK ==
    NoReg \notin Requests \cup Threads /\ NoOwner \notin AcRows /\ NoCode \notin RegCodeRows /\ NoInvite \notin InviteRows

Known(e) == acct[e] # NoOwner
Administrator(a) == Known(a) /\ acct[a].kind = "administrator"
ActiveUsers(a) == {e \in Emails : Known(e) /\ acct[e].active
                                  /\ (e = a \/ (acct[e].kind = "member" /\ acct[e].root = a))}

\* Mutant of HasSeat: the administrator's own seat is not counted.
HasMemberSeat(a) == Cardinality(ActiveUsers(a) \ {a}) < SeatLimit

HasSeat(a) == Cardinality(ActiveUsers(a)) < SeatLimit

Live(c) == regCode[c] # NoCode /\ regCode[c].state = "live"

\* Mutant of Consumable: a used code is taken once more.
ConsumableAgain(c, type) ==
    regCode[c] # NoCode /\ regCode[c].state # "expired" /\ (regCode[c].issued => type = "exclusive")

\* A code issued for a tier registers this tier only.
Consumable(c, type) == Live(c) /\ (regCode[c].issued => type = "exclusive")

IssuedTo(e) == {c \in RegCodes : regCode[c] # NoCode /\ regCode[c].issued /\ regCode[c].for = e}
CodeHeld(c) == \E t \in Threads : reg[t] # NoReg /\ reg[t].with = c /\ "code" \in reg[t].holds
RowHeld(e) == \E t \in Threads : reg[t] # NoReg /\ reg[t].email = e /\ "row" \in reg[t].holds

-----------------------------------------------------------------------------
AcTypeOK ==
    /\ acct \in [Emails -> AcRows \cup {NoOwner}]
    /\ \A e \in Emails : (Known(e) /\ acct[e].kind # "member") => acct[e].root = e
    /\ regCode \in [RegCodes -> RegCodeRows \cup {NoCode}]
    /\ invite \in [QrInvites -> InviteRows \cup {NoInvite}]
    /\ reg \in [Threads -> Requests \cup {NoReg}]
    /\ \A t \in Threads :
           (reg[t] # NoReg /\ "row" \in reg[t].holds /\ reg[t].kind # "login") => ~Known(reg[t].email)
    /\ stuck \in BOOLEAN
    /\ admitted \in [RegCodes \cup QrInvites -> Nat]
    /\ excused \subseteq Emails

AcInit ==
    /\ acct = [e \in Emails |-> NoOwner]
    /\ regCode = [c \in RegCodes |-> NoCode]
    /\ invite = [i \in QrInvites |-> NoInvite]
    /\ reg = [t \in Threads |-> NoReg]
    /\ stuck = FALSE
    /\ admitted = [x \in RegCodes \cup QrInvites |-> 0]
    /\ excused = {}

-----------------------------------------------------------------------------
(* Codes and invites *)

\* GET /utils/registration-code and GET /owners/registration-code
MintCode(c) ==
    /\ ~stuck /\ regCode[c] = NoCode
    /\ regCode' = [regCode EXCEPT ![c] = [issued |-> FALSE, for |-> NoOwner, state |-> "live"]]
    /\ UNCHANGED <<acct, invite, reg, stuck, admitted, excused>>

\* POST /utils/registration-code/issue: the code follows from the address and the tier,
\* so a second request brings the same row back to life.  Only the exclusive tier is issued.
IssueCode(c, e) ==
    /\ ~stuck /\ ~Known(e)
    /\ IF IssuedTo(e) = {} THEN regCode[c] = NoCode ELSE c \in IssuedTo(e) /\ regCode[c].state # "used"
    /\ IF CodeHeld(c) THEN stuck' = TRUE /\ UNCHANGED regCode
       ELSE /\ regCode' = [regCode EXCEPT ![c] = [issued |-> TRUE, for |-> e, state |-> "live"]]
            /\ UNCHANGED stuck
    /\ UNCHANGED <<acct, invite, reg, admitted, excused>>

ExpireCode(c) ==
    /\ Live(c) /\ ~CodeHeld(c)
    /\ regCode' = [regCode EXCEPT ![c].state = "expired"]
    /\ UNCHANGED <<acct, invite, reg, stuck, admitted, excused>>

\* POST /utils/qr/generate
GenerateInvite(a, i) ==
    /\ ~stuck /\ invite[i] = NoInvite
    /\ (IF a = System THEN TRUE ELSE Administrator(a) /\ HasSeat(a))
    /\ invite' = [invite EXCEPT ![i] = [by |-> a, used |-> FALSE, expired |-> FALSE]]
    /\ UNCHANGED <<acct, regCode, reg, stuck, admitted, excused>>

ExpireInvite(i) ==
    /\ invite[i] # NoInvite /\ ~invite[i].expired
    /\ invite' = [invite EXCEPT ![i].expired = TRUE]
    /\ UNCHANGED <<acct, regCode, reg, stuck, admitted, excused>>

-----------------------------------------------------------------------------
(* On the event loop *)

NewAccount(e, kind, root) ==
    acct' = [acct EXCEPT ![e] = [kind |-> kind, root |-> root, active |-> TRUE]]

\* History: a's account gets a member while a request that passed CheckSeat is under way.
Overlapping(a, t) ==
    IF \E u \in Threads \ {t} : reg[u] # NoReg /\ reg[u].kind = "member" /\ reg[u].under = a /\ reg[u].at # "seat"
    THEN excused \cup {a} ELSE excused

\* A route that needs a row of a thread's transaction waits, and the event loop with it.
WaitsOrElse(held, A) == IF held THEN stuck' = TRUE /\ UNCHANGED <<acct, regCode, invite, admitted>>
                        ELSE A /\ UNCHANGED stuck

\* POST /owners/register of an administrator, with a code or with the tier code FREE.
RegisterWithCode(e, c, type) ==
    /\ ~stuck /\ ~Known(e)
    /\ (c # NoCode => CodeHeld(c) \/ Consumable(c, type))
    /\ WaitsOrElse((c # NoCode /\ CodeHeld(c)) \/ RowHeld(e),
           /\ NewAccount(e, "administrator", e)
           /\ regCode' = IF c = NoCode THEN regCode ELSE [regCode EXCEPT ![c].state = "used"]
           /\ admitted' = IF c = NoCode THEN admitted ELSE [admitted EXCEPT ![c] = @ + 1]
           /\ UNCHANGED invite)
    /\ UNCHANGED <<reg, excused>>

\* POST /owners/register of a member of a's account, or of somebody alone.
RegisterUser(e, kind, a) ==
    /\ ~stuck /\ ~Known(e)
    /\ \/ kind = "member" /\ Administrator(a) /\ HasSeat(a)
       \/ kind = "solo" /\ a = e
    /\ WaitsOrElse(RowHeld(e),
           NewAccount(e, kind, a) /\ UNCHANGED <<regCode, invite, admitted>>)
    /\ excused' = IF kind = "member" THEN Overlapping(a, NoReg) ELSE excused
    /\ UNCHANGED reg

\* POST /utils/qr/join
JoinWithQr(e, i) ==
    /\ ~stuck /\ ~Known(e)
    /\ invite[i] # NoInvite /\ ~invite[i].used /\ ~invite[i].expired
    /\ (IF invite[i].by = System THEN TRUE ELSE Administrator(invite[i].by) /\ HasSeat(invite[i].by))
    /\ WaitsOrElse(RowHeld(e),
           /\ IF invite[i].by = System THEN NewAccount(e, "solo", e) ELSE NewAccount(e, "member", invite[i].by)
           /\ invite' = [invite EXCEPT ![i].used = TRUE]
           /\ admitted' = [admitted EXCEPT ![i] = @ + 1]
           /\ UNCHANGED regCode)
    /\ excused' = IF invite[i].by = System THEN excused ELSE Overlapping(invite[i].by, NoReg)
    /\ UNCHANGED reg

\* PATCH /owners/{id}: an administrator turns a user off, or on again whatever the seats.
SetActive(e, active) ==
    /\ ~stuck /\ Known(e) /\ Administrator(acct[e].root)
    /\ WaitsOrElse(RowHeld(e),
           acct' = [acct EXCEPT ![e].active = active] /\ UNCHANGED <<regCode, invite, admitted>>)
    /\ excused' = IF active /\ ~acct[e].active THEN excused \cup {acct[e].root} ELSE excused
    /\ UNCHANGED reg

-----------------------------------------------------------------------------
(* Mobile requests on threads *)

Start(t, request) ==
    /\ ~stuck /\ reg[t] = NoReg
    /\ reg' = [reg EXCEPT ![t] = request]
    /\ UNCHANGED <<acct, regCode, invite, stuck, admitted, excused>>

StartRegister(t, e, kind, a, c) ==
    /\ ~Known(e)
    /\ kind = "member" => Administrator(a)
    /\ kind # "member" => a = e
    /\ kind # "administrator" => c = NoCode
    /\ Start(t, [kind |-> kind, email |-> e, under |-> a, with |-> c, holds |-> {},
                 at |-> CASE kind = "administrator" -> "code" [] kind = "member" -> "seat" [] OTHER -> "insert"])

StartLogin(t, e) ==
    /\ Known(e) /\ acct[e].active
    /\ Start(t, [kind |-> "login", email |-> e, under |-> e, with |-> NoCode, holds |-> {}, at |-> "flush"])

\* The request of a thread reads or writes; meanwhile the event loop may run or wait.
Step(t, at, holds) ==
    /\ reg' = [reg EXCEPT ![t].at = at, ![t].holds = @ \cup holds]
    /\ UNCHANGED <<acct, regCode, invite, stuck, admitted, excused>>

\* UPDATE ... SET used = true WHERE used IS false: waits for the row if it is held.
ConsumeCode(t, type) ==
    /\ reg[t] # NoReg /\ reg[t].at = "code"
    /\ IF reg[t].with = NoCode THEN Step(t, "insert", {})
       ELSE /\ ~CodeHeld(reg[t].with)
            /\ IF Consumable(reg[t].with, type) THEN Step(t, "insert", {"code"}) ELSE Step(t, "failed", {})

CheckSeat(t) ==
    /\ reg[t] # NoReg /\ reg[t].at = "seat"
    /\ Step(t, IF Administrator(reg[t].under) /\ HasSeat(reg[t].under) THEN "insert" ELSE "failed", {})

\* The e-mail address is unique: an INSERT waits for one under way, and fails once it is there.
\* The row is held from here on, while the thread looks up the home address, to the commit.
InsertOwner(t) ==
    /\ reg[t] # NoReg /\ reg[t].at = "insert"
    /\ ~RowHeld(reg[t].email)
    /\ IF Known(reg[t].email) THEN Step(t, "failed", {}) ELSE Step(t, "done", {"row"})

\* A login writes the home coordinates of its owner.
FlushLogin(t) ==
    /\ reg[t] # NoReg /\ reg[t].at = "flush"
    /\ ~RowHeld(reg[t].email)
    /\ Step(t, "done", {"row"})

\* Back on the event loop: commit, or roll back what failed.
Finish(t) ==
    /\ ~stuck /\ reg[t] # NoReg /\ reg[t].at \in {"done", "failed"}
    /\ reg' = [reg EXCEPT ![t] = NoReg]
    /\ IF reg[t].at = "failed" \/ reg[t].kind = "login" THEN UNCHANGED <<acct, regCode, admitted>>
       ELSE /\ NewAccount(reg[t].email, reg[t].kind, reg[t].under)
            /\ IF reg[t].with = NoCode THEN UNCHANGED <<regCode, admitted>>
               ELSE /\ regCode' = [regCode EXCEPT ![reg[t].with].state = "used"]
                    /\ admitted' = [admitted EXCEPT ![reg[t].with] = @ + 1]
    /\ excused' = IF reg[t].at = "done" /\ reg[t].kind = "member" THEN Overlapping(reg[t].under, t) ELSE excused
    /\ UNCHANGED <<invite, stuck>>

\* The process ends: what is not committed is gone.
AcRestart ==
    /\ stuck \/ \E t \in Threads : reg[t] # NoReg
    /\ reg' = [t \in Threads |-> NoReg]
    /\ stuck' = FALSE
    /\ UNCHANGED <<acct, regCode, invite, admitted, excused>>

-----------------------------------------------------------------------------
AcNext ==
    \/ \E c \in RegCodes : MintCode(c) \/ ExpireCode(c) \/ \E e \in Emails : IssueCode(c, e)
    \/ \E i \in QrInvites :
        ExpireInvite(i) \/ (\E a \in Emails \cup {System} : GenerateInvite(a, i)) \/ \E e \in Emails : JoinWithQr(e, i)
    \/ \E e \in Emails :
        \/ \E c \in RegCodes \cup {NoCode}, type \in AdminTypes : RegisterWithCode(e, c, type)
        \/ \E a \in Emails, kind \in {"member", "solo"} : RegisterUser(e, kind, a)
        \/ \E active \in BOOLEAN : SetActive(e, active)
    \/ \E t \in Threads :
        \/ \E e, a \in Emails, kind \in {"administrator", "member", "solo"}, c \in RegCodes \cup {NoCode} :
               StartRegister(t, e, kind, a, c)
        \/ \E e \in Emails : StartLogin(t, e)
        \/ \E type \in AdminTypes : ConsumeCode(t, type)
        \/ CheckSeat(t) \/ InsertOwner(t) \/ FlushLogin(t) \/ Finish(t)
    \/ AcRestart

AcSpec == AcInit /\ [][AcNext]_acVars

-----------------------------------------------------------------------------
(* Properties *)

\* A single-use code registers one administrator, and an invite one account, however
\* web and mobile requests, waits, failures and restarts overlap.
AdmitsOnce == \A x \in RegCodes \cup QrInvites : admitted[x] <= 1

\* Seats are oversold only by requests on threads that overlap with another admission to the
\* same account, or by making a member active again: nothing else exceeds the plan.
SeatsOversoldByOverlap ==
    \A a \in Emails : (Administrator(a) /\ a \notin excused) => Cardinality(ActiveUsers(a)) <= SeatLimit

\* "So the event loop stays responsive for other concurrent requests": no route waits on it.
LoopKeepsRunning == ~stuck
=============================================================================
