--------------------------- MODULE Accounts_proofs ---------------------------
(* Proofs about Accounts, for any addresses, codes, invites, seats and threads. *)
EXTENDS Accounts, FiniteSetTheorems, TLAPS

CodesTyped ==
    /\ regCode \in [RegCodes -> RegCodeRows \cup {NoCode}]
    /\ invite \in [QrInvites -> InviteRows \cup {NoInvite}]
    /\ reg \in [Threads -> Requests \cup {NoReg}]
    /\ admitted \in [RegCodes \cup QrInvites -> Nat]

Holds(t, c) == reg[t] # NoReg /\ reg[t].with = c /\ "code" \in reg[t].holds

\* The row of a code is held by one transaction, which read it live.
HeldIsLive == \A c \in RegCodes, t \in Threads : Holds(t, c) => Live(c)
OneHolder == \A c \in RegCodes, t, u \in Threads : Holds(t, c) /\ Holds(u, c) => t = u

\* A request that has passed its code still holds it.
WriterHolds ==
    \A t \in Threads :
        (reg[t] # NoReg /\ reg[t].with # NoCode /\ reg[t].at \notin {"code", "failed"})
            => "code" \in reg[t].holds

UsedCode(c) == regCode[c] # NoCode /\ regCode[c].state = "used"
UsedInvite(i) == invite[i] # NoInvite /\ invite[i].used

\* Only what is marked used has admitted anybody, and then one account.
CountedIsUsed ==
    /\ \A c \in RegCodes : admitted[c] \in (IF UsedCode(c) THEN {0, 1} ELSE {0})
    /\ \A i \in QrInvites : admitted[i] \in (IF UsedInvite(i) THEN {0, 1} ELSE {0})

\* AdmitsOnce is not inductive: a request counts its code at its commit, long after
\* it found the code live, and what happens in between must leave the code alone.
AcInv == CodesTyped /\ HeldIsLive /\ OneHolder /\ WriterHolds /\ CountedIsUsed

------------------------------------------------------------------------------
LEMMA AcInitInv == AcInit => AcInv
BY AccountsConstantsOK, AccountsNullsOK
   DEF AcInit, AcInv, CodesTyped, HeldIsLive, OneHolder, WriterHolds, CountedIsUsed,
       UsedCode, UsedInvite, Holds

\* Steps that leave codes, invites, requests and counts alone.
LEMMA AcStutter ==
  ASSUME AcInv, UNCHANGED <<regCode, invite, reg, admitted>>
  PROVE  AcInv'
BY DEF AcInv, CodesTyped, HeldIsLive, OneHolder, WriterHolds, CountedIsUsed,
       UsedCode, UsedInvite, Holds, Live

\* A code that nobody holds is written, and was not used unless it stays so.
LEMMA WriteCode ==
  ASSUME AcInv, NEW c \in RegCodes, NEW row \in RegCodeRows, ~CodeHeld(c),
         regCode' = [regCode EXCEPT ![c] = row],
         UNCHANGED <<invite, reg>>,
         \/ admitted' = admitted /\ ~UsedCode(c) /\ row.state # "used"
         \/ admitted' = [admitted EXCEPT ![c] = @ + 1] /\ ~UsedCode(c) /\ row.state = "used"
  PROVE  AcInv'
<1> USE AccountsConstantsOK, AccountsNullsOK
<1>1. /\ regCode'[c] = row /\ row # NoCode
      /\ \A d \in RegCodes \ {c} : regCode'[d] = regCode[d]
      /\ regCode' \in [RegCodes -> RegCodeRows \cup {NoCode}]
  BY DEF AcInv, CodesTyped
<1>2. admitted[c] = 0
  BY DEF AcInv, CountedIsUsed
<1>3. /\ admitted' \in [RegCodes \cup QrInvites -> Nat]
      /\ \A x \in (RegCodes \cup QrInvites) \ {c} : admitted'[x] = admitted[x]
      /\ admitted'[c] \in (IF row.state = "used" THEN {0, 1} ELSE {0})
  BY <1>2 DEF AcInv, CodesTyped
<1>4. CodesTyped'
  BY <1>1, <1>3 DEF AcInv, CodesTyped
<1>5. \A t \in Threads : ~Holds(t, c)
  BY DEF CodeHeld, Holds
<1>6. HeldIsLive'
  BY <1>1, <1>5 DEF AcInv, HeldIsLive, Holds, Live
<1>7. OneHolder' /\ WriterHolds'
  BY DEF AcInv, OneHolder, WriterHolds, Holds
<1>8. CountedIsUsed'
  BY <1>1, <1>3 DEF AcInv, CountedIsUsed, UsedCode, UsedInvite
<1> QED
  BY <1>4, <1>6, <1>7, <1>8 DEF AcInv

LEMMA CodeInv ==
  ASSUME AcInv, NEW c \in RegCodes,
         MintCode(c) \/ ExpireCode(c) \/ \E e \in Emails : IssueCode(c, e)
  PROVE  AcInv'
<1> USE AccountsConstantsOK, AccountsNullsOK
<1>1. ASSUME regCode[c] = NoCode PROVE ~CodeHeld(c) /\ ~UsedCode(c)
  BY <1>1 DEF AcInv, HeldIsLive, Live, CodeHeld, Holds, UsedCode
<1>2. CASE MintCode(c)
  <2> DEFINE row == [issued |-> FALSE, for |-> NoOwner, state |-> "live"]
  <2>1. row \in RegCodeRows /\ row.state # "used"
    BY DEF RegCodeRows
  <2> QED
    BY <1>1, <1>2, <2>1, WriteCode DEF MintCode
<1>3. CASE ExpireCode(c)
  <2> DEFINE row == [regCode[c] EXCEPT !.state = "expired"]
  <2>1. regCode[c] \in RegCodeRows
    BY <1>3 DEF ExpireCode, Live, AcInv, CodesTyped
  <2>2. row \in RegCodeRows /\ row.state # "used"
    BY <2>1 DEF RegCodeRows
  <2>3. regCode' = [regCode EXCEPT ![c] = row]
    BY <1>3 DEF ExpireCode
  <2> QED
    BY <1>3, <2>2, <2>3, WriteCode DEF ExpireCode, Live, UsedCode
<1>4. CASE \E e \in Emails : IssueCode(c, e)
  <2>1. PICK e \in Emails : IssueCode(c, e)
    BY <1>4
  <2> DEFINE row == [issued |-> TRUE, for |-> e, state |-> "live"]
  <2>2. row \in RegCodeRows /\ row.state # "used"
    BY DEF RegCodeRows
  <2>3. ~UsedCode(c)
    BY <1>1, <2>1 DEF IssueCode, UsedCode
  <2>4. CASE CodeHeld(c)
    BY <2>1, <2>4, AcStutter DEF IssueCode
  <2>5. CASE ~CodeHeld(c)
    <3>1. /\ regCode' = [regCode EXCEPT ![c] = row]
          /\ UNCHANGED <<invite, reg, admitted>>
      BY <2>1, <2>5 DEF IssueCode
    <3> QED
      BY <2>2, <2>3, <2>5, <3>1, WriteCode
  <2> QED
    BY <2>4, <2>5
<1> QED
  BY <1>2, <1>3, <1>4

LEMMA InviteInv ==
  ASSUME AcInv, NEW i \in QrInvites,
         \/ ExpireInvite(i)
         \/ \E a \in Emails \cup {System} : GenerateInvite(a, i)
         \/ \E e \in Emails : JoinWithQr(e, i)
  PROVE  AcInv'
<1> USE AccountsConstantsOK, AccountsNullsOK
<1>1. ASSUME NEW row \in InviteRows, invite' = [invite EXCEPT ![i] = row],
             UNCHANGED <<regCode, reg>>,
             \/ admitted' = admitted /\ (UsedInvite(i) <=> row.used)
             \/ admitted' = [admitted EXCEPT ![i] = @ + 1] /\ ~UsedInvite(i) /\ row.used
      PROVE  AcInv'
  <2>1. /\ invite'[i] = row /\ row # NoInvite
        /\ \A j \in QrInvites \ {i} : invite'[j] = invite[j]
        /\ invite' \in [QrInvites -> InviteRows \cup {NoInvite}]
    BY <1>1 DEF AcInv, CodesTyped
  <2>2. admitted[i] \in (IF UsedInvite(i) THEN {0, 1} ELSE {0})
    BY DEF AcInv, CountedIsUsed
  <2>3. /\ admitted' \in [RegCodes \cup QrInvites -> Nat]
        /\ \A x \in (RegCodes \cup QrInvites) \ {i} : admitted'[x] = admitted[x]
        /\ admitted'[i] \in (IF row.used THEN {0, 1} ELSE {0})
    BY <1>1, <2>2 DEF AcInv, CodesTyped
  <2>4. CodesTyped' /\ HeldIsLive' /\ OneHolder' /\ WriterHolds'
    BY <1>1, <2>1, <2>3 DEF AcInv, CodesTyped, HeldIsLive, OneHolder, WriterHolds, Holds, Live
  <2>5. CountedIsUsed'
    BY <1>1, <2>1, <2>3 DEF AcInv, CountedIsUsed, UsedCode, UsedInvite
  <2> QED
    BY <2>4, <2>5 DEF AcInv
<1>2. CASE ExpireInvite(i)
  <2> DEFINE row == [invite[i] EXCEPT !.expired = TRUE]
  <2>1. invite[i] \in InviteRows
    BY <1>2 DEF ExpireInvite, AcInv, CodesTyped
  <2>2. row \in InviteRows /\ row.used = invite[i].used
    BY <2>1 DEF InviteRows
  <2>3. invite' = [invite EXCEPT ![i] = row]
    BY <1>2 DEF ExpireInvite
  <2>4. UsedInvite(i) <=> invite[i].used
    BY <1>2 DEF ExpireInvite, UsedInvite
  <2>5. UNCHANGED <<regCode, reg, admitted>>
    BY <1>2 DEF ExpireInvite
  <2> HIDE DEF row
  <2> QED
    BY <1>1, <2>2, <2>3, <2>4, <2>5
<1>3. CASE \E a \in Emails \cup {System} : GenerateInvite(a, i)
  <2>1. PICK a \in Emails \cup {System} : GenerateInvite(a, i)
    BY <1>3
  <2> DEFINE row == [by |-> a, used |-> FALSE, expired |-> FALSE]
  <2>2. row \in InviteRows /\ ~row.used
    BY DEF InviteRows
  <2>3. invite' = [invite EXCEPT ![i] = row] /\ UNCHANGED <<regCode, reg, admitted>>
    BY <2>1 DEF GenerateInvite
  <2>4. ~UsedInvite(i)
    BY <2>1 DEF GenerateInvite, UsedInvite
  <2> HIDE DEF row
  <2> QED
    BY <1>1, <2>2, <2>3, <2>4
<1>4. CASE \E e \in Emails : JoinWithQr(e, i)
  <2>1. PICK e \in Emails : JoinWithQr(e, i)
    BY <1>4
  <2> DEFINE row == [invite[i] EXCEPT !.used = TRUE]
  <2>2. invite[i] \in InviteRows /\ ~UsedInvite(i)
    BY <2>1 DEF JoinWithQr, AcInv, CodesTyped, UsedInvite
  <2>3. row \in InviteRows /\ row.used
    BY <2>2 DEF InviteRows
  <2>4. CASE RowHeld(e)
    BY <2>1, <2>4, AcStutter DEF JoinWithQr, WaitsOrElse
  <2>5. CASE ~RowHeld(e)
    <3>1. /\ invite' = [invite EXCEPT ![i] = row]
          /\ admitted' = [admitted EXCEPT ![i] = @ + 1]
          /\ UNCHANGED <<regCode, reg>>
      BY <2>1, <2>5 DEF JoinWithQr, WaitsOrElse
    <3> HIDE DEF row
    <3> QED
      BY <1>1, <2>2, <2>3, <3>1
  <2> QED
    BY <2>4, <2>5
<1> QED
  BY <1>2, <1>3, <1>4

\* On the event loop; a row that a thread holds makes the route wait.
LEMMA LoopInv ==
  ASSUME AcInv, NEW e \in Emails,
         \/ \E c \in RegCodes \cup {NoCode}, type \in AdminTypes : RegisterWithCode(e, c, type)
         \/ \E a \in Emails, kind \in {"member", "solo"} : RegisterUser(e, kind, a)
         \/ \E active \in BOOLEAN : SetActive(e, active)
  PROVE  AcInv'
<1> USE AccountsConstantsOK, AccountsNullsOK DEF WaitsOrElse
<1>1. CASE \E c \in RegCodes \cup {NoCode}, type \in AdminTypes : RegisterWithCode(e, c, type)
  <2>1. PICK c \in RegCodes \cup {NoCode}, type \in AdminTypes : RegisterWithCode(e, c, type)
    BY <1>1
  <2> DEFINE held == (c # NoCode /\ CodeHeld(c)) \/ RowHeld(e)
  <2>2. CASE held \/ c = NoCode
    BY <2>1, <2>2, AcStutter DEF RegisterWithCode
  <2>3. CASE ~held /\ c # NoCode
    <3> DEFINE row == [regCode[c] EXCEPT !.state = "used"]
    <3>1. Live(c) /\ ~CodeHeld(c) /\ c \in RegCodes
      BY <2>1, <2>3 DEF RegisterWithCode, Consumable
    <3>2. regCode[c] \in RegCodeRows /\ ~UsedCode(c)
      BY <3>1 DEF Live, UsedCode, AcInv, CodesTyped
    <3>3. row \in RegCodeRows /\ row.state = "used"
      BY <3>2 DEF RegCodeRows
    <3>4. /\ regCode' = [regCode EXCEPT ![c] = row]
          /\ admitted' = [admitted EXCEPT ![c] = @ + 1]
          /\ UNCHANGED <<invite, reg>>
      BY <2>1, <2>3 DEF RegisterWithCode
    <3> HIDE DEF row
    <3> QED
      BY <3>1, <3>2, <3>3, <3>4, WriteCode
  <2> QED
    BY <2>2, <2>3
<1>2. CASE \E a \in Emails, kind \in {"member", "solo"} : RegisterUser(e, kind, a)
  BY <1>2, AcStutter DEF RegisterUser
<1>3. CASE \E active \in BOOLEAN : SetActive(e, active)
  BY <1>3, AcStutter DEF SetActive
<1> QED
  BY <1>1, <1>2, <1>3

------------------------------------------------------------------------------
(* Requests on threads *)

\* A thread moves on without a commit: it takes a code only if it is live and free.
LEMMA ThreadInv ==
  ASSUME AcInv, NEW t \in Threads, NEW new \in Requests \cup {NoReg},
         reg' = [reg EXCEPT ![t] = new], UNCHANGED <<regCode, invite, admitted>>,
         new # NoReg => \A c \in RegCodes :
             (new.with = c /\ "code" \in new.holds) => Holds(t, c) \/ (Live(c) /\ ~CodeHeld(c)),
         (new # NoReg /\ new.with # NoCode /\ new.at \notin {"code", "failed"}) => "code" \in new.holds
  PROVE  AcInv'
<1>1. /\ reg' \in [Threads -> Requests \cup {NoReg}]
      /\ reg'[t] = new
      /\ \A u \in Threads \ {t} : reg'[u] = reg[u]
  BY DEF AcInv, CodesTyped
<1>2. ASSUME NEW c \in RegCodes, Holds(t, c)' PROVE Holds(t, c) \/ (Live(c) /\ ~CodeHeld(c))
  BY <1>1, <1>2 DEF Holds
<1>3. \A c \in RegCodes, u \in Threads \ {t} : Holds(u, c)' <=> Holds(u, c)
  BY <1>1 DEF Holds
<1>4. \A c \in RegCodes, u \in Threads : Holds(u, c) => CodeHeld(c)
  BY DEF Holds, CodeHeld
<1>5. CodesTyped'
  BY <1>1 DEF AcInv, CodesTyped
<1>6. HeldIsLive'
  <2>1. \A c \in RegCodes : Live(c)' <=> Live(c)
    BY DEF Live
  <2> QED
    BY <1>2, <1>3, <2>1 DEF AcInv, HeldIsLive
<1>7. OneHolder'
  BY <1>2, <1>3, <1>4 DEF AcInv, OneHolder
<1>8. WriterHolds'
  BY <1>1 DEF AcInv, WriterHolds
<1>9. CountedIsUsed'
  BY DEF AcInv, CountedIsUsed, UsedCode, UsedInvite
<1> QED
  BY <1>5, <1>6, <1>7, <1>8, <1>9 DEF AcInv

LEMMA StartInv ==
  ASSUME AcInv, NEW t \in Threads,
         \/ \E e, a \in Emails, kind \in {"administrator", "member", "solo"}, c \in RegCodes \cup {NoCode} :
                StartRegister(t, e, kind, a, c)
         \/ \E e \in Emails : StartLogin(t, e)
  PROVE  AcInv'
<1> USE AccountsConstantsOK, AccountsNullsOK
<1>1. CASE \E e, a \in Emails, kind \in {"administrator", "member", "solo"}, c \in RegCodes \cup {NoCode} :
                StartRegister(t, e, kind, a, c)
  <2>1. PICK e \in Emails, a \in Emails, kind \in {"administrator", "member", "solo"},
             c \in RegCodes \cup {NoCode} : StartRegister(t, e, kind, a, c)
    BY <1>1
  <2> DEFINE at == CASE kind = "administrator" -> "code" [] kind = "member" -> "seat" [] OTHER -> "insert"
  <2> DEFINE new == [kind |-> kind, email |-> e, under |-> a, with |-> c, holds |-> {}, at |-> at]
  <2>2. at \in {"code", "seat", "insert"} /\ (kind = "administrator" => at = "code")
    OBVIOUS
  <2>3. reg' = [reg EXCEPT ![t] = new] /\ UNCHANGED <<regCode, invite, admitted>>
    BY <2>1 DEF StartRegister, Start
  <2>4. kind # "administrator" => c = NoCode
    BY <2>1 DEF StartRegister
  <2> HIDE DEF at
  <2>5. new \in Requests /\ new.with = c /\ new.holds = {} /\ new.at = at
    BY <2>2 DEF Requests
  <2> HIDE DEF new
  <2> QED
    BY <2>2, <2>3, <2>4, <2>5, ThreadInv
<1>2. CASE \E e \in Emails : StartLogin(t, e)
  <2>1. PICK e \in Emails : StartLogin(t, e)
    BY <1>2
  <2> DEFINE new == [kind |-> "login", email |-> e, under |-> e, with |-> NoCode, holds |-> {}, at |-> "flush"]
  <2>2. reg' = [reg EXCEPT ![t] = new] /\ UNCHANGED <<regCode, invite, admitted>>
    BY <2>1 DEF StartLogin, Start
  <2>3. new \in Requests /\ new.with = NoCode /\ new.holds = {}
    BY DEF Requests
  <2> HIDE DEF new
  <2> QED
    BY <2>2, <2>3, ThreadInv
<1> QED
  BY <1>1, <1>2

LEMMA StepInv ==
  ASSUME AcInv, NEW t \in Threads,
         \/ \E type \in AdminTypes : ConsumeCode(t, type)
         \/ CheckSeat(t) \/ InsertOwner(t) \/ FlushLogin(t)
  PROVE  AcInv'
<1> USE AccountsConstantsOK, AccountsNullsOK
<1>1. PICK at \in {"insert", "done", "failed"}, holds \in SUBSET {"code", "row"} :
        /\ reg[t] # NoReg
        /\ Step(t, at, holds)
        /\ "code" \in holds => Live(reg[t].with) /\ ~CodeHeld(reg[t].with)
        /\ (reg[t].at = "code" /\ at # "failed") => reg[t].with = NoCode \/ "code" \in holds
        /\ reg[t].at \in {"code", "seat", "insert", "flush"}
  <2>1. CASE \E type \in AdminTypes : ConsumeCode(t, type)
    BY <2>1 DEF ConsumeCode, Consumable
  <2>2. CASE CheckSeat(t)
    BY <2>2 DEF CheckSeat
  <2>3. CASE InsertOwner(t)
    BY <2>3 DEF InsertOwner
  <2>4. CASE FlushLogin(t)
    BY <2>4 DEF FlushLogin
  <2> QED
    BY <2>1, <2>2, <2>3, <2>4
<1> DEFINE new == [reg[t] EXCEPT !.at = at, !.holds = @ \cup holds]
<1>2. reg[t] \in Requests
  BY <1>1 DEF AcInv, CodesTyped
<1>3. /\ new \in Requests /\ new.with = reg[t].with /\ new.at = at
      /\ new.holds = reg[t].holds \cup holds
  BY <1>2 DEF Requests
<1>4. reg' = [reg EXCEPT ![t] = new] /\ UNCHANGED <<regCode, invite, admitted>>
  BY <1>1 DEF Step, AcInv, CodesTyped
<1> HIDE DEF new
<1>5. ASSUME NEW c \in RegCodes, new.with = c, "code" \in new.holds
      PROVE  Holds(t, c) \/ (Live(c) /\ ~CodeHeld(c))
  BY <1>1, <1>3, <1>5 DEF Holds
<1>6. ASSUME new.with # NoCode, new.at \notin {"code", "failed"}
      PROVE  "code" \in new.holds
  <2>1. CASE reg[t].at = "code"
    BY <1>1, <1>3, <1>6, <2>1
  <2>2. CASE reg[t].at # "code"
    BY <1>1, <1>3, <1>6, <2>2 DEF AcInv, WriterHolds
  <2> QED
    BY <2>1, <2>2
<1> QED
  BY <1>3, <1>4, <1>5, <1>6, ThreadInv

\* The commit: the code is still live, nobody else holds it, and it is used up.
LEMMA FinishInv ==
  ASSUME AcInv, NEW t \in Threads, Finish(t)
  PROVE  AcInv'
<1> USE AccountsConstantsOK, AccountsNullsOK
<1> DEFINE c == reg[t].with
<1> DEFINE commits == reg[t].at # "failed" /\ reg[t].kind # "login" /\ c # NoCode
<1>1. reg[t] \in Requests /\ reg[t].at \in {"done", "failed"}
  BY DEF Finish, AcInv, CodesTyped
<1>2. reg' = [reg EXCEPT ![t] = NoReg] /\ UNCHANGED invite
  BY DEF Finish
<1>3. CASE ~commits
  BY <1>2, <1>3, ThreadInv DEF Finish
<1>4. CASE commits
  <2> DEFINE row == [regCode[c] EXCEPT !.state = "used"]
  <2>1. c \in RegCodes /\ Holds(t, c)
    BY <1>1, <1>4 DEF Requests, AcInv, WriterHolds, Holds
  <2>2. Live(c) /\ regCode[c] \in RegCodeRows /\ ~UsedCode(c)
    BY <2>1 DEF AcInv, HeldIsLive, Live, CodesTyped, UsedCode
  <2>3. row \in RegCodeRows /\ row.state = "used" /\ row # NoCode
    BY <2>2 DEF RegCodeRows
  <2>4. regCode' = [regCode EXCEPT ![c] = row] /\ admitted' = [admitted EXCEPT ![c] = @ + 1]
    BY <1>1, <1>4 DEF Finish
  <2> HIDE DEF row, c, commits
  <2>5. /\ regCode'[c] = row /\ \A d \in RegCodes \ {c} : regCode'[d] = regCode[d]
        /\ regCode' \in [RegCodes -> RegCodeRows \cup {NoCode}]
    BY <2>1, <2>3, <2>4 DEF AcInv, CodesTyped
  <2>6. admitted[c] = 0
    BY <2>1, <2>2 DEF AcInv, CountedIsUsed
  <2>7. /\ admitted' \in [RegCodes \cup QrInvites -> Nat] /\ admitted'[c] = 1
        /\ \A x \in (RegCodes \cup QrInvites) \ {c} : admitted'[x] = admitted[x]
    BY <2>1, <2>4, <2>6 DEF AcInv, CodesTyped
  <2>8. /\ reg' \in [Threads -> Requests \cup {NoReg}] /\ reg'[t] = NoReg
        /\ \A u \in Threads \ {t} : reg'[u] = reg[u]
    BY <1>2 DEF AcInv, CodesTyped
  <2>9. CodesTyped'
    BY <1>2, <2>5, <2>7, <2>8 DEF AcInv, CodesTyped
  <2>10. \A d \in RegCodes, u \in Threads : Holds(u, d)' => u # t /\ Holds(u, d)
    BY <2>8 DEF Holds
  <2>11. HeldIsLive'
    <3>1. ASSUME NEW d \in RegCodes, NEW u \in Threads, Holds(u, d)'
          PROVE  Live(d)'
      <4>1. u # t /\ Holds(u, d) /\ Live(d)
        BY <2>10, <3>1 DEF AcInv, HeldIsLive
      <4>2. d # c
        BY <2>1, <4>1 DEF AcInv, OneHolder
      <4> QED
        BY <2>5, <4>1, <4>2 DEF Live
    <3> QED
      BY <3>1 DEF HeldIsLive
  <2>12. OneHolder' /\ WriterHolds'
    BY <2>8, <2>10 DEF AcInv, OneHolder, WriterHolds
  <2>13. CountedIsUsed'
    BY <1>2, <2>1, <2>3, <2>5, <2>7 DEF AcInv, CountedIsUsed, UsedCode, UsedInvite
  <2> QED
    BY <2>9, <2>11, <2>12, <2>13 DEF AcInv
<1> QED
  BY <1>3, <1>4

LEMMA RestartInv ==
  ASSUME AcInv, AcRestart
  PROVE  AcInv'
BY DEF AcRestart, AcInv, CodesTyped, HeldIsLive, OneHolder, WriterHolds, CountedIsUsed,
       UsedCode, UsedInvite, Holds, Live

LEMMA AcNextInv ==
  ASSUME AcInv, [AcNext]_acVars
  PROVE  AcInv'
<1>1. CASE UNCHANGED acVars
  BY <1>1, AcStutter DEF acVars
<1> QED
  BY <1>1, CodeInv, InviteInv, LoopInv, StartInv, StepInv, FinishInv, RestartInv DEF AcNext

LEMMA AcInductive == AcSpec => []AcInv
<1>1. AcInit => AcInv
  BY AcInitInv
<1>2. AcInv /\ [AcNext]_acVars => AcInv'
  BY AcNextInv
<1> QED
  BY <1>1, <1>2, PTL DEF AcSpec

------------------------------------------------------------------------------
\* A single-use code registers one administrator and an invite one account, however
\* many requests run on threads or on the event loop, wait, fail or are lost in a restart
\* (try_consume_registration_code, _consume_qr_registration).
THEOREM CodesAdmitOnce == AcSpec => []AdmitsOnce
<1>1. AcInv => AdmitsOnce
  BY DEF AcInv, CountedIsUsed, AdmitsOnce
<1> QED
  BY <1>1, AcInductive, PTL

------------------------------------------------------------------------------
(* Seats *)

AcctTyped ==
    /\ acct \in [Emails -> AcRows \cup {NoOwner}]
    /\ \A e \in Emails : (Known(e) /\ acct[e].kind # "member") => acct[e].root = e
    /\ stuck \in BOOLEAN
    /\ excused \subseteq Emails

\* A request that holds the row of a new account holds it alone, and nobody else makes
\* the account; what is ready to be committed holds its row.
HoldsRow(t) == reg[t] # NoReg /\ "row" \in reg[t].holds
RowsFit ==
    \A t \in Threads :
        /\ (reg[t] # NoReg /\ reg[t].at = "done") => "row" \in reg[t].holds
        /\ (reg[t] # NoReg /\ reg[t].at = "flush") => reg[t].kind = "login"
        /\ (HoldsRow(t) /\ reg[t].kind # "login") => ~Known(reg[t].email)
        /\ \A u \in Threads : (HoldsRow(t) /\ HoldsRow(u) /\ reg[t].email = reg[u].email) => t = u

\* Members, those there and those on the way, belong to an administrator.
Rooted ==
    /\ \A e \in Emails : (Known(e) /\ acct[e].kind = "member") => Administrator(acct[e].root)
    /\ \A t \in Threads : reg[t] # NoReg =>
           IF reg[t].kind = "member" THEN Administrator(reg[t].under) ELSE reg[t].under = reg[t].email

\* Thread t found a seat in a's account and has not given up.
Passed(t, a) ==
    reg[t] # NoReg /\ reg[t].kind = "member" /\ reg[t].under = a /\ reg[t].at \notin {"seat", "failed"}

\* The seat that a request found is still free when it commits, unless another request
\* or a member made active again came in between: then the account is excused.
SeatStillFree ==
    \A t \in Threads, a \in Emails : Passed(t, a) /\ a \notin excused => HasSeat(a)

\* SeatsOversoldByOverlap is not inductive: a seat is counted at CheckSeat and taken
\* at the commit.
SeatInv == AcctTyped /\ RowsFit /\ Rooted /\ SeatStillFree /\ SeatsOversoldByOverlap

LEMMA SeatsFinite ==
  ASSUME NEW a \in Emails
  PROVE  /\ IsFiniteSet(ActiveUsers(a)) /\ Cardinality(ActiveUsers(a)) \in Nat
         /\ ActiveUsers(a) \subseteq Emails
<1>1. ActiveUsers(a) \subseteq Emails
  BY DEF ActiveUsers
<1>2. IsFiniteSet(ActiveUsers(a))
  BY <1>1, FS_Subset, AccountsConstantsOK
<1> QED
  BY <1>1, <1>2, FS_CardinalityType

\* What may become of an account that is not excused: it loses users, or it is new, or
\* it gets one into a free seat that no other request counts on.
LEMMA SeatsKept ==
  ASSUME SeatInv, AcctTyped', Rooted', excused \subseteq excused',
         \A a \in Emails \ excused' : Administrator(a)' =>
            \/ /\ Administrator(a) /\ ActiveUsers(a)' \subseteq ActiveUsers(a)
               /\ \A t \in Threads : Passed(t, a)' => Passed(t, a) \/ HasSeat(a)
            \/ /\ ActiveUsers(a)' = {a} \/ (HasSeat(a) /\ \E e \in Emails : ActiveUsers(a)' = ActiveUsers(a) \cup {e})
               /\ \A t \in Threads : ~Passed(t, a)'
  PROVE  SeatStillFree' /\ SeatsOversoldByOverlap'
<1>1. ASSUME NEW a \in Emails, Administrator(a)', a \notin excused'
      PROVE  /\ Cardinality(ActiveUsers(a)') <= SeatLimit
             /\ \A t \in Threads : Passed(t, a)' => Cardinality(ActiveUsers(a)') < SeatLimit
  <2>1. IsFiniteSet(ActiveUsers(a)) /\ Cardinality(ActiveUsers(a)) \in Nat
    BY SeatsFinite
  <2>2. SeatLimit \in Nat \ {0}
    BY AccountsConstantsOK
  <2>3. CASE /\ Administrator(a) /\ ActiveUsers(a)' \subseteq ActiveUsers(a)
             /\ \A t \in Threads : Passed(t, a)' => Passed(t, a) \/ HasSeat(a)
    <3>1. /\ Cardinality(ActiveUsers(a)') <= Cardinality(ActiveUsers(a))
          /\ Cardinality(ActiveUsers(a)') \in Nat
      BY <2>1, <2>3, FS_Subset, FS_CardinalityType
    <3>2. a \notin excused
      BY <1>1
    <3>3. Cardinality(ActiveUsers(a)) <= SeatLimit
      BY <2>3, <3>2 DEF SeatInv, SeatsOversoldByOverlap
    <3>4. ASSUME NEW t \in Threads, Passed(t, a)' PROVE HasSeat(a)
      BY <2>3, <3>2, <3>4 DEF SeatInv, SeatStillFree
    <3> QED
      BY <2>1, <2>2, <3>1, <3>3, <3>4 DEF HasSeat
  <2>4. CASE ActiveUsers(a)' = {a} /\ \A t \in Threads : ~Passed(t, a)'
    <3>1. Cardinality({a}) = 1
      BY FS_Singleton
    <3> QED
      BY <2>2, <2>4, <3>1
  <2>5. CASE /\ HasSeat(a) /\ \E e \in Emails : ActiveUsers(a)' = ActiveUsers(a) \cup {e}
             /\ \A t \in Threads : ~Passed(t, a)'
    <3>1. PICK e \in Emails : ActiveUsers(a)' = ActiveUsers(a) \cup {e}
      BY <2>5
    <3>2. \/ Cardinality(ActiveUsers(a) \cup {e}) = Cardinality(ActiveUsers(a))
          \/ Cardinality(ActiveUsers(a) \cup {e}) = Cardinality(ActiveUsers(a)) + 1
      BY <2>1, FS_AddElement
    <3> QED
      BY <2>1, <2>2, <2>5, <3>1, <3>2 DEF HasSeat
  <2> QED
    BY <1>1, <2>3, <2>4, <2>5
<1>2. SeatsOversoldByOverlap'
  BY <1>1 DEF SeatsOversoldByOverlap
<1>3. ASSUME NEW t \in Threads, NEW a \in Emails, Passed(t, a)', a \notin excused'
      PROVE  Cardinality(ActiveUsers(a)') < SeatLimit
  BY <1>1, <1>3 DEF Passed, Rooted
<1>4. SeatStillFree'
  BY <1>3 DEF SeatStillFree, HasSeat
<1> QED
  BY <1>2, <1>4

\* Requests end or go on as they were, and the accounts are left alone.
LEMMA SeatStutter ==
  ASSUME SeatInv, acct' = acct, stuck' \in BOOLEAN, excused \subseteq excused', excused' \subseteq Emails,
         \A t \in Threads : reg'[t] \in {reg[t], NoReg}
  PROVE  SeatInv'
<1>1. AcctTyped'
  BY DEF SeatInv, AcctTyped, Known
<1>2. \A a \in Emails : /\ Administrator(a)' <=> Administrator(a)
                        /\ Known(a)' <=> Known(a)
                        /\ ActiveUsers(a)' = ActiveUsers(a)
  BY DEF Administrator, Known, ActiveUsers
<1>3. \A t \in Threads : reg'[t] # NoReg => reg'[t] = reg[t]
  OBVIOUS
<1>4. RowsFit'
  BY <1>3 DEF SeatInv, RowsFit, HoldsRow, Known
<1>5. Rooted'
  BY <1>3 DEF SeatInv, Rooted, Known, Administrator
<1>6. \A t \in Threads, a \in Emails : Passed(t, a)' => Passed(t, a)
  BY <1>3 DEF Passed
<1>7. SeatStillFree' /\ SeatsOversoldByOverlap'
  BY <1>1, <1>2, <1>5, <1>6, SeatsKept
<1> QED
  BY <1>1, <1>4, <1>5, <1>7 DEF SeatInv

LEMMA RequestTyped ==
  ASSUME AcInv, NEW t \in Threads, reg[t] # NoReg
  PROVE  /\ reg[t] \in Requests /\ reg[t].under \in Emails /\ reg[t].email \in Emails
         /\ reg[t].kind \in {"administrator", "member", "solo", "login"}
<1>1. reg[t] \in Requests
  BY DEF AcInv, CodesTyped
<1> QED
  BY <1>1 DEF Requests

\* A new account, made by a web route or by the commit of a thread, whose address no
\* other request holds.  A member takes a free seat nobody else counts on, or the
\* account is excused.
LEMMA AdmitSeat ==
  ASSUME AcInv, SeatInv, NEW e \in Emails, NEW kind \in {"administrator", "member", "solo"}, NEW root \in Emails,
         NewAccount(e, kind, root), ~Known(e),
         IF kind = "member" THEN Administrator(root) ELSE root = e,
         stuck' \in BOOLEAN, excused \subseteq excused', excused' \subseteq Emails,
         \A t \in Threads : reg'[t] \in {reg[t], NoReg},
         \A t \in Threads : HoldsRow(t)' => reg'[t].email # e,
         (kind = "member" /\ root \notin excused') =>
             HasSeat(root) /\ \A t \in Threads : ~Passed(t, root)'
  PROVE  SeatInv'
<1> USE AccountsConstantsOK, AccountsNullsOK
<1> DEFINE row == [kind |-> kind, root |-> root, active |-> TRUE]
<1>1. row \in AcRows /\ row # NoOwner
  <2>1. row \in AcRows
    BY DEF AcRows
  <2> QED
    BY <2>1
<1>2. /\ acct' \in [Emails -> AcRows \cup {NoOwner}]
      /\ acct'[e] = row
      /\ \A x \in Emails \ {e} : acct'[x] = acct[x]
  BY <1>1 DEF NewAccount, SeatInv, AcctTyped
<1>3. row.kind = kind /\ row.root = root /\ row.active
  OBVIOUS
<1> HIDE DEF row
<1>4. AcctTyped'
  BY <1>1, <1>2, <1>3 DEF SeatInv, AcctTyped, Known
<1>5. \A a \in Emails : Administrator(a) =>
          acct'[a] # NoOwner /\ acct'[a].kind = "administrator" /\ a # e
  BY <1>2 DEF Administrator, Known
<1>6. \A t \in Threads : reg'[t] # NoReg => reg'[t] = reg[t]
  OBVIOUS
<1>7. RowsFit'
  <2>1. ASSUME NEW t \in Threads, reg'[t] # NoReg
        PROVE  /\ reg'[t].at = "done" => "row" \in reg'[t].holds
               /\ reg'[t].at = "flush" => reg'[t].kind = "login"
               /\ (HoldsRow(t)' /\ reg'[t].kind # "login") => acct'[reg'[t].email] = NoOwner
               /\ \A u \in Threads : (HoldsRow(t)' /\ HoldsRow(u)' /\ reg'[t].email = reg'[u].email) => t = u
    <3>1. reg'[t] = reg[t]
      BY <1>6, <2>1
    <3>2. \A u \in Threads : HoldsRow(u)' => HoldsRow(u) /\ reg'[u] = reg[u]
      BY <1>6 DEF HoldsRow
    <3>3. ASSUME HoldsRow(t)', reg'[t].kind # "login" PROVE acct'[reg'[t].email] = NoOwner
      <4>1. acct[reg[t].email] = NoOwner /\ reg[t].email # e
        BY <3>1, <3>2, <3>3 DEF SeatInv, RowsFit, Known
      <4> QED
        BY <3>1, <4>1 DEF NewAccount, SeatInv, AcctTyped
    <3> QED
      BY <2>1, <3>1, <3>2, <3>3 DEF SeatInv, RowsFit
  <2> QED
    BY <2>1 DEF RowsFit, HoldsRow, Known
<1>8. Rooted'
  <2>1. ASSUME NEW x \in Emails, acct'[x] # NoOwner, acct'[x].kind = "member"
        PROVE  acct'[acct'[x].root] # NoOwner /\ acct'[acct'[x].root].kind = "administrator"
    <3>1. CASE x = e
      BY <1>2, <1>3, <1>5, <2>1, <3>1
    <3>2. CASE x # e
      <4>1. Known(x) /\ acct[x].kind = "member" /\ acct'[x] = acct[x]
        BY <1>2, <2>1, <3>2 DEF Known
      <4>2. Administrator(acct[x].root) /\ acct[x].root \in Emails
        BY <4>1 DEF SeatInv, Rooted, AcctTyped, AcRows, Known
      <4> QED
        BY <1>5, <4>1, <4>2
    <3> QED
      BY <3>1, <3>2
  <2>2. ASSUME NEW t \in Threads, reg'[t] # NoReg, reg'[t].kind = "member"
        PROVE  acct'[reg'[t].under] # NoOwner /\ acct'[reg'[t].under].kind = "administrator"
    <3>1. reg'[t] = reg[t] /\ Administrator(reg[t].under)
      BY <1>6, <2>2 DEF SeatInv, Rooted
    <3>2. reg[t].under \in Emails
      BY <1>6, <2>2, RequestTyped
    <3> QED
      BY <1>5, <3>1, <3>2
  <2>3. ASSUME NEW t \in Threads, reg'[t] # NoReg, reg'[t].kind # "member"
        PROVE  reg'[t].under = reg'[t].email
    BY <1>6, <2>3 DEF SeatInv, Rooted
  <2> QED
    BY <2>1, <2>2, <2>3 DEF Rooted, Administrator, Known
<1>9. ASSUME NEW a \in Emails \ excused', Administrator(a)'
      PROVE  \/ /\ Administrator(a) /\ ActiveUsers(a)' \subseteq ActiveUsers(a)
                /\ \A t \in Threads : Passed(t, a)' => Passed(t, a) \/ HasSeat(a)
             \/ /\ ActiveUsers(a)' = {a} \/ (HasSeat(a) /\ \E x \in Emails : ActiveUsers(a)' = ActiveUsers(a) \cup {x})
                /\ \A t \in Threads : ~Passed(t, a)'
  <2>1. \A x \in Emails \ {e} : x \in ActiveUsers(a)' <=> x \in ActiveUsers(a)
    BY <1>2 DEF ActiveUsers, Known
  <2>2. /\ e \notin ActiveUsers(a) /\ ActiveUsers(a) \subseteq Emails
        /\ ActiveUsers(a)' \subseteq Emails
    BY DEF ActiveUsers
  <2>3. \A t \in Threads : Passed(t, a)' => Passed(t, a)
    BY <1>6 DEF Passed
  <2>4. CASE a = e
    <3>1. ~Administrator(e)
      BY DEF Administrator
    <3>2. ActiveUsers(e) = {}
      <4>1. ASSUME NEW x \in ActiveUsers(e) PROVE FALSE
        <5>1. x \in Emails /\ Known(x) /\ acct[x].kind = "member" /\ acct[x].root = e
          BY <2>4, <4>1 DEF ActiveUsers
        <5> QED
          BY <3>1, <5>1 DEF SeatInv, Rooted
      <4> QED
        BY <4>1
    <3>3. e \in ActiveUsers(e)'
      BY <1>1, <1>2, <1>3 DEF ActiveUsers, Known
    <3>4. ActiveUsers(a)' = {a}
      BY <2>1, <2>2, <2>4, <3>2, <3>3
    <3>5. ASSUME NEW t \in Threads, Passed(t, a)' PROVE FALSE
      BY <2>3, <2>4, <3>1, <3>5 DEF Passed, SeatInv, Rooted
    <3> QED
      BY <3>4, <3>5
  <2>5. CASE a # e /\ kind = "member" /\ root = a
    <3>1. e \in ActiveUsers(a)'
      BY <1>1, <1>2, <1>3, <2>5 DEF ActiveUsers, Known
    <3>2. ActiveUsers(a)' = ActiveUsers(a) \cup {e}
      BY <2>1, <2>2, <3>1
    <3> QED
      BY <1>9, <2>5, <3>2
  <2>6. CASE a # e /\ ~(kind = "member" /\ root = a)
    <3>1. e \notin ActiveUsers(a)'
      BY <1>2, <1>3, <2>6 DEF ActiveUsers, Known
    <3>2. Administrator(a)
      BY <1>2, <1>9, <2>6 DEF Administrator, Known
    <3> QED
      BY <2>1, <2>2, <2>3, <3>1, <3>2
  <2> QED
    BY <2>4, <2>5, <2>6
<1>10. SeatStillFree' /\ SeatsOversoldByOverlap'
  BY <1>4, <1>8, <1>9, SeatsKept
<1> QED
  BY <1>4, <1>7, <1>8, <1>10 DEF SeatInv

\* A thread moves on without a commit: it takes a row only if it is free, and the one of
\* an account only if there is none yet; it finds a seat only if there is one.
LEMMA ThreadSeat ==
  ASSUME AcInv, SeatInv, NEW t \in Threads, NEW new \in Requests,
         reg' = [reg EXCEPT ![t] = new], UNCHANGED <<acct, stuck, excused>>,
         new.at = "done" => "row" \in new.holds, new.at = "flush" => new.kind = "login",
         ("row" \in new.holds /\ new.kind # "login") => ~Known(new.email),
         "row" \in new.holds => (HoldsRow(t) /\ reg[t].email = new.email) \/ ~RowHeld(new.email),
         IF new.kind = "member" THEN Administrator(new.under) ELSE new.under = new.email,
         (new.kind = "member" /\ new.at \notin {"seat", "failed"}) =>
             Passed(t, new.under) \/ HasSeat(new.under)
  PROVE  SeatInv'
<1>1. reg'[t] = new /\ \A u \in Threads \ {t} : reg'[u] = reg[u]
  BY DEF AcInv, CodesTyped
<1>2. AcctTyped'
  BY DEF SeatInv, AcctTyped, Known
<1>3. \A a \in Emails : /\ Administrator(a)' <=> Administrator(a)
                        /\ ActiveUsers(a)' = ActiveUsers(a)
  BY DEF Administrator, Known, ActiveUsers
<1>4. RowsFit'
  <2>1. \A u \in Threads : HoldsRow(u) => RowHeld(reg[u].email)
    BY DEF HoldsRow, RowHeld
  <2>2. ASSUME NEW u \in Threads \ {t}, HoldsRow(u), "row" \in new.holds, reg[u].email = new.email
        PROVE  FALSE
    BY <2>1, <2>2 DEF SeatInv, RowsFit
  <2>3. ASSUME NEW u \in Threads
        PROVE  /\ (reg'[u] # NoReg /\ reg'[u].at = "done") => "row" \in reg'[u].holds
               /\ (reg'[u] # NoReg /\ reg'[u].at = "flush") => reg'[u].kind = "login"
               /\ (HoldsRow(u)' /\ reg'[u].kind # "login") => acct[reg'[u].email] = NoOwner
    <3>1. CASE u = t
      BY <1>1, <3>1 DEF HoldsRow, Known
    <3>2. CASE u # t
      BY <1>1, <3>2 DEF SeatInv, RowsFit, HoldsRow, Known
    <3> QED
      BY <3>1, <3>2
  <2>4. ASSUME NEW u \in Threads, NEW v \in Threads,
               HoldsRow(u)', HoldsRow(v)', reg'[u].email = reg'[v].email
        PROVE  u = v
    <3>1. CASE u = t /\ v # t
      BY <1>1, <2>2, <2>4, <3>1 DEF HoldsRow
    <3>2. CASE u # t /\ v = t
      BY <1>1, <2>2, <2>4, <3>2 DEF HoldsRow
    <3>3. CASE u # t /\ v # t
      BY <1>1, <2>4, <3>3 DEF HoldsRow, SeatInv, RowsFit
    <3> QED
      BY <3>1, <3>2, <3>3
  <2> QED
    BY <2>3, <2>4 DEF RowsFit, Known
<1>5. Rooted'
  <2>1. ASSUME NEW u \in Threads, reg'[u] # NoReg
        PROVE  IF reg'[u].kind = "member" THEN Administrator(reg'[u].under) ELSE reg'[u].under = reg'[u].email
    BY <1>1, <2>1 DEF SeatInv, Rooted
  <2> QED
    BY <2>1 DEF SeatInv, Rooted, Administrator, Known
<1>6. ASSUME NEW u \in Threads, NEW a \in Emails, Passed(u, a)'
      PROVE  Passed(u, a) \/ HasSeat(a)
  BY <1>1, <1>6 DEF Passed
<1>7. SeatStillFree' /\ SeatsOversoldByOverlap'
  BY <1>2, <1>3, <1>5, <1>6, SeatsKept
<1> QED
  BY <1>2, <1>4, <1>5, <1>7 DEF SeatInv

LEMMA CodesSeat ==
  ASSUME AcInv, SeatInv,
         \/ \E c \in RegCodes : MintCode(c) \/ ExpireCode(c) \/ \E e \in Emails : IssueCode(c, e)
         \/ \E i \in QrInvites : ExpireInvite(i) \/ \E a \in Emails \cup {System} : GenerateInvite(a, i)
  PROVE  SeatInv'
<1>1. acct' = acct /\ reg' = reg /\ excused' = excused /\ stuck' \in {stuck, TRUE}
  BY DEF MintCode, ExpireCode, IssueCode, ExpireInvite, GenerateInvite
<1>2. excused \subseteq Emails /\ stuck' \in BOOLEAN
  BY <1>1 DEF SeatInv, AcctTyped
<1> QED
  BY <1>1, <1>2, SeatStutter

\* Overlapping: once another request counts on a seat of a's account, the account is excused.
LEMMA OverlapExcuses ==
  ASSUME AcInv, NEW a \in Emails, NEW t
  PROVE  /\ excused \subseteq Overlapping(a, t)
         /\ excused \subseteq Emails => Overlapping(a, t) \subseteq Emails
         /\ a \notin Overlapping(a, t) => \A u \in Threads \ {t} : ~Passed(u, a)
<1>1. ASSUME NEW u \in Threads \ {t}, Passed(u, a)
      PROVE  a \in Overlapping(a, t)
  BY <1>1 DEF Overlapping, Passed
<1> QED
  BY <1>1 DEF Overlapping

\* A web route that makes an account, unless a thread holds the address and it waits.
LEMMA WebSeat ==
  ASSUME AcInv, SeatInv, NEW e \in Emails, NEW kind \in {"administrator", "member", "solo"}, NEW root \in Emails,
         ~Known(e), IF kind = "member" THEN Administrator(root) /\ HasSeat(root) ELSE root = e,
         excused' = IF kind = "member" THEN Overlapping(root, NoReg) ELSE excused,
         reg' = reg,
         \/ acct' = acct /\ stuck'
         \/ NewAccount(e, kind, root) /\ stuck' = stuck /\ ~RowHeld(e),
         stuck' \in BOOLEAN
  PROVE  SeatInv'
<1>1. excused \subseteq excused' /\ excused' \subseteq Emails
  BY OverlapExcuses DEF SeatInv, AcctTyped
<1>2. \A t \in Threads : reg'[t] \in {reg[t], NoReg}
  OBVIOUS
<1>3. CASE acct' = acct
  BY <1>1, <1>2, <1>3, SeatStutter
<1>4. CASE NewAccount(e, kind, root) /\ ~RowHeld(e)
  <2>1. \A t \in Threads : HoldsRow(t)' => reg'[t].email # e
    BY <1>4 DEF HoldsRow, RowHeld
  <2>2. ASSUME kind = "member", root \notin excused'
        PROVE  HasSeat(root) /\ \A t \in Threads : ~Passed(t, root)'
    <3>1. \A t \in Threads \ {NoReg} : ~Passed(t, root)
      BY <2>2, OverlapExcuses
    <3>2. \A t \in Threads : t # NoReg
      BY AccountsNullsOK
    <3> QED
      BY <2>2, <3>1, <3>2 DEF Passed
  <2>3. IF kind = "member" THEN Administrator(root) ELSE root = e
    OBVIOUS
  <2> QED
    BY <1>1, <1>2, <1>4, <2>1, <2>2, <2>3, AdmitSeat
<1> QED
  BY <1>3, <1>4

LEMMA RegisterSeat ==
  ASSUME AcInv, SeatInv, NEW e \in Emails,
         \/ \E c \in RegCodes \cup {NoCode}, type \in AdminTypes : RegisterWithCode(e, c, type)
         \/ \E a \in Emails, kind \in {"member", "solo"} : RegisterUser(e, kind, a)
         \/ \E i \in QrInvites : JoinWithQr(e, i)
  PROVE  SeatInv'
<1> USE DEF WaitsOrElse
<1>0. stuck \in BOOLEAN
  BY DEF SeatInv, AcctTyped
<1>1. CASE \E c \in RegCodes \cup {NoCode}, type \in AdminTypes : RegisterWithCode(e, c, type)
  <2>1. PICK c \in RegCodes \cup {NoCode}, type \in AdminTypes : RegisterWithCode(e, c, type)
    BY <1>1
  <2>2. ~Known(e) /\ reg' = reg /\ excused' = excused
    BY <2>1 DEF RegisterWithCode
  <2>3. /\ \/ acct' = acct /\ stuck'
           \/ NewAccount(e, "administrator", e) /\ stuck' = stuck /\ ~RowHeld(e)
        /\ stuck' \in BOOLEAN
    BY <1>0, <2>1 DEF RegisterWithCode
  <2> QED
    BY <2>2, <2>3, WebSeat
<1>2. CASE \E a \in Emails, kind \in {"member", "solo"} : RegisterUser(e, kind, a)
  <2>1. PICK a \in Emails, kind \in {"member", "solo"} : RegisterUser(e, kind, a)
    BY <1>2
  <2>2. /\ ~Known(e) /\ reg' = reg
        /\ excused' = IF kind = "member" THEN Overlapping(a, NoReg) ELSE excused
        /\ IF kind = "member" THEN Administrator(a) /\ HasSeat(a) ELSE a = e
    BY <2>1 DEF RegisterUser
  <2>3. /\ \/ acct' = acct /\ stuck'
           \/ NewAccount(e, kind, a) /\ stuck' = stuck /\ ~RowHeld(e)
        /\ stuck' \in BOOLEAN
    BY <1>0, <2>1 DEF RegisterUser
  <2> QED
    BY <2>2, <2>3, WebSeat
<1>3. CASE \E i \in QrInvites : JoinWithQr(e, i)
  <2>1. PICK i \in QrInvites : JoinWithQr(e, i)
    BY <1>3
  <2>2. ~Known(e) /\ reg' = reg
    BY <2>1 DEF JoinWithQr
  <2>3. CASE invite[i].by = System
    <3>1. excused' = excused
      BY <2>1, <2>3 DEF JoinWithQr
    <3>2. /\ \/ acct' = acct /\ stuck'
             \/ NewAccount(e, "solo", e) /\ stuck' = stuck /\ ~RowHeld(e)
          /\ stuck' \in BOOLEAN
      BY <1>0, <2>1, <2>3 DEF JoinWithQr
    <3> QED
      BY <2>2, <3>1, <3>2, WebSeat
  <2>4. CASE invite[i].by # System
    <3> DEFINE a == invite[i].by
    <3>1. a \in Emails
      BY <2>1, <2>4 DEF JoinWithQr, AcInv, CodesTyped, InviteRows
    <3>2. /\ Administrator(a) /\ HasSeat(a)
          /\ excused' = Overlapping(a, NoReg)
      BY <2>1, <2>4 DEF JoinWithQr
    <3>3. /\ \/ acct' = acct /\ stuck'
             \/ NewAccount(e, "member", a) /\ stuck' = stuck /\ ~RowHeld(e)
          /\ stuck' \in BOOLEAN
      BY <1>0, <2>1, <2>4 DEF JoinWithQr
    <3> HIDE DEF a
    <3> QED
      BY <2>2, <3>1, <3>2, <3>3, WebSeat
  <2> QED
    BY <2>3, <2>4
<1> QED
  BY <1>1, <1>2, <1>3

\* Turning a user on again takes a seat without asking, and excuses the account.
LEMMA ActiveSeat ==
  ASSUME AcInv, SeatInv, NEW e \in Emails, NEW active \in BOOLEAN, SetActive(e, active)
  PROVE  SeatInv'
<1> USE AccountsConstantsOK, AccountsNullsOK
<1>1. Known(e) /\ acct[e] \in AcRows /\ acct[e].root \in Emails
  BY DEF SetActive, Known, SeatInv, AcctTyped, AcRows
<1>2. excused \subseteq excused' /\ excused' \subseteq Emails
  BY <1>1 DEF SetActive, SeatInv, AcctTyped
<1>3. reg' = reg /\ stuck' \in BOOLEAN
  BY DEF SetActive, WaitsOrElse, SeatInv, AcctTyped
<1>4. CASE acct' = acct
  BY <1>2, <1>3, <1>4, SeatStutter
<1>5. CASE acct' # acct
  <2> DEFINE row == [acct[e] EXCEPT !.active = active]
  <2>1. row \in AcRows /\ row.kind = acct[e].kind /\ row.root = acct[e].root /\ row.active = active
    BY <1>1 DEF AcRows
  <2>2. acct' = [acct EXCEPT ![e] = row]
    BY <1>5 DEF SetActive, WaitsOrElse
  <2> HIDE DEF row
  <2>3. row # NoOwner
    BY <2>1
  <2>4. /\ acct' \in [Emails -> AcRows \cup {NoOwner}] /\ acct'[e] = row
        /\ \A x \in Emails \ {e} : acct'[x] = acct[x]
    BY <2>1, <2>2 DEF SeatInv, AcctTyped
  <2>5. \A x \in Emails : /\ Known(x)' <=> Known(x)
                          /\ Administrator(x)' <=> Administrator(x)
                          /\ Known(x) => acct'[x].kind = acct[x].kind /\ acct'[x].root = acct[x].root
    BY <1>1, <2>1, <2>3, <2>4 DEF Known, Administrator
  <2>6. AcctTyped'
    BY <1>2, <1>3, <2>4, <2>5 DEF SeatInv, AcctTyped
  <2>7. ASSUME NEW t \in Threads, reg[t] # NoReg
        PROVE  reg[t].email \in Emails /\ reg[t].under \in Emails
    BY <2>7, RequestTyped
  <2>8. RowsFit'
    BY <1>3, <2>5, <2>7 DEF SeatInv, RowsFit, HoldsRow, Known
  <2>9. Rooted'
    <3>1. ASSUME NEW x \in Emails, acct'[x] # NoOwner, acct'[x].kind = "member"
          PROVE  acct'[acct'[x].root] # NoOwner /\ acct'[acct'[x].root].kind = "administrator"
      <4>1. Known(x) /\ acct[x].kind = "member" /\ acct'[x].root = acct[x].root
        BY <2>5, <3>1 DEF Known
      <4>2. Administrator(acct[x].root) /\ acct[x].root \in Emails
        BY <4>1 DEF SeatInv, Rooted, AcctTyped, AcRows, Known
      <4> QED
        BY <2>5, <4>1, <4>2 DEF Administrator, Known
    <3>2. ASSUME NEW t \in Threads, reg[t] # NoReg
          PROVE  IF reg[t].kind = "member" THEN Administrator(reg[t].under)' ELSE reg[t].under = reg[t].email
      BY <1>3, <2>5, <2>7, <3>2 DEF SeatInv, Rooted, Administrator, Known
    <3> QED
      BY <1>3, <3>1, <3>2 DEF Rooted, Administrator, Known
  <2>10. ASSUME NEW a \in Emails \ excused', Administrator(a)'
         PROVE  ActiveUsers(a)' \subseteq ActiveUsers(a)
    <3>1. ASSUME NEW x \in Emails, x \in ActiveUsers(a)'
          PROVE  x \in ActiveUsers(a)
      <4>1. CASE x # e
        BY <2>4, <3>1, <4>1 DEF ActiveUsers, Known
      <4>2. CASE x = e
        <5>1. active /\ (e = a \/ (acct[e].kind = "member" /\ acct[e].root = a))
          BY <1>1, <2>1, <2>4, <3>1, <4>2 DEF ActiveUsers
        <5>2. acct[e].root = a
          BY <1>1, <2>5, <2>10, <5>1 DEF Administrator, SeatInv, AcctTyped
        <5>3. acct[e].active
          BY <2>10, <5>1, <5>2 DEF SetActive
        <5> QED
          BY <1>1, <4>2, <5>1, <5>3 DEF ActiveUsers
      <4> QED
        BY <4>1, <4>2
    <3> QED
      BY <3>1 DEF ActiveUsers
  <2>11. \A t \in Threads, a \in Emails : Passed(t, a)' => Passed(t, a)
    BY <1>3 DEF Passed
  <2>12. SeatStillFree' /\ SeatsOversoldByOverlap'
    BY <1>2, <2>5, <2>6, <2>9, <2>10, <2>11, SeatsKept
  <2> QED
    BY <2>6, <2>8, <2>9, <2>12 DEF SeatInv
<1> QED
  BY <1>4, <1>5

LEMMA StartSeat ==
  ASSUME AcInv, SeatInv, NEW t \in Threads,
         \/ \E e, a \in Emails, kind \in {"administrator", "member", "solo"}, c \in RegCodes \cup {NoCode} :
                StartRegister(t, e, kind, a, c)
         \/ \E e \in Emails : StartLogin(t, e)
  PROVE  SeatInv'
<1>1. CASE \E e, a \in Emails, kind \in {"administrator", "member", "solo"}, c \in RegCodes \cup {NoCode} :
                StartRegister(t, e, kind, a, c)
  <2>1. PICK e \in Emails, a \in Emails, kind \in {"administrator", "member", "solo"},
             c \in RegCodes \cup {NoCode} : StartRegister(t, e, kind, a, c)
    BY <1>1
  <2> DEFINE at == CASE kind = "administrator" -> "code" [] kind = "member" -> "seat" [] OTHER -> "insert"
  <2> DEFINE new == [kind |-> kind, email |-> e, under |-> a, with |-> c, holds |-> {}, at |-> at]
  <2>2. at \in {"code", "seat", "insert"} /\ (kind = "member" => at = "seat")
    OBVIOUS
  <2>3. reg' = [reg EXCEPT ![t] = new] /\ UNCHANGED <<acct, stuck, excused>>
    BY <2>1 DEF StartRegister, Start
  <2>4. IF kind = "member" THEN Administrator(a) ELSE a = e
    BY <2>1 DEF StartRegister
  <2> HIDE DEF at
  <2>5. /\ new \in Requests /\ new.holds = {} /\ new.at = at
        /\ new.kind = kind /\ new.under = a /\ new.email = e
    BY <2>2 DEF Requests
  <2> HIDE DEF new
  <2> QED
    BY <2>2, <2>3, <2>4, <2>5, ThreadSeat
<1>2. CASE \E e \in Emails : StartLogin(t, e)
  <2>1. PICK e \in Emails : StartLogin(t, e)
    BY <1>2
  <2> DEFINE new == [kind |-> "login", email |-> e, under |-> e, with |-> NoCode, holds |-> {}, at |-> "flush"]
  <2>2. reg' = [reg EXCEPT ![t] = new] /\ UNCHANGED <<acct, stuck, excused>>
    BY <2>1 DEF StartLogin, Start
  <2>3. /\ new \in Requests /\ new.holds = {} /\ new.at = "flush" /\ new.kind = "login"
        /\ new.under = e /\ new.email = e
    BY DEF Requests
  <2> HIDE DEF new
  <2> QED
    BY <2>2, <2>3, ThreadSeat
<1> QED
  BY <1>1, <1>2

LEMMA StepSeat ==
  ASSUME AcInv, SeatInv, NEW t \in Threads,
         \/ \E type \in AdminTypes : ConsumeCode(t, type)
         \/ CheckSeat(t) \/ InsertOwner(t) \/ FlushLogin(t)
  PROVE  SeatInv'
<1>1. PICK at \in {"insert", "done", "failed"}, holds \in SUBSET {"code", "row"} :
        /\ reg[t] # NoReg
        /\ Step(t, at, holds)
        /\ at = "done" <=> "row" \in holds
        /\ "row" \in holds => ~RowHeld(reg[t].email)
        /\ ("row" \in holds /\ reg[t].at # "flush") => reg[t].at = "insert" /\ ~Known(reg[t].email)
        /\ (reg[t].at = "seat" /\ at # "failed") => HasSeat(reg[t].under)
        /\ reg[t].at \in {"code", "seat", "insert", "flush"}
  <2>1. CASE \E type \in AdminTypes : ConsumeCode(t, type)
    BY <2>1 DEF ConsumeCode
  <2>2. CASE CheckSeat(t)
    BY <2>2 DEF CheckSeat
  <2>3. CASE InsertOwner(t)
    BY <2>3 DEF InsertOwner
  <2>4. CASE FlushLogin(t)
    BY <2>4 DEF FlushLogin
  <2> QED
    BY <2>1, <2>2, <2>3, <2>4
<1> DEFINE new == [reg[t] EXCEPT !.at = at, !.holds = @ \cup holds]
<1>2. reg[t] \in Requests
  BY <1>1, RequestTyped
<1>3. /\ new \in Requests /\ new.at = at /\ new.holds = reg[t].holds \cup holds
      /\ new.kind = reg[t].kind /\ new.email = reg[t].email /\ new.under = reg[t].under
  BY <1>2 DEF Requests
<1>4. reg' = [reg EXCEPT ![t] = new] /\ UNCHANGED <<acct, stuck, excused>>
  BY <1>1 DEF Step, AcInv, CodesTyped
<1> HIDE DEF new
<1>5. IF new.kind = "member" THEN Administrator(new.under) ELSE new.under = new.email
  BY <1>1, <1>3 DEF SeatInv, Rooted
<1>6. ("row" \in new.holds /\ new.kind # "login") => ~Known(new.email)
  <2>1. CASE "row" \in reg[t].holds
    BY <1>1, <1>3, <2>1 DEF SeatInv, RowsFit, HoldsRow
  <2>2. CASE "row" \in holds /\ reg[t].at # "flush"
    BY <1>1, <1>3, <2>2
  <2>3. CASE reg[t].at = "flush"
    BY <1>1, <1>3, <2>3 DEF SeatInv, RowsFit
  <2> QED
    BY <1>3, <2>1, <2>2, <2>3
<1>7. "row" \in new.holds => (HoldsRow(t) /\ reg[t].email = new.email) \/ ~RowHeld(new.email)
  BY <1>1, <1>3 DEF HoldsRow
<1>8. (new.kind = "member" /\ new.at \notin {"seat", "failed"}) => Passed(t, new.under) \/ HasSeat(new.under)
  BY <1>1, <1>3 DEF Passed
<1>9. (new.at = "done" => "row" \in new.holds) /\ new.at # "flush"
  BY <1>1, <1>3
<1> QED
  BY <1>3, <1>4, <1>5, <1>6, <1>7, <1>8, <1>9, ThreadSeat

\* The commit of a thread: nobody else holds the address, and another request that
\* counts on a seat of the account excuses it.
LEMMA FinishSeat ==
  ASSUME AcInv, SeatInv, NEW t \in Threads, Finish(t)
  PROVE  SeatInv'
<1>1. PICK e \in Emails, kind \in {"administrator", "member", "solo", "login"}, root \in Emails :
        /\ reg[t] # NoReg /\ reg[t].at \in {"done", "failed"}
        /\ reg[t].email = e /\ reg[t].kind = kind /\ reg[t].under = root
  BY RequestTyped DEF Finish
<1>2. reg'[t] = NoReg /\ \A u \in Threads \ {t} : reg'[u] = reg[u]
  BY DEF Finish, AcInv, CodesTyped
<1>3. stuck' \in BOOLEAN
  BY DEF Finish, SeatInv, AcctTyped
<1>4. excused \subseteq excused' /\ excused' \subseteq Emails
  BY <1>1, OverlapExcuses DEF Finish, SeatInv, AcctTyped
<1>5. \A u \in Threads : reg'[u] \in {reg[u], NoReg}
  BY <1>2
<1>6. CASE reg[t].at = "failed" \/ kind = "login"
  <2>1. acct' = acct
    BY <1>1, <1>6 DEF Finish
  <2> QED
    BY <1>3, <1>4, <1>5, <2>1, SeatStutter
<1>7. CASE reg[t].at = "done" /\ kind # "login"
  <2>1. NewAccount(e, kind, root)
    BY <1>1, <1>7 DEF Finish
  <2>2. HoldsRow(t) /\ ~Known(e)
    BY <1>1, <1>7 DEF SeatInv, RowsFit, HoldsRow
  <2>3. IF kind = "member" THEN Administrator(root) ELSE root = e
    BY <1>1 DEF SeatInv, Rooted
  <2>4. ASSUME NEW u \in Threads, HoldsRow(u)' PROVE reg'[u].email # e
    <3>1. u # t /\ reg'[u] = reg[u] /\ HoldsRow(u)
      BY <1>2, <2>4 DEF HoldsRow
    <3> QED
      BY <1>1, <2>2, <3>1 DEF SeatInv, RowsFit
  <2>5. ASSUME kind = "member", root \notin excused'
        PROVE  HasSeat(root) /\ \A u \in Threads : ~Passed(u, root)'
    <3>1. excused' = Overlapping(root, t)
      BY <1>1, <1>7, <2>5 DEF Finish
    <3>2. \A u \in Threads \ {t} : ~Passed(u, root)
      BY <1>1, <2>5, <3>1, OverlapExcuses
    <3>3. Passed(t, root) /\ root \notin excused
      BY <1>1, <1>4, <1>7, <2>5 DEF Passed
    <3>4. HasSeat(root)
      BY <1>1, <3>3 DEF SeatInv, SeatStillFree
    <3> QED
      BY <1>2, <3>2, <3>4 DEF Passed
  <2>6. kind \in {"administrator", "member", "solo"}
    BY <1>1, <1>7
  <2> QED
    BY <1>1, <1>3, <1>4, <1>5, <2>1, <2>2, <2>3, <2>4, <2>5, <2>6, AdmitSeat
<1> QED
  BY <1>1, <1>6, <1>7

LEMMA SeatNext ==
  ASSUME AcInv, SeatInv, [AcNext]_acVars
  PROVE  SeatInv'
<1>0. stuck \in BOOLEAN /\ excused \subseteq Emails
  BY DEF SeatInv, AcctTyped
<1>1. CASE UNCHANGED acVars
  BY <1>0, <1>1, SeatStutter DEF acVars
<1>2. CASE AcRestart
  <2>1. \A t \in Threads : reg'[t] \in {reg[t], NoReg}
    BY <1>2 DEF AcRestart
  <2> QED
    BY <1>0, <1>2, <2>1, SeatStutter DEF AcRestart
<1>3. CASE \/ \E c \in RegCodes : MintCode(c) \/ ExpireCode(c) \/ \E e \in Emails : IssueCode(c, e)
           \/ \E i \in QrInvites : ExpireInvite(i) \/ \E a \in Emails \cup {System} : GenerateInvite(a, i)
  BY <1>3, CodesSeat
<1>4. CASE \/ \E i \in QrInvites, e \in Emails : JoinWithQr(e, i)
           \/ \E e \in Emails :
                \/ \E c \in RegCodes \cup {NoCode}, type \in AdminTypes : RegisterWithCode(e, c, type)
                \/ \E a \in Emails, kind \in {"member", "solo"} : RegisterUser(e, kind, a)
                \/ \E active \in BOOLEAN : SetActive(e, active)
  BY <1>4, RegisterSeat, ActiveSeat
<1>5. CASE \E t \in Threads :
                \/ \E e, a \in Emails, kind \in {"administrator", "member", "solo"}, c \in RegCodes \cup {NoCode} :
                       StartRegister(t, e, kind, a, c)
                \/ \E e \in Emails : StartLogin(t, e)
                \/ \E type \in AdminTypes : ConsumeCode(t, type)
                \/ CheckSeat(t) \/ InsertOwner(t) \/ FlushLogin(t) \/ Finish(t)
  BY <1>5, StartSeat, StepSeat, FinishSeat
<1> QED
  BY <1>1, <1>2, <1>3, <1>4, <1>5 DEF AcNext

LEMMA SeatInitInv == AcInit => SeatInv
<1> SUFFICES ASSUME AcInit PROVE SeatInv
  OBVIOUS
<1>1. AcctTyped /\ RowsFit /\ Rooted /\ SeatStillFree /\ SeatsOversoldByOverlap
  BY DEF AcInit, AcctTyped, RowsFit, Rooted, SeatStillFree, SeatsOversoldByOverlap, HoldsRow,
         Passed, Known, Administrator
<1> QED
  BY <1>1 DEF SeatInv

LEMMA SeatInductive == AcSpec => []SeatInv
<1>1. AcInit => SeatInv
  BY SeatInitInv
<1>2. AcInv /\ SeatInv /\ [AcNext]_acVars => SeatInv'
  BY SeatNext
<1> QED
  BY <1>1, <1>2, AcInductive, PTL DEF AcSpec

\* An account has more active users than its plan only after a request on a thread
\* overlapped with another admission to it, or a member was made active again: no other
\* order of web and mobile requests, waits, failures and restarts does it
\* (assert_admin_user_member_capacity, join_with_qr, update_owner).
THEOREM OnlyOverlapOversells == AcSpec => []SeatsOversoldByOverlap
<1>1. SeatInv => SeatsOversoldByOverlap
  BY DEF SeatInv
<1> QED
  BY <1>1, SeatInductive, PTL

\* The rows of accounts, codes, invites and requests keep their types, and no request
\* that is about to make an account finds it made.
THEOREM AcTypesHold == AcSpec => []AcTypeOK
<1>1. AcInv /\ SeatInv => AcTypeOK
  BY DEF AcInv, CodesTyped, SeatInv, AcctTyped, RowsFit, HoldsRow, AcTypeOK
<1> QED
  BY <1>1, AcInductive, SeatInductive, PTL
==============================================================================
