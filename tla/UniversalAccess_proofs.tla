----------------------- MODULE UniversalAccess_proofs -----------------------
(* Proofs about UniversalAccess, for any people, networks, requests and hubs. *)
EXTENDS UniversalAccess, TLAPS

\* Both sides of request r agreed, and p may use its key.
Entitled(p, r) ==
    /\ request[r].admin \in agreed[r] /\ request[r].member \in agreed[r]
    /\ request[r].member = p \/ request[r].member = request[r].admin

\* Who made a request agreed to it; both sides agreed to one that is approved; the
\* holder of a public key is its administrator.
Consent ==
    \A r \in UaRequests : Present(r) =>
        /\ request[r].kind = "invite" => request[r].admin \in agreed[r]
        /\ request[r].kind = "place" => request[r].member \in agreed[r]
        /\ request[r].status = "approved" =>
               request[r].admin \in agreed[r] /\ request[r].member \in agreed[r]
        /\ (key[r] # NoOne /\ key[r].public) => request[r].member = request[r].admin

\* A key being sent, like one that has opened, belongs to a request that was made;
\* while the request is there its user is entitled, whatever became of the key.
UsersEntitled ==
    \A p \in UaPeople, r \in UaRequests :
        (<<p, r>> \in opened \/ (sending[p] # NoOne /\ sending[p].with = r)) =>
            request[r] # NoOne /\ (Present(r) => Entitled(p, r))

\* OpeningWasAgreed is not inductive: a key is checked when the sending begins, and
\* may be turned off, removed or decided upon before the hubs are called.
UaInv == UaTypeOK /\ KeyFollowsDecision /\ Consent /\ UsersEntitled

-----------------------------------------------------------------------------
LEMMA UaInitInv == UaInit => UaInv
<1> SUFFICES ASSUME UaInit PROVE UaInv
  OBVIOUS
<1> USE UaConstantsOK, UaNullsOK DEF UaInit, Present
<1>1. UaTypeOK
  BY DEF UaTypeOK
<1>2. KeyFollowsDecision /\ Consent /\ UsersEntitled
  BY DEF KeyFollowsDecision, Consent, UsersEntitled
<1> QED
  BY <1>1, <1>2 DEF UaInv

\* What a new row does to the invariant; its key is made in the same step or later.
LEMMA CreateInv ==
  ASSUME UaInv, NEW r \in UaRequests, NEW kind \in {"invite", "place"},
         NEW a \in UaPeople, NEW m \in UaPeople, NEW status \in {"pending", "approved"},
         NEW by \in UaPeople,
         Create(r, kind, a, m, status, by),
         kind = "invite" => by = a, kind = "place" => by = m,
         \/ status = "pending" /\ key' = key
         \/ status = "approved" /\ m = a /\ key' = [key EXCEPT ![r] = [public |-> TRUE, enabled |-> TRUE]]
  PROVE  UaInv'
<1> USE UaConstantsOK, UaNullsOK DEF Create
<1> DEFINE new == [kind |-> kind, admin |-> a, member |-> m, status |-> status, docs |-> 0]
<1>1. new \in UaRows
  BY DEF UaRows
<1>2. UaTypeOK /\ request[r] = NoOne /\ key[r] = NoOne
  BY DEF UaInv, KeyFollowsDecision, Present
<1>3. /\ request' \in [UaRequests -> UaRows \cup {NoOne, Removed}]
      /\ request'[r] = new
      /\ \A q \in UaRequests \ {r} : request'[q] = request[q]
  BY <1>1, <1>2 DEF UaTypeOK
<1>4. /\ agreed' \in [UaRequests -> SUBSET UaPeople]
      /\ agreed'[r] = {by}
      /\ \A q \in UaRequests \ {r} : agreed'[q] = agreed[q]
  BY <1>2 DEF UaTypeOK
<1>5. [public |-> TRUE, enabled |-> TRUE] \in Keys
  BY DEF Keys
<1>6. /\ key' \in [UaRequests -> Keys \cup {NoOne}]
      /\ key'[r] # NoOne <=> status = "approved"
      /\ \A q \in UaRequests \ {r} : key'[q] = key[q]
  BY <1>2, <1>5 DEF UaTypeOK
<1>7. activated[r] = {}
  BY <1>2 DEF UaTypeOK
<1>8. UaTypeOK'
  BY <1>2, <1>3, <1>4, <1>6, <1>7 DEF UaTypeOK
<1>9. KeyFollowsDecision'
  BY <1>1, <1>3, <1>6 DEF UaInv, KeyFollowsDecision, Present
<1>10. Consent'
  BY <1>1, <1>2, <1>3, <1>4, <1>6 DEF UaInv, Consent, Present
<1>11. UsersEntitled'
  BY <1>2, <1>3, <1>4 DEF UaInv, UsersEntitled, Entitled, Present
<1> QED
  BY <1>8, <1>9, <1>10, <1>11 DEF UaInv

LEMMA RequestInv ==
  ASSUME UaInv, NEW p \in UaPeople, NEW m \in UaPeople, NEW r \in UaRequests,
         GeneratePublicKey(p, r) \/ InvitePerson(p, m, r) \/ AskForPlace(m, p, r)
  PROVE  UaInv'
<1>1. CASE GeneratePublicKey(p, r)
  BY <1>1, CreateInv DEF GeneratePublicKey
<1>2. CASE InvitePerson(p, m, r)
  BY <1>2, CreateInv DEF InvitePerson
<1>3. CASE AskForPlace(m, p, r)
  BY <1>3, CreateInv DEF AskForPlace
<1> QED
  BY <1>1, <1>2, <1>3

LEMMA DecideInv ==
  ASSUME UaInv, NEW p \in UaPeople, NEW r \in UaRequests, UaApprove(p, r) \/ UaReject(p, r)
  PROVE  UaInv'
<1> USE UaConstantsOK, UaNullsOK
<1>1. PICK status \in {"approved", "rejected"} :
        /\ Decide(p, r, status)
        /\ status = "approved" => UaApprove(p, r)
        /\ status = "rejected" => UaReject(p, r)
  BY DEF UaApprove, UaReject
<1>2. UaTypeOK /\ request[r] \in UaRows /\ request[r].status = "pending" /\ key[r] = NoOne
  BY <1>1 DEF UaInv, Decide, Pending, Present, KeyFollowsDecision
<1>3. /\ request' \in [UaRequests -> UaRows \cup {NoOne, Removed}]
      /\ request'[r] \in UaRows
      /\ request'[r].status = status
      /\ request'[r].kind = request[r].kind
      /\ request'[r].admin = request[r].admin
      /\ request'[r].member = request[r].member
      /\ \A q \in UaRequests \ {r} : request'[q] = request[q]
  <2>1. [request[r] EXCEPT !.status = status] \in UaRows
    BY <1>2 DEF UaRows
  <2> QED
    BY <1>1, <1>2, <2>1 DEF Decide, UaTypeOK, UaRows
<1>4. [public |-> FALSE, enabled |-> TRUE] \in Keys
  BY DEF Keys
<1>5. /\ key' \in [UaRequests -> Keys \cup {NoOne}]
      /\ key'[r] # NoOne <=> status = "approved"
      /\ key'[r] # NoOne => key'[r] = [public |-> FALSE, enabled |-> TRUE]
      /\ \A q \in UaRequests \ {r} : key'[q] = key[q]
  <2>1. CASE status = "approved"
    <3>1. key' = [key EXCEPT ![r] = [public |-> FALSE, enabled |-> TRUE]]
      BY <1>1, <2>1 DEF UaApprove
    <3>2. [public |-> FALSE, enabled |-> TRUE] # NoOne
      BY <1>4
    <3> HIDE UaNullsOK
    <3> QED
      BY <1>2, <1>4, <2>1, <3>1, <3>2 DEF UaTypeOK
  <2>2. CASE status = "rejected"
    <3>1. key' = key
      BY <1>1, <2>2 DEF UaReject
    <3> QED
      BY <1>2, <2>2, <3>1 DEF UaTypeOK
  <2> QED
    BY <2>1, <2>2
<1>6. /\ agreed' \in [UaRequests -> SUBSET UaPeople]
      /\ agreed[r] \subseteq agreed'[r]
      /\ status = "approved" => p \in agreed'[r]
      /\ \A q \in UaRequests \ {r} : agreed'[q] = agreed[q]
  BY <1>1, <1>2 DEF UaApprove, UaReject, UaTypeOK
<1>7. judged' \in [UaRequests -> 0..MaxDocs]
  <2>1. request[r].docs \in 0..MaxDocs
    BY <1>2 DEF UaRows
  <2> QED
    BY <1>1, <1>2, <2>1 DEF Decide, UaTypeOK
<1>8. activated[r] = {} /\ UNCHANGED <<activated, uaAdmins, job, sending, opened>>
  BY <1>1, <1>2 DEF UaTypeOK, Decide
<1>9. UaTypeOK'
  BY <1>2, <1>3, <1>5, <1>6, <1>7, <1>8 DEF UaTypeOK
<1>10. KeyFollowsDecision'
  BY <1>1, <1>3, <1>5 DEF UaInv, KeyFollowsDecision, Present
<1>11. request[r].kind \in {"invite", "place"}
  BY <1>2 DEF UaRows
<1>12. request[r].kind = "invite" => p = request[r].member
  BY <1>1 DEF Decide, MayDecide
<1>13. request[r].kind = "place" => p = request[r].admin
  BY <1>1, <1>11 DEF Decide, MayDecide
<1>14. Consent'
  <2>1. SUFFICES ASSUME NEW q \in UaRequests, Present(q)'
                 PROVE  /\ request'[q].kind = "invite" => request'[q].admin \in agreed'[q]
                        /\ request'[q].kind = "place" => request'[q].member \in agreed'[q]
                        /\ request'[q].status = "approved" =>
                               request'[q].admin \in agreed'[q] /\ request'[q].member \in agreed'[q]
                        /\ (key'[q] # NoOne /\ key'[q].public) => request'[q].member = request'[q].admin
    BY DEF Consent
  <2>2. CASE q = r
    BY <1>2, <1>3, <1>5, <1>6, <1>11, <1>12, <1>13, <2>2 DEF UaInv, Consent, Present
  <2>3. CASE q # r
    BY <1>3, <1>5, <1>6, <2>1, <2>3 DEF UaInv, Consent, Present
  <2> QED
    BY <2>2, <2>3
<1>15. UsersEntitled'
  <2>1. ASSUME NEW q \in UaPeople, NEW s \in UaRequests,
               <<q, s>> \in opened \/ (sending[q] # NoOne /\ sending[q].with = s)
        PROVE  request'[s] # NoOne /\ (Present(s)' => Entitled(q, s)')
    <3>1. request[s] # NoOne /\ (Present(s) => Entitled(q, s))
      BY <2>1 DEF UaInv, UsersEntitled
    <3>2. CASE s = r
      BY <1>2, <1>3, <1>6, <3>1, <3>2 DEF Entitled, Present
    <3>3. CASE s # r
      BY <1>3, <1>6, <3>1, <3>3 DEF Entitled, Present
    <3> QED
      BY <3>2, <3>3
  <2> QED
    BY <1>8, <2>1 DEF UsersEntitled
<1> QED
  BY <1>9, <1>10, <1>14, <1>15 DEF UaInv

LEMMA RouteInv ==
  ASSUME UaInv, NEW p \in UaPeople,
         \/ \E r \in UaRequests : BeginEdit(p, r) \/ BeginRemove(p, r)
         \/ Edit(p) \/ RemoveRequest(p)
  PROVE  UaInv'
<1> USE UaConstantsOK, UaNullsOK DEF uaRows, uaHistory
<1>1. ASSUME NEW r \in UaRequests, NEW op \in {"edit", "remove"}, Begin(p, op, r)
      PROVE  UaInv'
  <2>1. [op |-> op, on |-> r] \in Jobs
    BY DEF Jobs
  <2>2. UaTypeOK'
    BY <1>1, <2>1 DEF UaInv, UaTypeOK, Begin
  <2> QED
    BY <1>1, <2>2 DEF UaInv, KeyFollowsDecision, Consent, UsersEntitled, Entitled, Present, Begin
<1>2. ASSUME NEW r \in UaRequests, BeginEdit(p, r) \/ BeginRemove(p, r)
      PROVE  UaInv'
  BY <1>1, <1>2 DEF BeginEdit, BeginRemove
<1>3. ASSUME job[p] # NoOne, job' = [job EXCEPT ![p] = NoOne]
      PROVE  job[p].on \in UaRequests /\ (UaTypeOK => job' \in [UaPeople -> Jobs \cup {NoOne}])
  BY <1>3 DEF UaInv, UaTypeOK, Jobs
<1>4. CASE Edit(p)
  <2>1. UaTypeOK /\ job' \in [UaPeople -> Jobs \cup {NoOne}]
    BY <1>3, <1>4 DEF UaInv, Edit
  <2>2. ASSUME NEW r \in UaRequests
        PROVE  \/ request'[r] = request[r]
               \/ /\ request[r] \in UaRows /\ request'[r] \in UaRows
                  /\ request'[r].kind = request[r].kind /\ request'[r].status = request[r].status
                  /\ request'[r].admin = request[r].admin /\ request'[r].member = request[r].member
    <3>1. CASE Present(r) /\ request[r].docs < MaxDocs
      <4>1. request[r].docs + 1 \in 0..MaxDocs
        BY <3>1 DEF Present, UaRows
      <4>2. [request[r] EXCEPT !.docs = @ + 1] \in UaRows
        BY <3>1, <4>1 DEF Present, UaRows
      <4>3. request'[r] \in {request[r], [request[r] EXCEPT !.docs = @ + 1]}
        BY <1>4 DEF Edit
      <4> QED
        BY <3>1, <4>2, <4>3 DEF Present, UaRows
    <3>2. CASE ~(Present(r) /\ request[r].docs < MaxDocs)
      BY <1>4, <3>2 DEF Edit
    <3> QED
      BY <3>1, <3>2
  <2>3. request' \in [UaRequests -> UaRows \cup {NoOne, Removed}]
    BY <1>4, <2>1, <2>2 DEF Edit, UaTypeOK
  <2>4. UNCHANGED <<key, activated, uaAdmins, sending, agreed, judged, opened>>
    BY <1>4 DEF Edit
  <2>5. UaTypeOK'
    BY <2>1, <2>3, <2>4 DEF UaTypeOK
  <2>6. KeyFollowsDecision' /\ Consent'
    BY <2>2, <2>4 DEF UaInv, KeyFollowsDecision, Consent, Present
  <2>7. UsersEntitled'
    BY <2>2, <2>4 DEF UaInv, UsersEntitled, Entitled, Present
  <2> QED
    BY <2>5, <2>6, <2>7 DEF UaInv
<1>5. CASE RemoveRequest(p)
  <2> DEFINE r == job[p].on
  <2>1. UaTypeOK /\ job' \in [UaPeople -> Jobs \cup {NoOne}] /\ r \in UaRequests
    BY <1>3, <1>5 DEF UaInv, RemoveRequest
  <2> HIDE DEF r
  <2>2. /\ request'[r] = Removed /\ key'[r] = NoOne /\ activated'[r] = {}
        /\ \A q \in UaRequests \ {r} :
               request'[q] = request[q] /\ key'[q] = key[q] /\ activated'[q] = activated[q]
        /\ request' \in [UaRequests -> UaRows \cup {NoOne, Removed}]
        /\ key' \in [UaRequests -> Keys \cup {NoOne}]
        /\ activated' \in [UaRequests -> SUBSET UaPeople]
    BY <1>5, <2>1 DEF RemoveRequest, UaTypeOK, r
  <2>3. UNCHANGED <<uaAdmins, sending, agreed, judged, opened>>
    BY <1>5 DEF RemoveRequest
  <2>4. UaTypeOK'
    BY <2>1, <2>2, <2>3 DEF UaTypeOK
  <2>5. KeyFollowsDecision' /\ Consent'
    BY <2>2, <2>3 DEF UaInv, KeyFollowsDecision, Consent, Present
  <2>6. UsersEntitled'
    BY <2>2, <2>3 DEF UaInv, UsersEntitled, Entitled, Present
  <2> QED
    BY <2>4, <2>5, <2>6 DEF UaInv
<1> QED
  BY <1>2, <1>4, <1>5

LEMMA KeyInv ==
  ASSUME UaInv, NEW p \in UaPeople, NEW r \in UaRequests,
         \/ \E on \in BOOLEAN : SetEnabled(p, r, on)
         \/ Select(p, r) \/ Deselect(p, r)
  PROVE  UaInv'
<1> USE UaConstantsOK, UaNullsOK DEF uaRows, uaHistory
<1>1. CASE \E on \in BOOLEAN : SetEnabled(p, r, on)
  <2>1. PICK on \in BOOLEAN : SetEnabled(p, r, on)
    BY <1>1
  <2>2. UaTypeOK /\ key[r] \in Keys
    BY <2>1 DEF SetEnabled, UaInv, UaTypeOK
  <2>3. [key[r] EXCEPT !.enabled = on] \in Keys
    BY <2>2 DEF Keys
  <2>4. [key[r] EXCEPT !.enabled = on].public = key[r].public
    BY <2>2 DEF Keys
  <2>5. /\ key' \in [UaRequests -> Keys \cup {NoOne}]
        /\ key'[r] \in Keys /\ key'[r].public = key[r].public
        /\ \A q \in UaRequests \ {r} : key'[q] = key[q]
    BY <2>1, <2>2, <2>3, <2>4 DEF SetEnabled, UaTypeOK
  <2>6. UNCHANGED <<request, activated, uaAdmins, job, sending, agreed, judged, opened>>
    BY <2>1 DEF SetEnabled
  <2>7. UaTypeOK'
    BY <2>2, <2>5, <2>6 DEF UaTypeOK
  <2>8. KeyFollowsDecision' /\ Consent'
    BY <2>2, <2>5, <2>6 DEF UaInv, KeyFollowsDecision, Consent, Present
  <2>9. UsersEntitled'
    BY <2>6 DEF UaInv, UsersEntitled, Entitled, Present
  <2> QED
    BY <2>7, <2>8, <2>9 DEF UaInv
<1>2. CASE Select(p, r) \/ Deselect(p, r)
  <2>1. activated[r] # {} => key[r] # NoOne
    BY DEF UaInv, UaTypeOK
  <2>2. key[r] # NoOne
    BY <1>2, <2>1 DEF Select, Deselect, MaySend, UaLive
  <2>3. UNCHANGED <<request, key, uaAdmins, job, sending, agreed, judged, opened>>
    BY <1>2 DEF Select, Deselect
  <2>4. activated' \in [UaRequests -> SUBSET UaPeople]
    BY <1>2 DEF Select, Deselect, UaInv, UaTypeOK
  <2>5. \A q \in UaRequests \ {r} : activated'[q] = activated[q]
    BY <1>2 DEF Select, Deselect, UaInv, UaTypeOK
  <2>6. UaTypeOK'
    BY <2>2, <2>3, <2>4, <2>5 DEF UaInv, UaTypeOK
  <2> QED
    BY <2>3, <2>6 DEF UaInv, KeyFollowsDecision, Consent, UsersEntitled, Entitled, Present
<1> QED
  BY <1>1, <1>2

LEMMA SendInv ==
  ASSUME UaInv, NEW p \in UaPeople,
         \/ \E r \in UaRequests : Send(p, r)
         \/ \E answers \in BOOLEAN : CallHub(p, answers)
  PROVE  UaInv'
<1> USE UaConstantsOK, UaNullsOK DEF uaRows, uaHistory
<1>1. CASE \E r \in UaRequests : Send(p, r)
  <2>1. PICK r \in UaRequests : Send(p, r)
    BY <1>1
  <2> DEFINE send == [with |-> r, left |-> UaHubs]
  <2>2. send \in Sends /\ send.with = r
    BY <2>1 DEF Send, Sends
  <2>3. /\ sending' \in [UaPeople -> Sends \cup {NoOne}]
        /\ sending'[p] = send
        /\ \A q \in UaPeople \ {p} : sending'[q] = sending[q]
    BY <2>1, <2>2 DEF Send, UaInv, UaTypeOK
  <2> HIDE DEF send
  <2>4. UNCHANGED <<request, key, activated, uaAdmins, job, agreed, judged, opened>>
    BY <2>1 DEF Send
  <2>5. UaTypeOK'
    BY <2>3, <2>4 DEF UaInv, UaTypeOK
  <2>6. Present(r) /\ Entitled(p, r)
    BY <2>1 DEF Send, MaySend, UaLive, UaInv, KeyFollowsDecision, Consent, Entitled
  <2>7. request[r] # NoOne
    BY <2>6 DEF Present
  <2>8. UsersEntitled'
    <3>1. ASSUME NEW q \in UaPeople, NEW s \in UaRequests,
                 <<q, s>> \in opened \/ (sending'[q] # NoOne /\ sending'[q].with = s)
          PROVE  request[s] # NoOne /\ (Present(s) => Entitled(q, s))
      BY <2>2, <2>3, <2>6, <2>7, <3>1 DEF UaInv, UsersEntitled
    <3> QED
      BY <2>4, <3>1 DEF UsersEntitled, Present, Entitled
  <2> QED
    BY <2>4, <2>5, <2>8 DEF UaInv, KeyFollowsDecision, Consent, Present
<1>2. CASE \E answers \in BOOLEAN : CallHub(p, answers)
  <2>1. PICK answers \in BOOLEAN : CallHub(p, answers)
    BY <1>2
  <2> DEFINE r == sending[p].with
  <2>2. sending[p] \in Sends /\ r \in UaRequests
    BY <2>1 DEF CallHub, UaInv, UaTypeOK, Sends
  <2>3. sending'[p] = NoOne \/ (sending'[p] \in Sends /\ sending'[p].with = r)
    <3>1. CASE sending[p].left = 1
      BY <2>1, <3>1 DEF CallHub, UaInv, UaTypeOK
    <3>2. CASE sending[p].left # 1
      <4>1. sending[p].left - 1 \in 1..UaHubs
        BY <2>2, <3>2 DEF Sends
      <4>2. sending'[p] = [sending[p] EXCEPT !.left = @ - 1]
        BY <2>1, <3>2 DEF CallHub, UaInv, UaTypeOK
      <4> QED
        BY <2>2, <4>1, <4>2 DEF Sends
    <3> QED
      BY <3>1, <3>2
  <2>4. /\ sending' \in [UaPeople -> Sends \cup {NoOne}]
        /\ \A q \in UaPeople \ {p} : sending'[q] = sending[q]
    BY <2>1, <2>3 DEF CallHub, UaInv, UaTypeOK
  <2>5. opened' \subseteq opened \cup {<<p, r>>}
    BY <2>1 DEF CallHub
  <2>6. UNCHANGED <<request, key, activated, uaAdmins, job, agreed, judged>>
    BY <2>1 DEF CallHub
  <2>7. request[r] # NoOne /\ (Present(r) => Entitled(p, r))
    BY <2>1, <2>2 DEF CallHub, UaInv, UsersEntitled
  <2> HIDE DEF r
  <2>8. UaTypeOK'
    BY <2>2, <2>4, <2>5, <2>6 DEF UaInv, UaTypeOK
  <2>9. UsersEntitled'
    <3>1. ASSUME NEW q \in UaPeople, NEW s \in UaRequests,
                 <<q, s>> \in opened' \/ (sending'[q] # NoOne /\ sending'[q].with = s)
          PROVE  request[s] # NoOne /\ (Present(s) => Entitled(q, s))
      BY <2>3, <2>4, <2>5, <2>7, <3>1 DEF UaInv, UsersEntitled
    <3> QED
      BY <2>6, <3>1 DEF UsersEntitled, Present, Entitled
  <2> QED
    BY <2>6, <2>8, <2>9 DEF UaInv, KeyFollowsDecision, Consent, Present
<1> QED
  BY <1>1, <1>2

LEMMA UaNextInv ==
  ASSUME UaInv, [UaNext]_uaVars
  PROVE  UaInv'
<1>1. CASE UaNext
  <2>1. PICK p \in UaPeople :
        \/ \E r \in UaRequests :
            \/ GeneratePublicKey(p, r)
            \/ \E m \in UaPeople : InvitePerson(p, m, r) \/ AskForPlace(m, p, r)
            \/ UaApprove(p, r) \/ UaReject(p, r)
            \/ BeginEdit(p, r) \/ BeginRemove(p, r)
            \/ \E on \in BOOLEAN : SetEnabled(p, r, on)
            \/ Select(p, r) \/ Deselect(p, r) \/ Send(p, r)
        \/ Edit(p) \/ RemoveRequest(p)
        \/ \E answers \in BOOLEAN : CallHub(p, answers)
        \/ ChangeRole(p)
    BY <1>1 DEF UaNext
  <2>2. CASE ChangeRole(p)
    <3>1. uaAdmins' \subseteq UaPeople
      BY <2>2 DEF ChangeRole, UaInv, UaTypeOK
    <3> QED
      BY <2>2, <3>1 DEF ChangeRole, uaRows, uaHistory, UaInv, UaTypeOK, KeyFollowsDecision,
                        Consent, UsersEntitled, Entitled, Present
  <2> QED
    BY <2>1, <2>2, RequestInv, DecideInv, RouteInv, KeyInv, SendInv
<1>2. CASE UNCHANGED uaVars
  BY <1>2 DEF uaVars, UaInv, UaTypeOK, KeyFollowsDecision, Consent, UsersEntitled, Entitled, Present
<1> QED
  BY <1>1, <1>2

-----------------------------------------------------------------------------
LEMMA UaInductive == UaSpec => []UaInv
<1>1. UaInit => UaInv
  BY UaInitInv
<1>2. UaInv /\ [UaNext]_uaVars => UaInv'
  BY UaNextInv
<1> QED
  BY <1>1, <1>2, PTL DEF UaSpec

\* The rows keep their types, whichever routes overlap on threads.
THEOREM UaTypeCorrect == UaSpec => []UaTypeOK
<1>1. UaInv => UaTypeOK
  BY DEF UaInv
<1> QED
  BY <1>1, UaInductive, PTL

\* A request has a key exactly while it is approved (delete_request writes what it
\* checked earlier, on another thread).
THEOREM KeysFollowDecisions == UaSpec => []KeyFollowsDecision
<1>1. UaInv => KeyFollowsDecision
  BY DEF UaInv
<1> QED
  BY <1>1, UaInductive, PTL

\* Whoever opened a hub did so with the consent of both sides (prepare_send_key checks
\* before the hubs are called, one after the other).
THEOREM OpeningsAreAgreed == UaSpec => []OpeningWasAgreed
<1>1. UaInv => OpeningWasAgreed
  BY DEF UaInv, UsersEntitled, Entitled, OpeningWasAgreed
<1> QED
  BY <1>1, UaInductive, PTL

-----------------------------------------------------------------------------
(* Who is told *)

\* Whoever has a pending request to decide was told of it when it was made.  What
\* NothingHidden needs beside it follows from the rows themselves.
DecidersTold ==
    /\ told \in [UaRequests -> SUBSET UaPeople]
    /\ \A r \in UaRequests : Pending(r) =>
           /\ request[r].kind = "invite" => request[r].member \in told[r]
           /\ request[r].kind = "place" => request[r].admin \in told[r]

\* A step tells more or nothing, and what is pending after it was pending before it.
NoNewPending ==
    /\ told' \in [UaRequests -> SUBSET UaPeople]
    /\ \A r \in UaRequests :
        /\ told[r] \subseteq told'[r]
        /\ Pending(r)' => /\ Pending(r)
                          /\ request'[r].kind = request[r].kind
                          /\ request'[r].admin = request[r].admin
                          /\ request'[r].member = request[r].member

LEMMA NoNewPendingTold ==
  ASSUME DecidersTold, NoNewPending
  PROVE  DecidersTold'
<1>1. ASSUME NEW r \in UaRequests, Pending(r)'
      PROVE  /\ request'[r].kind = "invite" => request'[r].member \in told'[r]
             /\ request'[r].kind = "place" => request'[r].admin \in told'[r]
  BY <1>1 DEF DecidersTold, NoNewPending
<1> QED
  BY <1>1 DEF DecidersTold, NoNewPending

\* A row made pending names somebody who is told of it in the same step.
LEMMA CreateTold ==
  ASSUME UaInv, DecidersTold, NEW r \in UaRequests, NEW kind \in {"invite", "place"},
         NEW a \in UaPeople, NEW m \in UaPeople, NEW status, NEW by,
         Create(r, kind, a, m, status, by),
         NEW who \in UaPeople,
         \/ status = "approved" /\ UNCHANGED told
         \/ Tell(r, who) /\ kind = "invite" /\ who = m
         \/ Tell(r, who) /\ kind = "place" /\ who = a
  PROVE  DecidersTold'
<1>1. /\ request'[r].kind = kind /\ request'[r].admin = a
      /\ request'[r].member = m /\ request'[r].status = status
      /\ \A q \in UaRequests \ {r} : request'[q] = request[q]
  BY DEF Create, UaInv, UaTypeOK
<1>2. /\ told' \in [UaRequests -> SUBSET UaPeople]
      /\ \A q \in UaRequests : told[q] \subseteq told'[q]
      /\ status = "approved" \/ who \in told'[r]
  BY DEF Tell, DecidersTold
<1>3. ASSUME NEW q \in UaRequests, Pending(q)'
      PROVE  /\ request'[q].kind = "invite" => request'[q].member \in told'[q]
             /\ request'[q].kind = "place" => request'[q].admin \in told'[q]
  <2>1. CASE q = r
    BY <1>1, <1>2, <1>3, <2>1 DEF Pending
  <2>2. CASE q # r
    <3>1. Pending(q) /\ request'[q] = request[q]
      BY <1>1, <1>3, <2>2 DEF Pending, Present
    <3> QED
      BY <1>2, <3>1 DEF DecidersTold
  <2> QED
    BY <2>1, <2>2
<1> QED
  BY <1>2, <1>3 DEF DecidersTold

LEMMA RequestTold ==
  ASSUME UaInv, DecidersTold, NEW p \in UaPeople, NEW m \in UaPeople, NEW r \in UaRequests,
         GeneratePublicKey(p, r) \/ InvitePerson(p, m, r) \/ AskForPlace(m, p, r)
  PROVE  DecidersTold'
<1>1. CASE GeneratePublicKey(p, r)
  BY <1>1, CreateTold DEF GeneratePublicKey
<1>2. CASE InvitePerson(p, m, r)
  BY <1>2, CreateTold DEF InvitePerson
<1>3. CASE AskForPlace(m, p, r)
  BY <1>3, CreateTold DEF AskForPlace
<1> QED
  BY <1>1, <1>2, <1>3

\* A decision leaves no request pending that was not, and its answer tells one more.
LEMMA DecideTold ==
  ASSUME UaInv, DecidersTold, NEW p \in UaPeople, NEW r \in UaRequests,
         NEW status \in {"approved", "rejected"}, Decide(p, r, status)
  PROVE  DecidersTold'
<1>1. request[r] \in UaRows /\ request \in [UaRequests -> UaRows \cup {NoOne, Removed}]
  BY DEF Decide, Pending, Present, UaInv, UaTypeOK
<1>2. request[r].admin \in UaPeople /\ request[r].member \in UaPeople
  BY <1>1 DEF UaRows
<1>3. request'[r].status = status /\ \A q \in UaRequests \ {r} : request'[q] = request[q]
  BY <1>1 DEF Decide, UaRows
<1>4. PICK who \in UaPeople : told' = [told EXCEPT ![r] = @ \cup {who}]
  BY <1>2 DEF Decide, Tell
<1>5. /\ told' \in [UaRequests -> SUBSET UaPeople]
      /\ \A q \in UaRequests : told[q] \subseteq told'[q]
  BY <1>4 DEF DecidersTold
<1>6. ASSUME NEW q \in UaRequests, Pending(q)'
      PROVE  Pending(q) /\ request'[q] = request[q]
  BY <1>3, <1>6 DEF Pending, Present
<1> QED
  BY <1>5, <1>6, NoNewPendingTold DEF NoNewPending

LEMMA EditTold ==
  ASSUME UaInv, DecidersTold, NEW p \in UaPeople, Edit(p)
  PROVE  DecidersTold'
<1>1. told' = told /\ told \in [UaRequests -> SUBSET UaPeople]
  BY DEF Edit, uaHistory, DecidersTold
<1>2. ASSUME NEW r \in UaRequests, Pending(r)'
      PROVE  /\ Pending(r)
             /\ request'[r].kind = request[r].kind /\ request'[r].admin = request[r].admin
             /\ request'[r].member = request[r].member
  <2>1. CASE request'[r] = request[r]
    BY <1>2, <2>1 DEF Pending, Present
  <2>2. CASE request'[r] # request[r]
    <3>1. Present(r) /\ request'[r] = [request[r] EXCEPT !.docs = @ + 1]
      BY <2>2 DEF Edit
    <3> QED
      BY <1>2, <3>1 DEF Pending, Present, UaRows
  <2> QED
    BY <2>1, <2>2
<1> QED
  BY <1>1, <1>2, NoNewPendingTold DEF NoNewPending

LEMMA RemoveTold ==
  ASSUME UaInv, DecidersTold, NEW p \in UaPeople, RemoveRequest(p)
  PROVE  DecidersTold'
<1>1. told' = told /\ told \in [UaRequests -> SUBSET UaPeople]
  BY DEF RemoveRequest, uaHistory, DecidersTold
<1>2. ASSUME NEW r \in UaRequests, Pending(r)'
      PROVE  Pending(r) /\ request'[r] = request[r]
  <2>1. request'[r] = IF r = job[p].on THEN Removed ELSE request[r]
    BY DEF RemoveRequest, UaInv, UaTypeOK
  <2> QED
    BY <1>2, <2>1, UaNullsOK DEF Pending, Present
<1> QED
  BY <1>1, <1>2, NoNewPendingTold DEF NoNewPending

LEMMA UaNextTold ==
  ASSUME UaInv, DecidersTold, [UaNext]_uaVars
  PROVE  DecidersTold'
<1>1. CASE UNCHANGED <<request, told>>
  BY <1>1 DEF DecidersTold, Pending, Present
<1>2. CASE UaNext
  <2>1. PICK p \in UaPeople :
        \/ \E r \in UaRequests :
            \/ GeneratePublicKey(p, r)
            \/ \E m \in UaPeople : InvitePerson(p, m, r) \/ AskForPlace(m, p, r)
            \/ UaApprove(p, r) \/ UaReject(p, r)
            \/ BeginEdit(p, r) \/ BeginRemove(p, r)
            \/ \E on \in BOOLEAN : SetEnabled(p, r, on)
            \/ Select(p, r) \/ Deselect(p, r) \/ Send(p, r)
        \/ Edit(p) \/ RemoveRequest(p)
        \/ \E answers \in BOOLEAN : CallHub(p, answers)
        \/ ChangeRole(p)
    BY <1>2 DEF UaNext
  <2>2. CASE \E r \in UaRequests :
                \/ GeneratePublicKey(p, r)
                \/ \E m \in UaPeople : InvitePerson(p, m, r) \/ AskForPlace(m, p, r)
    BY <2>2, RequestTold
  <2>3. CASE \E r \in UaRequests : UaApprove(p, r) \/ UaReject(p, r)
    BY <2>3, DecideTold DEF UaApprove, UaReject
  <2>4. CASE \E r \in UaRequests :
                \/ BeginEdit(p, r) \/ BeginRemove(p, r)
                \/ \E on \in BOOLEAN : SetEnabled(p, r, on)
                \/ Select(p, r) \/ Deselect(p, r) \/ Send(p, r)
    BY <1>1, <2>4 DEF BeginEdit, BeginRemove, Begin, SetEnabled, Select, Deselect, Send,
                      uaRows, uaHistory
  <2>5. CASE Edit(p) \/ RemoveRequest(p)
    BY <2>5, EditTold, RemoveTold
  <2>6. CASE ChangeRole(p) \/ \E answers \in BOOLEAN : CallHub(p, answers)
    BY <1>1, <2>6 DEF ChangeRole, CallHub, uaRows, uaHistory
  <2> QED
    BY <2>1, <2>2, <2>3, <2>4, <2>5, <2>6
<1> QED
  BY <1>1, <1>2 DEF uaVars

LEMMA ToldShowsAll ==
  ASSUME UaInv, DecidersTold
  PROVE  NothingHidden
<1> SUFFICES ASSUME NEW p \in UaPeople, NEW r \in UaRequests
             PROVE  /\ Pending(r) /\ MayDecide(p, r) =>
                           /\ p \in told[r] /\ r \in Mine(p)
                           /\ {"approve", "reject"} \subseteq Offered(p, r)
                    /\ MaySend(p, r) => r \in PrivateKeys(p) \cup PublicKeys
                    /\ r \in ActivatedKeys(p) => MaySend(p, r)
  BY DEF NothingHidden
<1>1. ASSUME Pending(r), MayDecide(p, r)
      PROVE  /\ p \in told[r] /\ r \in Mine(p)
             /\ {"approve", "reject"} \subseteq Offered(p, r)
  <2>1. request[r].kind \in {"invite", "place"}
    BY <1>1 DEF Pending, Present, UaRows
  <2>2. /\ request[r].kind = "invite" => request[r].member = p
        /\ request[r].kind = "place" => request[r].admin = p
    BY <1>1, <2>1 DEF MayDecide
  <2>3. p \in told[r]
    BY <1>1, <2>1, <2>2 DEF DecidersTold
  <2>4. r \in Mine(p)
    BY <1>1, <2>1, <2>2 DEF Mine, Pending
  <2>5. {"approve", "reject"} \subseteq Offered(p, r)
    BY <1>1, <2>1, <2>2 DEF Offered
  <2> QED
    BY <2>3, <2>4, <2>5
<1>2. MaySend(p, r) => r \in PrivateKeys(p) \cup PublicKeys
  BY DEF MaySend, PrivateKeys, PublicKeys
<1>3. r \in ActivatedKeys(p) => MaySend(p, r)
  BY DEF ActivatedKeys, PublicKeys, MaySend
<1> QED
  BY <1>1, <1>2, <1>3

\* Whoever may decide a request was told of it and is offered both answers, and every
\* key a person may send is in that person's lists (list_requests, _viewer_actions and
\* the notices of create_invite, create_request and the decisions).
THEOREM NothingIsHidden == UaSpec => []NothingHidden
<1>1. UaInit => DecidersTold
  BY UaNullsOK DEF UaInit, DecidersTold, Pending, Present
<1>2. UaInv /\ DecidersTold /\ [UaNext]_uaVars => DecidersTold'
  BY UaNextTold
<1>3. UaInv /\ DecidersTold => NothingHidden
  BY ToldShowsAll
<1> QED
  BY <1>1, <1>2, <1>3, UaInductive, PTL DEF UaSpec
=============================================================================
