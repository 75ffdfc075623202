----------------------------- MODULE GuestAccess -----------------------------
(* Guest access to one zone: the guest_access_sessions, guest_passes and      *)
(* guest_access_qr_tokens tables and the handlers of app/routers/access.py    *)
(* that read and write them. A handler runs without a suspension point from   *)
(* its first read to its commit, so each is one action. Time is a discrete    *)
(* clock; a time of 0 is the NULL of the column.                              *)
EXTENDS Integers, FiniteSets

CONSTANTS
    Guests,        \* guest ids the server may hand out, one session each
    Events,        \* event ids a pass can be created for
    Tokens,        \* guest QR tokens that may be created
    NoGuest, NoEvent, NoToken,
    UseLimits,     \* max_uses values an administrator picks; 0 is unlimited
    ExchangeTTL,   \* GUEST_ACCESS_EXCHANGE_TTL_MINUTES in clock ticks
    MaxTime        \* bound: the clock stops here

ASSUME ConstantsOK ==
    /\ IsFiniteSet(Guests)
    /\ NoGuest \notin Guests /\ NoEvent \notin Events /\ NoToken \notin Tokens
    /\ UseLimits \subseteq Nat
    /\ ExchangeTTL \in Nat \ {0}
    /\ MaxTime \in Nat \ {0}

VARIABLES
    sess,     \* guest_access_sessions by guest_id
    pass,     \* guest_passes by event_id: the pair (zone, event_id) is unique
    token,    \* guest_access_qr_tokens
    issued,   \* guest JWTs that POST /guest-session has handed out, per guest
    now       \* the clock

vars == <<sess, pass, token, issued, now>>

------------------------------------------------------------------------------
Kinds == {"none", "expected", "unexpected", "network_access"}
Resolutions == {"none", "pending", "approved", "rejected"}

Session == [kind: Kinds, resolution: Resolutions, qr: Tokens \cup {NoToken},
            codeExpires: Nat, consumed: BOOLEAN, revoked: BOOLEAN]

NoSession == [kind |-> "none", resolution |-> "none", qr |-> NoToken,
              codeExpires |-> 0, consumed |-> FALSE, revoked |-> FALSE]

Pass == [status: {"none", "PENDING", "ACCEPTED", "REJECTED", "REVOKED"},
         expires: Nat, usedBy: Guests \cup {NoGuest}]

NoPass == [status |-> "none", expires |-> 0, usedBy |-> NoGuest]

QrToken == [kind: {"none", "custom", "primary", "network"}, event: Events \cup {NoEvent},
            expires: Nat, maxUses: Nat, uses: Nat, revoked: BOOLEAN]

UnusedToken == [kind |-> "none", event |-> NoEvent, expires |-> 0,
                maxUses |-> 0, uses |-> 0, revoked |-> FALSE]

TypeOK ==
    /\ sess \in [Guests -> Session]
    /\ pass \in [Events -> Pass]
    /\ token \in [Tokens -> QrToken]
    /\ issued \in [Guests -> Nat]
    /\ now \in Nat \ {0}

\* Rows from before passes were created ACCEPTED may still be PENDING.
LegacyPass(p) == p.status = "PENDING" /\ p.usedBy = NoGuest

Init ==
    /\ sess = [g \in Guests |-> NoSession]
    /\ pass \in [Events -> {NoPass} \cup
           {[status |-> "PENDING", expires |-> x, usedBy |-> NoGuest] : x \in 1..MaxTime}]
    /\ token = [t \in Tokens |-> UnusedToken]
    /\ issued = [g \in Guests |-> 0]
    /\ now = 1

------------------------------------------------------------------------------
(* Formulas over a state *)

ApprovedForAccess(s) ==
    /\ ~s.revoked
    /\ \/ s.kind = "expected"
       \/ s.kind \in {"unexpected", "network_access"} /\ s.resolution = "approved"

\* The code exists, is unexpired and was not exchanged yet.
CodeUsable(s) == s.codeExpires > now

PassExists(e) == pass[e].status # "none"
PassExpired(e) == PassExists(e) /\ pass[e].expires <= now

\* Mutant of PassAdmits: a used pass still admits.
PassAdmitsUsed(e) ==
    /\ e # NoEvent
    /\ pass[e].status = "ACCEPTED" /\ pass[e].expires > now

PassAdmits(e) ==
    /\ e # NoEvent
    /\ pass[e].status = "ACCEPTED" /\ pass[e].expires > now /\ pass[e].usedBy = NoGuest

\* Mutant of BearerActive: a rejected network guest is not looked for.
BearerIgnoresNetworkReject(g) ==
    /\ sess[g].kind # "none"
    /\ ~sess[g].revoked
    /\ sess[g].kind = "unexpected" => sess[g].resolution \notin {"pending", "rejected"}
    /\ \A e \in Events : pass[e].usedBy = g => pass[e].status \notin {"REVOKED", "REJECTED"}

\* What GET/POST /api/guest/* asks the database before it serves a guest JWT.
BearerActive(g) ==
    /\ sess[g].kind # "none"
    /\ ~sess[g].revoked
    /\ sess[g].kind = "unexpected" => sess[g].resolution \notin {"pending", "rejected"}
    /\ sess[g].kind = "network_access" => sess[g].resolution # "rejected"
    /\ \A e \in Events : pass[e].usedBy = g =>
           /\ pass[e].status \notin {"REVOKED", "REJECTED"}
           /\ pass[e].status = "ACCEPTED" => pass[e].expires > now
    /\ sess[g].qr # NoToken => ~token[sess[g].qr].revoked

ActiveOfKind(k) == {t \in Tokens : token[t].kind = k /\ ~token[t].revoked}

\* Mutant of TokenUsable: a link at its limit is still usable.
TokenUsableOnceMore(t) ==
    /\ token[t].kind # "none"
    /\ ~token[t].revoked
    /\ token[t].maxUses # 0 => token[t].uses <= token[t].maxUses

TokenUsable(t) ==
    /\ token[t].kind # "none"
    /\ ~token[t].revoked
    /\ token[t].expires # 0 => now <= token[t].expires
    /\ token[t].maxUses # 0 => token[t].uses < token[t].maxUses

MergedEvent(e, t) == IF t = NoToken \/ token[t].event = NoEvent THEN e ELSE token[t].event

\* The token row is valid and its event id does not contradict the guest's.
TokenAccepts(e, t) ==
    t # NoToken => /\ TokenUsable(t)
                   /\ e # NoEvent /\ token[t].event # NoEvent => e = token[t].event

------------------------------------------------------------------------------
(* POST /api/access/permission: a guest arrives *)

CountUse(t) ==
    token' = IF t = NoToken THEN token ELSE [token EXCEPT ![t].uses = @ + 1]

Arrive(g, row, t) ==
    /\ sess[g].kind = "none"
    /\ sess' = [sess EXCEPT ![g] = row]
    /\ CountUse(t)

ExpectedRow(t) == [NoSession EXCEPT !.kind = "expected", !.qr = t,
                                    !.codeExpires = now + ExchangeTTL]

PendingRow(k, t) == [NoSession EXCEPT !.kind = k, !.resolution = "pending", !.qr = t]

ArriveWithPass(g, e, t) ==
    /\ TokenAccepts(e, t)
    /\ PassAdmits(MergedEvent(e, t))
    /\ Arrive(g, ExpectedRow(t), t)
    /\ pass' = [pass EXCEPT ![MergedEvent(e, t)].usedBy = g]
    /\ UNCHANGED <<issued, now>>

IsNetworkArrival(t, byNetworkId) ==
    IF t = NoToken THEN byNetworkId ELSE token[t].kind = "network"

ArriveUnannounced(g, e, t, byNetworkId) ==
    /\ TokenAccepts(e, t)
    /\ ~PassAdmits(MergedEvent(e, t))
    /\ Arrive(g, PendingRow(IF IsNetworkArrival(t, byNetworkId) /\ MergedEvent(e, t) = NoEvent
                            THEN "network_access" ELSE "unexpected", t), t)
    /\ UNCHANGED <<pass, issued, now>>

------------------------------------------------------------------------------
(* Administrator decisions *)

\* Mutant of Approve: any request that is not approved yet can be approved.
ApproveRejected(g) ==
    /\ ~sess[g].revoked
    /\ sess[g].kind \in {"unexpected", "network_access"}
    /\ sess[g].resolution # "approved"
    /\ sess' = [sess EXCEPT ![g].resolution = "approved",
                            ![g].codeExpires = now + ExchangeTTL,
                            ![g].consumed = FALSE]
    /\ UNCHANGED <<pass, token, issued, now>>

Approve(g) ==
    /\ ~sess[g].revoked
    /\ sess[g].kind \in {"unexpected", "network_access"}
    /\ sess[g].resolution = "pending"
    /\ sess' = [sess EXCEPT ![g].resolution = "approved",
                            ![g].codeExpires = now + ExchangeTTL,
                            ![g].consumed = FALSE]
    /\ UNCHANGED <<pass, token, issued, now>>

RejectExpected(g) ==
    /\ sess[g].kind = "expected"
    /\ sess' = [sess EXCEPT ![g].revoked = TRUE]

\* Mutant of RejectRequest: writes a word the readers do not know.
RejectAsDenied(g) ==
    /\ sess[g].kind \in {"unexpected", "network_access"}
    /\ sess[g].resolution \in {"pending", "approved"}
    /\ sess' = [sess EXCEPT ![g].resolution = "denied"]

RejectRequest(g) ==
    /\ sess[g].kind \in {"unexpected", "network_access"}
    /\ sess[g].resolution \in {"pending", "approved"}
    /\ sess' = [sess EXCEPT ![g].resolution = "rejected"]

Reject(g) ==
    /\ ~sess[g].revoked
    /\ RejectExpected(g) \/ RejectRequest(g)
    /\ UNCHANGED <<pass, token, issued, now>>

------------------------------------------------------------------------------
(* The guest: GET /session/{guest_id} and POST /guest-session *)

\* Mutant of Poll: a consumed exchange is minted again.
PollAfterExchange(g) ==
    /\ ApprovedForAccess(sess[g])
    /\ ~CodeUsable(sess[g])
    /\ sess' = [sess EXCEPT ![g].codeExpires = now + ExchangeTTL, ![g].consumed = FALSE]
    /\ UNCHANGED <<pass, token, issued, now>>

\* Mutant of Poll: an expired code is not replaced.
PollOnlyFirstCode(g) ==
    /\ ApprovedForAccess(sess[g]) /\ ~sess[g].consumed
    /\ sess[g].codeExpires = 0
    /\ sess' = [sess EXCEPT ![g].codeExpires = now + ExchangeTTL, ![g].consumed = FALSE]
    /\ UNCHANGED <<pass, token, issued, now>>

\* Polling mints a code for a cleared guest who holds no usable one.
Poll(g) ==
    /\ ApprovedForAccess(sess[g]) /\ ~sess[g].consumed
    /\ ~CodeUsable(sess[g])
    /\ sess' = [sess EXCEPT ![g].codeExpires = now + ExchangeTTL, ![g].consumed = FALSE]
    /\ UNCHANGED <<pass, token, issued, now>>

Exchange(g) ==
    /\ ApprovedForAccess(sess[g]) /\ ~sess[g].consumed
    /\ CodeUsable(sess[g])
    /\ sess' = [sess EXCEPT ![g].consumed = TRUE]
    /\ issued' = [issued EXCEPT ![g] = @ + 1]
    /\ UNCHANGED <<pass, token, now>>

------------------------------------------------------------------------------
(* Guest passes *)

CreatePass(e, x) ==
    /\ ~PassExists(e)
    /\ x > now
    /\ pass' = [pass EXCEPT ![e] = [status |-> "ACCEPTED", expires |-> x, usedBy |-> NoGuest]]
    /\ UNCHANGED <<sess, token, issued, now>>

ReviewPass(e, verdict) ==
    /\ pass[e].status = "PENDING" /\ ~PassExpired(e)
    /\ pass' = [pass EXCEPT ![e].status = verdict]
    /\ UNCHANGED <<sess, token, issued, now>>

AcceptPass(e) == ReviewPass(e, "ACCEPTED")
RejectPass(e) == ReviewPass(e, "REJECTED")

\* Mutant of RevokePass: the session the pass opened stays open.
RevokePassOnly(e) ==
    /\ pass[e].status = "ACCEPTED" /\ ~PassExpired(e)
    /\ pass' = [pass EXCEPT ![e].status = "REVOKED"]
    /\ UNCHANGED <<sess, token, issued, now>>

\* Revoking a used pass also closes the session it opened.
RevokePass(e) ==
    /\ pass[e].status = "ACCEPTED" /\ ~PassExpired(e)
    /\ pass' = [pass EXCEPT ![e].status = "REVOKED"]
    /\ sess' = [g \in Guests |-> IF g = pass[e].usedBy THEN [sess[g] EXCEPT !.revoked = TRUE]
                                                       ELSE sess[g]]
    /\ UNCHANGED <<token, issued, now>>

RemovePasses(S) ==
    /\ pass' = [e \in Events |-> IF e \in S THEN NoPass ELSE pass[e]]
    /\ UNCHANGED <<sess, token, issued, now>>

DeletePass(e) == PassExpired(e) /\ RemovePasses({e})

\* An administrator clears every expired pass, a member only their own.
ClearExpiredPasses(S) ==
    /\ S # {} /\ \A e \in S : PassExpired(e)
    /\ RemovePasses(S)

------------------------------------------------------------------------------
(* Guest QR tokens *)

NewToken(k, e, x, m) == [kind |-> k, event |-> e, expires |-> x,
                         maxUses |-> m, uses |-> 0, revoked |-> FALSE]

CreateToken(t, k, e, x, m) ==
    /\ token[t].kind = "none"
    /\ k = "custom" => x = 0 \/ x > now
    /\ k # "custom" => x = 0 /\ ActiveOfKind(k) = {}
    /\ k = "network" => e = NoEvent /\ m = 0
    /\ token' = [token EXCEPT ![t] = NewToken(k, e, x, m)]
    /\ UNCHANGED <<sess, pass, issued, now>>

RevokeToken(t) ==
    /\ token[t].kind # "none" /\ ~token[t].revoked
    /\ token' = [token EXCEPT ![t].revoked = TRUE]
    /\ UNCHANGED <<sess, pass, issued, now>>

\* Mutant of Rotate: the old token stays active.
RotateKeepsOld(t, k) ==
    /\ token[t].kind = "none"
    /\ token' = [token EXCEPT ![t] = NewToken(k, NoEvent, 0, 0)]
    /\ UNCHANGED <<sess, pass, issued, now>>

\* Rotation revokes every active token of the kind and creates its successor.
Rotate(t, k) ==
    /\ token[t].kind = "none"
    /\ token' = [u \in Tokens |->
           IF u = t THEN NewToken(k, NoEvent, 0, 0)
           ELSE IF u \in ActiveOfKind(k) THEN [token[u] EXCEPT !.revoked = TRUE]
           ELSE token[u]]
    /\ UNCHANGED <<sess, pass, issued, now>>

------------------------------------------------------------------------------
Tick ==
    /\ now < MaxTime
    /\ now' = now + 1
    /\ UNCHANGED <<sess, pass, token, issued>>

GuestStep(g) ==
    \/ \E e \in Events \cup {NoEvent}, t \in Tokens \cup {NoToken} :
           \/ ArriveWithPass(g, e, t)
           \/ \E byNetworkId \in BOOLEAN : ArriveUnannounced(g, e, t, byNetworkId)
    \/ Approve(g)
    \/ Reject(g)
    \/ Poll(g)
    \/ Exchange(g)

PassStep ==
    \/ \E e \in Events :
           \/ \E x \in 1..MaxTime + 1 : CreatePass(e, x)
           \/ AcceptPass(e)
           \/ RejectPass(e)
           \/ RevokePass(e)
           \/ DeletePass(e)
    \/ \E S \in SUBSET Events : ClearExpiredPasses(S)

TokenStep ==
    \E t \in Tokens :
        \/ \E k \in {"custom", "primary", "network"}, e \in Events \cup {NoEvent},
              x \in 0..MaxTime, m \in UseLimits : CreateToken(t, k, e, x, m)
        \/ RevokeToken(t)
        \/ \E k \in {"primary", "network"} : Rotate(t, k)

Next == (\E g \in Guests : GuestStep(g)) \/ PassStep \/ TokenStep \/ Tick

Spec == Init /\ [][Next]_vars

\* The guest app polls while it waits and exchanges a code it is shown.
GuestFairness == \A g \in Guests : WF_vars(Poll(g)) /\ SF_vars(Exchange(g))

LiveSpec == Spec /\ GuestFairness

------------------------------------------------------------------------------
(* Properties *)

\* A QR link admits exactly as many guests as it counts, never more than its
\* max_uses, however arrivals, rotations and revocations interleave
\* (validate_locked_guest_qr_token, apply_successful_arrival_use).
TokenUsesHonest ==
    \A t \in Tokens :
        /\ token[t].uses = Cardinality({g \in Guests : sess[g].qr = t})
        /\ token[t].maxUses # 0 => token[t].uses <= token[t].maxUses

\* One zone has at most one active primary and one active network-access token
\* (get_or_create and rotate keep it so; the contract document promises it).
OneActiveToken ==
    \A k \in {"primary", "network"} : \A t, u \in ActiveOfKind(k) : t = u

\* A used guest pass and the session it opened tell one story: the session is
\* expected, no other pass claims it, and revoking the pass closed it.
PassAndSessionAgree ==
    \A e \in Events : pass[e].usedBy # NoGuest =>
        /\ sess[pass[e].usedBy].kind = "expected"
        /\ \A f \in Events : pass[f].usedBy = pass[e].usedBy => f = e
        /\ pass[e].status = "REVOKED" => sess[pass[e].usedBy].revoked

\* A guest pass lets in one guest: while the row exists its used_by_guest_id
\* is never handed to another session, whatever is approved, revoked or expired
\* meanwhile (find_accepted_guest_pass_for_event, consume_guest_pass).
PassAdmitsOnce ==
    [][\A e \in Events : pass[e].usedBy # NoGuest =>
           pass'[e] = NoPass \/ pass'[e].usedBy = pass[e].usedBy]_vars

\* The exchange of a session hands out one JWT over the whole life of the
\* session, across approvals, re-minted codes, expiry and repeated polling.
ExchangeOnce ==
    \A g \in Guests : issued[g] = IF sess[g].consumed THEN 1 ELSE 0

\* A guest whose exchanged JWT the guest API still serves is one a pass or an
\* administrator cleared and nobody turned away since.
LiveBearerIsCleared ==
    \A g \in Guests : issued[g] > 0 /\ BearerActive(g) => ApprovedForAccess(sess[g])

\* Where a session stands in the terms of GuestAdmission.
Stage == [g \in Guests |->
    IF sess[g].kind = "none" THEN "absent"
    ELSE IF sess[g].revoked \/ sess[g].resolution = "rejected" THEN "denied"
    ELSE IF sess[g].consumed THEN "inside"
    ELSE IF sess[g].resolution = "pending" THEN "waiting"
    ELSE "cleared"]

Admission == INSTANCE GuestAdmission WITH stage <- Stage

\* The handlers implement GuestAdmission: nobody enters uncleared or twice, and
\* a guest once denied is never readmitted under the same session.
AdmissionSpec == Admission!Spec

\* A guest cleared to enter gets the JWT unless turned away first: a code that
\* expired before it was used is replaced by polling
\* (ensure_active_guest_exchange_for_poll).
ClearedGuestGetsIn ==
    \A g \in Guests : ApprovedForAccess(sess[g]) ~>
        (sess[g].consumed \/ ~ApprovedForAccess(sess[g]))

\* docs/GUEST_WORKFLOW_API.md lists the deletion of an expired pass among the
\* actions that invalidate a guest's bearer, and says an expired pass
\* invalidates it: a bearer that was invalidated must not become valid again.
InvalidatedBearerStaysInvalid ==
    [][\A g \in Guests : issued[g] > 0 /\ ~BearerActive(g) => ~BearerActive(g)']_vars
=============================================================================
