------------------------- MODULE GuestAccess_proofs -------------------------
(* Proofs about GuestAccess, for any number of guests, events and tokens and  *)
(* any use limits and lifetimes.                                              *)
EXTENDS GuestAccess, FiniteSetTheorems, TLAPS

\* The forms a session row takes: the columns agree with its kind, and only a
\* session that left "pending" has been exchanged.
SessionShape ==
    \A g \in Guests :
        /\ sess[g].kind = "none" => sess[g] = NoSession
        /\ sess[g].kind = "expected" => sess[g].resolution = "none"
        /\ sess[g].kind \in {"unexpected", "network_access"} =>
               sess[g].resolution \in {"pending", "approved", "rejected"}
        /\ sess[g].resolution = "pending" => ~sess[g].consumed

\* The invariant the theorems rest on. ExchangeOnce alone is not inductive: an
\* approval resets exchange_consumed_at, which is harmless only because a
\* pending session was never exchanged.
IInv == TypeOK /\ SessionShape /\ ExchangeOnce /\ PassAndSessionAgree

------------------------------------------------------------------------------
LEMMA RowsTyped ==
    /\ NoSession \in Session
    /\ NoPass \in Pass
    /\ UnusedToken \in QrToken
  BY DEF NoSession, Session, Kinds, Resolutions, NoPass, Pass, UnusedToken, QrToken

LEMMA InitInv == Init => IInv
<1> SUFFICES ASSUME Init PROVE IInv
  OBVIOUS
<1>1. TypeOK
  <2>1. pass \in [Events -> Pass]
    BY ConstantsOK, RowsTyped DEF Init, Pass
  <2> QED
    BY <2>1, RowsTyped DEF Init, TypeOK
<1>2. SessionShape
  BY DEF Init, SessionShape, NoSession
<1>3. ExchangeOnce
  BY DEF Init, ExchangeOnce, NoSession
<1>4. PassAndSessionAgree
  BY DEF Init, PassAndSessionAgree, NoPass
<1> QED
  BY <1>1, <1>2, <1>3, <1>4 DEF IInv

------------------------------------------------------------------------------
(* One lemma per group of actions: it preserves the invariant. *)

LEMMA CountUseTyped ==
  ASSUME TypeOK, NEW t \in Tokens \cup {NoToken}, CountUse(t)
  PROVE  token' \in [Tokens -> QrToken]
<1>1. CASE t = NoToken
  BY <1>1 DEF CountUse, TypeOK
<1>2. CASE t \in Tokens /\ t # NoToken
  <2>1. [token[t] EXCEPT !.uses = @ + 1] \in QrToken
    BY <1>2 DEF TypeOK, QrToken
  <2> QED
    BY <1>2, <2>1 DEF CountUse, TypeOK
<1> QED
  BY <1>1, <1>2

LEMMA ArriveWithPassInv ==
  ASSUME NEW g \in Guests, NEW e \in Events \cup {NoEvent}, NEW t \in Tokens \cup {NoToken},
         IInv, ArriveWithPass(g, e, t)
  PROVE  IInv'
<1> DEFINE f == MergedEvent(e, t)
<1> USE DEF IInv
<1>1. f \in Events /\ pass[f].usedBy = NoGuest /\ pass[f].status = "ACCEPTED"
  BY DEF ArriveWithPass, PassAdmits, MergedEvent, TypeOK, QrToken
<1>2. /\ sess[g].kind = "none"
      /\ sess' = [sess EXCEPT ![g] = ExpectedRow(t)]
      /\ token' = IF t = NoToken THEN token ELSE [token EXCEPT ![t].uses = @ + 1]
      /\ pass' = [pass EXCEPT ![f].usedBy = g]
      /\ UNCHANGED <<issued, now>>
  BY DEF ArriveWithPass, Arrive, CountUse
<1>3. now + ExchangeTTL \in Nat
  BY ConstantsOK DEF TypeOK
<1>4. /\ ExpectedRow(t) \in Session
      /\ ExpectedRow(t).kind = "expected"
      /\ ExpectedRow(t).resolution = "none"
      /\ ExpectedRow(t).consumed = FALSE
  BY <1>3, RowsTyped DEF ExpectedRow, NoSession, Session, Kinds, Resolutions
<1>5. TypeOK'
  <2>1. sess' \in [Guests -> Session]
    BY <1>2, <1>4 DEF TypeOK
  <2>2. pass' \in [Events -> Pass]
    <3>1. [pass[f] EXCEPT !.usedBy = g] \in Pass
      BY <1>1 DEF TypeOK, Pass
    <3> QED
      BY <1>2, <3>1 DEF TypeOK
  <2>3. token' \in [Tokens -> QrToken]
    BY <1>2, CountUseTyped DEF CountUse
  <2> QED
    BY <2>1, <2>2, <2>3, <1>2 DEF TypeOK
<1>6. SessionShape'
  BY <1>2, <1>4 DEF SessionShape, TypeOK
<1>7. ExchangeOnce'
  BY <1>2, <1>4 DEF ExchangeOnce, SessionShape, NoSession, TypeOK
<1>8. PassAndSessionAgree'
  BY <1>1, <1>2, <1>4 DEF PassAndSessionAgree, TypeOK, Pass
<1> QED
  BY <1>5, <1>6, <1>7, <1>8

LEMMA ArriveUnannouncedInv ==
  ASSUME NEW g \in Guests, NEW e \in Events \cup {NoEvent}, NEW t \in Tokens \cup {NoToken},
         NEW b \in BOOLEAN, IInv, ArriveUnannounced(g, e, t, b)
  PROVE  IInv'
<1> USE DEF IInv
<1>1. PICK k \in {"unexpected", "network_access"} :
          /\ sess[g].kind = "none"
          /\ sess' = [sess EXCEPT ![g] = PendingRow(k, t)]
          /\ token' = IF t = NoToken THEN token ELSE [token EXCEPT ![t].uses = @ + 1]
          /\ UNCHANGED <<pass, issued, now>>
  BY DEF ArriveUnannounced, Arrive, CountUse
<1>2. /\ PendingRow(k, t) \in Session
      /\ PendingRow(k, t).kind = k
      /\ PendingRow(k, t).resolution = "pending"
      /\ PendingRow(k, t).consumed = FALSE
  BY RowsTyped DEF PendingRow, NoSession, Session, Kinds, Resolutions
<1>3. TypeOK'
  <2>1. token' \in [Tokens -> QrToken]
    BY <1>1, CountUseTyped DEF CountUse
  <2> QED
    BY <2>1, <1>1, <1>2 DEF TypeOK
<1>4. SessionShape'
  BY <1>1, <1>2 DEF SessionShape, TypeOK
<1>5. ExchangeOnce'
  BY <1>1, <1>2 DEF ExchangeOnce, SessionShape, NoSession, TypeOK
<1>6. PassAndSessionAgree'
  BY <1>1, <1>2 DEF PassAndSessionAgree, TypeOK, Pass
<1> QED
  BY <1>3, <1>4, <1>5, <1>6

LEMMA DecisionInv ==
  ASSUME NEW g \in Guests, IInv, Approve(g) \/ Reject(g)
  PROVE  IInv'
<1> USE DEF IInv
<1>1. CASE Approve(g)
  <2>1. TypeOK'
    <3>1. sess[g] \in Session /\ now + ExchangeTTL \in Nat
      BY ConstantsOK DEF TypeOK
    <3>2. [sess[g] EXCEPT !.resolution = "approved", !.codeExpires = now + ExchangeTTL,
                          !.consumed = FALSE] \in Session
      BY <3>1 DEF Session, Resolutions
    <3> QED
      BY <1>1, <3>2 DEF Approve, TypeOK
  <2>2. SessionShape'
    BY <1>1 DEF Approve, SessionShape, TypeOK, Session
  <2>3. ExchangeOnce'
    BY <1>1 DEF Approve, ExchangeOnce, SessionShape, TypeOK, Session
  <2>4. PassAndSessionAgree'
    BY <1>1 DEF Approve, PassAndSessionAgree, TypeOK, Session, Pass
  <2> QED
    BY <2>1, <2>2, <2>3, <2>4
<1>2. CASE Reject(g)
  <2>1. TypeOK'
    <3>1. /\ [sess[g] EXCEPT !.revoked = TRUE] \in Session
          /\ [sess[g] EXCEPT !.resolution = "rejected"] \in Session
      BY DEF TypeOK, Session, Resolutions
    <3> QED
      BY <1>2, <3>1 DEF Reject, RejectExpected, RejectRequest, TypeOK
  <2>2. SessionShape'
    BY <1>2 DEF Reject, RejectExpected, RejectRequest, SessionShape, TypeOK, Session
  <2>3. ExchangeOnce'
    BY <1>2 DEF Reject, RejectExpected, RejectRequest, ExchangeOnce, TypeOK, Session
  <2>4. PassAndSessionAgree'
    BY <1>2 DEF Reject, RejectExpected, RejectRequest, PassAndSessionAgree, TypeOK, Session, Pass
  <2> QED
    BY <2>1, <2>2, <2>3, <2>4
<1> QED
  BY <1>1, <1>2

LEMMA GuestAppInv ==
  ASSUME NEW g \in Guests, IInv, Poll(g) \/ Exchange(g)
  PROVE  IInv'
<1> USE DEF IInv
<1>0. ApprovedForAccess(sess[g]) /\ ~sess[g].consumed
  BY DEF Poll, Exchange
<1>a. sess[g].kind # "none" /\ sess[g].resolution # "pending"
  BY <1>0 DEF ApprovedForAccess, SessionShape
<1>1. CASE Poll(g)
  <2>1. TypeOK'
    <3>1. sess[g] \in Session /\ now + ExchangeTTL \in Nat
      BY ConstantsOK DEF TypeOK
    <3>2. [sess[g] EXCEPT !.codeExpires = now + ExchangeTTL, !.consumed = FALSE] \in Session
      BY <3>1 DEF Session
    <3> QED
      BY <1>1, <3>2 DEF Poll, TypeOK
  <2>2. SessionShape'
    BY <1>1, <1>a DEF Poll, SessionShape, TypeOK, Session
  <2>3. ExchangeOnce'
    BY <1>1, <1>0 DEF Poll, ExchangeOnce, TypeOK, Session
  <2>4. PassAndSessionAgree'
    BY <1>1 DEF Poll, PassAndSessionAgree, TypeOK, Session, Pass
  <2> QED
    BY <2>1, <2>2, <2>3, <2>4
<1>2. CASE Exchange(g)
  <2>1. TypeOK'
    <3>1. [sess[g] EXCEPT !.consumed = TRUE] \in Session
      BY DEF TypeOK, Session
    <3> QED
      BY <1>2, <3>1 DEF Exchange, TypeOK
  <2>2. SessionShape'
    BY <1>2, <1>a DEF Exchange, SessionShape, TypeOK, Session
  <2>3. ExchangeOnce'
    BY <1>2, <1>0 DEF Exchange, ExchangeOnce, TypeOK, Session
  <2>4. PassAndSessionAgree'
    BY <1>2 DEF Exchange, PassAndSessionAgree, TypeOK, Session, Pass
  <2> QED
    BY <2>1, <2>2, <2>3, <2>4
<1> QED
  BY <1>1, <1>2

LEMMA PassStepInv ==
  ASSUME IInv, PassStep
  PROVE  IInv'
<1> USE DEF IInv
<1>1. ASSUME NEW e \in Events, NEW x \in 1..MaxTime + 1, CreatePass(e, x)
      PROVE  IInv'
  <2>1. [status |-> "ACCEPTED", expires |-> x, usedBy |-> NoGuest] \in Pass
    BY ConstantsOK DEF Pass
  <2>2. TypeOK'
    BY <1>1, <2>1 DEF CreatePass, TypeOK
  <2>3. SessionShape' /\ ExchangeOnce'
    BY <1>1 DEF CreatePass, SessionShape, ExchangeOnce
  <2>4. PassAndSessionAgree'
    BY <1>1 DEF CreatePass, PassAndSessionAgree, TypeOK
  <2> QED
    BY <2>2, <2>3, <2>4
<1>2. ASSUME NEW e \in Events, NEW v \in {"ACCEPTED", "REJECTED"}, ReviewPass(e, v)
      PROVE  IInv'
  <2>1. [pass[e] EXCEPT !.status = v] \in Pass
    BY DEF TypeOK, Pass
  <2>2. TypeOK'
    BY <1>2, <2>1 DEF ReviewPass, TypeOK
  <2>3. SessionShape' /\ ExchangeOnce'
    BY <1>2 DEF ReviewPass, SessionShape, ExchangeOnce
  <2>4. PassAndSessionAgree'
    BY <1>2 DEF ReviewPass, PassAndSessionAgree, TypeOK, Pass
  <2> QED
    BY <2>2, <2>3, <2>4
<1>3. ASSUME NEW e \in Events, RevokePass(e)
      PROVE  IInv'
  <2>1. /\ pass[e] \in Pass
        /\ pass' = [pass EXCEPT ![e].status = "REVOKED"]
        /\ sess' = [g \in Guests |-> IF g = pass[e].usedBy
                                     THEN [sess[g] EXCEPT !.revoked = TRUE] ELSE sess[g]]
        /\ UNCHANGED <<token, issued, now>>
    BY <1>3 DEF RevokePass, TypeOK
  <2>2. \A g \in Guests : [sess[g] EXCEPT !.revoked = TRUE] \in Session
    BY DEF TypeOK, Session
  <2>3. TypeOK'
    <3>1. [pass[e] EXCEPT !.status = "REVOKED"] \in Pass
      BY <2>1 DEF Pass
    <3> QED
      BY <2>1, <2>2, <3>1 DEF TypeOK
  <2>4. \A g \in Guests : /\ sess'[g].kind = sess[g].kind
                          /\ sess'[g].resolution = sess[g].resolution
                          /\ sess'[g].consumed = sess[g].consumed
                          /\ sess[g].revoked => sess'[g].revoked
                          /\ g = pass[e].usedBy => sess'[g].revoked
    BY <2>1 DEF TypeOK, Session
  <2>5. \A g \in Guests : sess'[g].kind = "none" => sess'[g] = sess[g]
    BY <2>1, <2>4, ConstantsOK DEF PassAndSessionAgree
  <2>6. SessionShape' /\ ExchangeOnce'
    BY <2>1, <2>4, <2>5 DEF SessionShape, ExchangeOnce
  <2>7. PassAndSessionAgree'
    <3>1. \A f \in Events : /\ pass'[f].usedBy = pass[f].usedBy
                            /\ f # e => pass'[f].status = pass[f].status
      BY <2>1 DEF TypeOK, Pass
    <3>2. \A f \in Events : pass[f].usedBy \in Guests \cup {NoGuest}
      BY DEF TypeOK, Pass
    <3>3. ASSUME NEW f \in Events, pass[f].usedBy # NoGuest
          PROVE  /\ sess'[pass[f].usedBy].kind = "expected"
                 /\ \A h \in Events : pass[h].usedBy = pass[f].usedBy => h = f
                 /\ pass'[f].status = "REVOKED" => sess'[pass[f].usedBy].revoked
      <4>1. pass[f].usedBy \in Guests
        BY <3>2, <3>3
      <4>2. sess'[pass[f].usedBy].kind = "expected"
        BY <2>4, <3>3, <4>1 DEF PassAndSessionAgree
      <4>3. \A h \in Events : pass[h].usedBy = pass[f].usedBy => h = f
        BY <3>3 DEF PassAndSessionAgree
      <4>4. pass'[f].status = "REVOKED" => sess'[pass[f].usedBy].revoked
        BY <2>4, <3>1, <3>3, <4>1 DEF PassAndSessionAgree
      <4> QED
        BY <4>2, <4>3, <4>4
    <3> QED
      BY <3>1, <3>3 DEF PassAndSessionAgree
  <2> QED
    BY <2>3, <2>6, <2>7
<1>4. ASSUME NEW S \in SUBSET Events, RemovePasses(S)
      PROVE  IInv'
  <2>1. TypeOK'
    BY <1>4, RowsTyped DEF RemovePasses, TypeOK
  <2>2. SessionShape' /\ ExchangeOnce'
    BY <1>4 DEF RemovePasses, SessionShape, ExchangeOnce
  <2>3. PassAndSessionAgree'
    BY <1>4 DEF RemovePasses, PassAndSessionAgree, NoPass
  <2> QED
    BY <2>1, <2>2, <2>3
<1>5. ASSUME NEW e \in Events, AcceptPass(e) \/ RejectPass(e) \/ RevokePass(e) \/ DeletePass(e)
      PROVE  IInv'
  BY <1>2, <1>3, <1>4, <1>5 DEF AcceptPass, RejectPass, DeletePass
<1>6. ASSUME NEW S \in SUBSET Events, ClearExpiredPasses(S)
      PROVE  IInv'
  BY <1>4, <1>6 DEF ClearExpiredPasses
<1> QED
  BY <1>1, <1>5, <1>6 DEF PassStep

\* Token steps and the clock leave sessions, passes and issued JWTs alone.
LEMMA OtherStepInv ==
  ASSUME IInv, TokenStep \/ Tick \/ UNCHANGED vars
  PROVE  IInv'
<1> USE DEF IInv
<1>1. UNCHANGED <<sess, pass, issued>>
  BY DEF TokenStep, CreateToken, RevokeToken, Rotate, Tick, vars
<1>2. SessionShape' /\ ExchangeOnce' /\ PassAndSessionAgree'
  BY <1>1 DEF SessionShape, ExchangeOnce, PassAndSessionAgree
<1>3. now' \in Nat \ {0}
  BY DEF TypeOK, TokenStep, CreateToken, RevokeToken, Rotate, Tick, vars
<1>4. token' \in [Tokens -> QrToken]
  <2>1. CASE UNCHANGED token
    BY <2>1 DEF TypeOK
  <2>2. ASSUME NEW t \in Tokens, NEW k \in {"custom", "primary", "network"},
               NEW e \in Events \cup {NoEvent}, NEW x \in 0..MaxTime, NEW m \in UseLimits,
               CreateToken(t, k, e, x, m)
        PROVE  token' \in [Tokens -> QrToken]
    <3>1. NewToken(k, e, x, m) \in QrToken
      BY ConstantsOK DEF NewToken, QrToken
    <3> QED
      BY <2>2, <3>1 DEF CreateToken, TypeOK
  <2>3. \A u \in Tokens : [token[u] EXCEPT !.revoked = TRUE] \in QrToken
    BY DEF TypeOK, QrToken
  <2>4. ASSUME NEW t \in Tokens, RevokeToken(t)
        PROVE  token' \in [Tokens -> QrToken]
    BY <2>3, <2>4 DEF RevokeToken, TypeOK
  <2>5. ASSUME NEW t \in Tokens, NEW k \in {"primary", "network"}, Rotate(t, k)
        PROVE  token' \in [Tokens -> QrToken]
    <3>1. NewToken(k, NoEvent, 0, 0) \in QrToken
      BY DEF NewToken, QrToken
    <3> QED
      BY <2>3, <2>5, <3>1 DEF Rotate, TypeOK
  <2>6. CASE Tick \/ UNCHANGED vars
    BY <2>1, <2>6 DEF Tick, vars
  <2> QED
    BY <2>2, <2>4, <2>5, <2>6 DEF TokenStep
<1> QED
  BY <1>1, <1>2, <1>3, <1>4 DEF TypeOK

LEMMA NextInv == IInv /\ [Next]_vars => IInv'
<1> SUFFICES ASSUME IInv, [Next]_vars PROVE IInv'
  OBVIOUS
<1>1. ASSUME NEW g \in Guests, GuestStep(g) PROVE IInv'
  BY <1>1, ArriveWithPassInv, ArriveUnannouncedInv, DecisionInv, GuestAppInv DEF GuestStep
<1> QED
  BY <1>1, PassStepInv, OtherStepInv DEF Next

THEOREM Invariance == Spec => []IInv
  BY InitInv, NextInv, PTL DEF Spec

------------------------------------------------------------------------------
(* Safety *)

\* The tables keep their types.
THEOREM TypeCorrect == Spec => []TypeOK
<1>1. IInv => TypeOK
  BY DEF IInv
<1> QED
  BY <1>1, Invariance, PTL

\* A session hands out one guest JWT over its whole life, whatever is approved,
\* re-minted, expired or polled in between.
THEOREM OneJwtPerSession == Spec => []ExchangeOnce
<1>1. IInv => ExchangeOnce
  BY DEF IInv
<1> QED
  BY <1>1, Invariance, PTL

\* A used pass and the session it opened agree, and a revoked pass leaves no
\* open session behind.
THEOREM PassSessionConsistent == Spec => []PassAndSessionAgree
<1>1. IInv => PassAndSessionAgree
  BY DEF IInv
<1> QED
  BY <1>1, Invariance, PTL

\* The guest API serves an exchanged JWT only to a guest who is cleared.
THEOREM BearerNeedsClearance == Spec => []LiveBearerIsCleared
<1>1. IInv => LiveBearerIsCleared
  <2> SUFFICES ASSUME IInv, NEW g \in Guests, issued[g] > 0, BearerActive(g)
               PROVE  ApprovedForAccess(sess[g])
    BY DEF LiveBearerIsCleared
  <2>1. sess[g].consumed
    BY DEF IInv, ExchangeOnce
  <2>2. sess[g] \in Session
    BY DEF IInv, TypeOK
  <2> QED
    BY <2>1, <2>2 DEF IInv, SessionShape, BearerActive, ApprovedForAccess, Session, Kinds
<1> QED
  BY <1>1, Invariance, PTL

\* A zone never has two active tokens of a kind that get-or-create and rotate own.
THEOREM OneActive == Spec => []OneActiveToken
<1> DEFINE Inv == TypeOK /\ OneActiveToken
<1>1. Init => Inv
  BY InitInv DEF Init, IInv, OneActiveToken, ActiveOfKind, UnusedToken
<1>2. IInv /\ OneActiveToken /\ [Next]_vars => OneActiveToken'
  <2> SUFFICES ASSUME IInv, OneActiveToken, [Next]_vars PROVE OneActiveToken'
    OBVIOUS
  <2> USE DEF IInv
  <2>1. ASSUME \A t \in Tokens : token'[t].kind = token[t].kind /\ (token[t].revoked => token'[t].revoked)
        PROVE  OneActiveToken'
    BY <2>1 DEF OneActiveToken, ActiveOfKind
  <2>2. ASSUME NEW t \in Tokens \cup {NoToken}, CountUse(t)
        PROVE  OneActiveToken'
    <3>1. \A u \in Tokens : token'[u].kind = token[u].kind /\ token'[u].revoked = token[u].revoked
      BY <2>2 DEF CountUse, TypeOK, QrToken
    <3> QED
      BY <3>1 DEF OneActiveToken, ActiveOfKind
  <2>3. ASSUME NEW g \in Guests, GuestStep(g)
        PROVE  OneActiveToken'
    <3>1. CASE UNCHANGED token
      BY <3>1 DEF OneActiveToken, ActiveOfKind
    <3>2. UNCHANGED token \/ \E t \in Tokens \cup {NoToken} : CountUse(t)
      BY <2>3 DEF GuestStep, ArriveWithPass, ArriveUnannounced, Arrive, Approve, Reject, Poll, Exchange
    <3> QED
      BY <2>2, <3>1, <3>2
  <2>4. ASSUME NEW t \in Tokens, NEW k \in {"custom", "primary", "network"},
               NEW e \in Events \cup {NoEvent}, NEW x \in 0..MaxTime, NEW m \in UseLimits,
               CreateToken(t, k, e, x, m)
        PROVE  OneActiveToken'
    <3>1. /\ token' = [token EXCEPT ![t] = NewToken(k, e, x, m)]
          /\ k # "custom" => ActiveOfKind(k) = {}
          /\ NewToken(k, e, x, m).kind = k
      BY <2>4 DEF CreateToken, NewToken
    <3>2. \A u \in Tokens : u # t => token'[u] = token[u]
      BY <3>1 DEF TypeOK
    <3>3. token'[t].kind = k
      BY <3>1 DEF TypeOK
    <3> QED
      BY <3>1, <3>2, <3>3 DEF OneActiveToken, ActiveOfKind
  <2>5. ASSUME NEW t \in Tokens, RevokeToken(t)
        PROVE  OneActiveToken'
    <3>1. \A u \in Tokens : token'[u].kind = token[u].kind /\ (token[u].revoked => token'[u].revoked)
      BY <2>5 DEF RevokeToken, TypeOK, QrToken
    <3> QED
      BY <2>1, <3>1
  <2>6. ASSUME NEW t \in Tokens, NEW k \in {"primary", "network"}, Rotate(t, k)
        PROVE  OneActiveToken'
    <3>1. /\ token'[t].kind = k
          /\ \A u \in Tokens : u # t =>
                 /\ token'[u].kind = token[u].kind
                 /\ token[u].revoked => token'[u].revoked
                 /\ u \in ActiveOfKind(k) => token'[u].revoked
      BY <2>6 DEF Rotate, NewToken, TypeOK, QrToken
    <3> QED
      BY <3>1 DEF OneActiveToken, ActiveOfKind
  <2>7. CASE UNCHANGED token
    BY <2>7 DEF OneActiveToken, ActiveOfKind
  <2>8. PassStep \/ Tick \/ UNCHANGED vars => UNCHANGED token
    BY DEF PassStep, CreatePass, AcceptPass, RejectPass, ReviewPass, RevokePass, DeletePass,
           ClearExpiredPasses, RemovePasses, Tick, vars
  <2> QED
    BY <2>3, <2>4, <2>5, <2>6, <2>7, <2>8 DEF Next, TokenStep
<1>3. Init => OneActiveToken
  BY <1>1
<1> QED
  BY <1>2, <1>3, Invariance, PTL DEF Spec

------------------------------------------------------------------------------
(* Passes are used once *)

\* A pass that does not exist has no columns: a pass created again starts unused.
AbsentPassEmpty == \A e \in Events : pass[e].status = "none" => pass[e] = NoPass

LEMMA PassColumns ==
  ASSUME IInv, AbsentPassEmpty, [Next]_vars
  PROVE  /\ AbsentPassEmpty'
         /\ \A e \in Events : pass[e].usedBy # NoGuest =>
                pass'[e] = NoPass \/ pass'[e].usedBy = pass[e].usedBy
<1> DEFINE Kept(e) ==
      /\ pass'[e].status = "none" => pass'[e] = NoPass
      /\ pass[e].usedBy # NoGuest => pass'[e] = NoPass \/ pass'[e].usedBy = pass[e].usedBy
<1> SUFFICES \A e \in Events : Kept(e)
  BY DEF AbsentPassEmpty
<1> USE DEF IInv
<1>1. CASE UNCHANGED pass
  BY <1>1 DEF AbsentPassEmpty
<1>2. ASSUME NEW g \in Guests, NEW e \in Events \cup {NoEvent}, NEW t \in Tokens \cup {NoToken},
             ArriveWithPass(g, e, t)
      PROVE  \A d \in Events : Kept(d)
  <2> DEFINE f == MergedEvent(e, t)
  <2>1. f \in Events /\ pass[f].usedBy = NoGuest /\ pass[f].status = "ACCEPTED"
    BY <1>2 DEF ArriveWithPass, PassAdmits, MergedEvent, TypeOK, QrToken
  <2>2. pass' = [pass EXCEPT ![f].usedBy = g]
    BY <1>2 DEF ArriveWithPass
  <2>3. \A d \in Events : d # f => pass'[d] = pass[d]
    BY <2>2 DEF TypeOK
  <2>4. pass'[f].status = "ACCEPTED"
    BY <2>1, <2>2 DEF TypeOK, Pass
  <2> QED
    BY <2>1, <2>3, <2>4 DEF AbsentPassEmpty
<1>3. ASSUME NEW e \in Events, NEW x \in 1..MaxTime + 1, CreatePass(e, x)
      PROVE  \A d \in Events : Kept(d)
  <2>1. pass[e].usedBy = NoGuest
    BY <1>3 DEF CreatePass, PassExists, AbsentPassEmpty, NoPass
  <2>2. pass'[e].status = "ACCEPTED" /\ \A d \in Events : d # e => pass'[d] = pass[d]
    BY <1>3 DEF CreatePass, TypeOK
  <2> QED
    BY <2>1, <2>2 DEF AbsentPassEmpty
<1>4. ASSUME NEW e \in Events, NEW v \in {"ACCEPTED", "REJECTED", "REVOKED"},
             pass' = [pass EXCEPT ![e].status = v]
      PROVE  \A d \in Events : Kept(d)
  <2>1. pass'[e].status = v /\ pass'[e].usedBy = pass[e].usedBy
    BY <1>4 DEF TypeOK, Pass
  <2>2. \A d \in Events : d # e => pass'[d] = pass[d]
    BY <1>4 DEF TypeOK
  <2> QED
    BY <2>1, <2>2 DEF AbsentPassEmpty
<1>5. ASSUME NEW S \in SUBSET Events, RemovePasses(S)
      PROVE  \A d \in Events : Kept(d)
  BY <1>5 DEF RemovePasses, AbsentPassEmpty
<1>6. CASE PassStep
  <2>1. ASSUME NEW e \in Events, AcceptPass(e) \/ RejectPass(e) \/ RevokePass(e) \/ DeletePass(e)
        PROVE  \A d \in Events : Kept(d)
    BY <1>4, <1>5, <2>1 DEF AcceptPass, RejectPass, ReviewPass, RevokePass, DeletePass
  <2>2. ASSUME NEW S \in SUBSET Events, ClearExpiredPasses(S)
        PROVE  \A d \in Events : Kept(d)
    BY <1>5, <2>2 DEF ClearExpiredPasses
  <2> QED
    BY <1>3, <1>6, <2>1, <2>2 DEF PassStep
<1>7. ASSUME NEW g \in Guests, GuestStep(g)
      PROVE  \A d \in Events : Kept(d)
  <2>1. CASE \E e \in Events \cup {NoEvent}, t \in Tokens \cup {NoToken} : ArriveWithPass(g, e, t)
    BY <1>2, <2>1
  <2>2. CASE UNCHANGED pass
    BY <1>1, <2>2
  <2> QED
    BY <1>7, <2>1, <2>2 DEF GuestStep, ArriveUnannounced, Approve, Reject, Poll, Exchange
<1>8. TokenStep \/ Tick \/ UNCHANGED vars => UNCHANGED pass
  BY DEF TokenStep, CreateToken, RevokeToken, Rotate, Tick, vars
<1> QED
  BY <1>1, <1>6, <1>7, <1>8 DEF Next

\* While a guest pass exists nobody but its first guest uses it, whatever is approved,
\* revoked, deleted and created again, for any number of guests and events.
THEOREM PassUsedOnce == Spec => PassAdmitsOnce
<1>1. Init => AbsentPassEmpty
  BY DEF Init, AbsentPassEmpty, NoPass
<1>2. IInv /\ AbsentPassEmpty /\ [Next]_vars =>
          /\ AbsentPassEmpty'
          /\ [\A e \in Events : pass[e].usedBy # NoGuest =>
                 pass'[e] = NoPass \/ pass'[e].usedBy = pass[e].usedBy]_vars
  BY PassColumns
<1> QED
  BY <1>1, <1>2, Invariance, PTL DEF Spec, PassAdmitsOnce

------------------------------------------------------------------------------
(* Tokens count their guests *)

UsersOf(t) == {g \in Guests : sess[g].qr = t}

\* A token not created yet has no uses, and so no guests; its successors start at zero.
AbsentTokenEmpty == \A t \in Tokens : token[t].kind = "none" => token[t].uses = 0

LEMMA TokenUsesArrive ==
  ASSUME IInv, TokenUsesHonest, AbsentTokenEmpty,
         NEW g \in Guests, NEW t \in Tokens \cup {NoToken}, NEW e, NEW row \in Session,
         TokenAccepts(e, t), row.qr = t, Arrive(g, row, t)
  PROVE  (TokenUsesHonest /\ AbsentTokenEmpty)'
<1> USE DEF IInv
<1>1. /\ sess[g].qr = NoToken
      /\ \A h \in Guests : sess'[h].qr = IF h = g THEN t ELSE sess[h].qr
      /\ token' = IF t = NoToken THEN token ELSE [token EXCEPT ![t].uses = @ + 1]
  BY DEF Arrive, CountUse, SessionShape, NoSession, TypeOK
<1>2. CASE t = NoToken
  <2>1. token' = token /\ \A u \in Tokens : UsersOf(u)' = UsersOf(u)
    BY <1>1, <1>2, ConstantsOK DEF UsersOf
  <2> QED
    BY <2>1 DEF TokenUsesHonest, AbsentTokenEmpty, UsersOf
<1>3. CASE t # NoToken
  <2>1. /\ t \in Tokens /\ token[t].kind # "none"
        /\ token[t].maxUses # 0 => token[t].uses < token[t].maxUses
    BY <1>3 DEF TokenAccepts, TokenUsable
  <2>2. /\ token[t].uses \in Nat /\ token[t].maxUses \in Nat
        /\ token'[t].kind = token[t].kind /\ token'[t].maxUses = token[t].maxUses
        /\ token'[t].uses = token[t].uses + 1
        /\ \A u \in Tokens : u # t => token'[u] = token[u]
    BY <1>1, <1>3, <2>1 DEF TypeOK, QrToken
  <2>3. g \notin UsersOf(t) /\ UsersOf(t)' = UsersOf(t) \cup {g}
    BY <1>1, <1>3 DEF UsersOf
  <2>4. \A u \in Tokens : u # t => UsersOf(u)' = UsersOf(u)
    BY <1>1, ConstantsOK DEF UsersOf
  <2>5. IsFiniteSet(UsersOf(t))
    BY ConstantsOK, FS_Subset DEF UsersOf
  <2>6. Cardinality(UsersOf(t) \cup {g}) = Cardinality(UsersOf(t)) + 1
    BY <2>3, <2>5, FS_AddElement
  <2>7. \A u \in Tokens :
            /\ token[u].uses = Cardinality(UsersOf(u))
            /\ token[u].maxUses # 0 => token[u].uses <= token[u].maxUses
    BY DEF TokenUsesHonest, UsersOf
  <2>8. token'[t].uses = Cardinality(UsersOf(t)') /\ (token'[t].maxUses # 0 => token'[t].uses <= token'[t].maxUses)
    BY <2>1, <2>2, <2>3, <2>6, <2>7
  <2>9. \A u \in Tokens :
            /\ token'[u].uses = Cardinality(UsersOf(u)')
            /\ token'[u].maxUses # 0 => token'[u].uses <= token'[u].maxUses
    BY <2>2, <2>4, <2>7, <2>8
  <2>10. AbsentTokenEmpty'
    BY <2>1, <2>2 DEF AbsentTokenEmpty
  <2> QED
    BY <2>9, <2>10 DEF TokenUsesHonest, UsersOf
<1> QED
  BY <1>2, <1>3

\* A token that is created, by rotation or not, has no guests yet.
LEMMA TokenUsesStep ==
  ASSUME IInv, TokenUsesHonest, AbsentTokenEmpty, TokenStep
  PROVE  (TokenUsesHonest /\ AbsentTokenEmpty)'
<1> USE DEF IInv
<1>1. ASSUME NEW t \in Tokens, token[t].kind = "none", NEW new \in QrToken, new.uses = 0,
             UNCHANGED sess, token'[t] = new,
             \A u \in Tokens \ {t} : /\ token'[u].kind = token[u].kind
                                     /\ token'[u].uses = token[u].uses
                                     /\ token'[u].maxUses = token[u].maxUses
      PROVE  (TokenUsesHonest /\ AbsentTokenEmpty)'
  <2>1. token[t].uses = 0 /\ new.maxUses \in Nat
    BY <1>1 DEF AbsentTokenEmpty, QrToken
  <2>2. \A u \in Tokens :
            /\ token[u].uses = Cardinality(UsersOf(u)) /\ UsersOf(u)' = UsersOf(u)
            /\ token[u].maxUses # 0 => token[u].uses <= token[u].maxUses
    BY <1>1 DEF TokenUsesHonest, UsersOf
  <2>3. token'[t].uses = 0 /\ token'[t].maxUses \in Nat
    BY <1>1, <2>1
  <2>4. \A u \in Tokens :
            /\ token'[u].uses = Cardinality(UsersOf(u)')
            /\ token'[u].maxUses # 0 => token'[u].uses <= token'[u].maxUses
    BY <1>1, <2>1, <2>2, <2>3
  <2>5. AbsentTokenEmpty'
    BY <1>1, <2>3 DEF AbsentTokenEmpty
  <2> QED
    BY <2>4, <2>5 DEF TokenUsesHonest, UsersOf
<1>2. ASSUME NEW t \in Tokens, NEW k \in {"custom", "primary", "network"},
             NEW e \in Events \cup {NoEvent}, NEW x \in 0..MaxTime, NEW m \in UseLimits,
             CreateToken(t, k, e, x, m)
      PROVE  (TokenUsesHonest /\ AbsentTokenEmpty)'
  <2>1. NewToken(k, e, x, m) \in QrToken /\ NewToken(k, e, x, m).uses = 0
    BY ConstantsOK DEF NewToken, QrToken
  <2>2. /\ token[t].kind = "none" /\ UNCHANGED sess
        /\ token'[t] = NewToken(k, e, x, m)
        /\ \A u \in Tokens \ {t} : token'[u] = token[u]
    BY <1>2 DEF CreateToken, TypeOK
  <2> QED
    BY <1>1, <2>1, <2>2
<1>3. ASSUME NEW t \in Tokens, RevokeToken(t)
      PROVE  (TokenUsesHonest /\ AbsentTokenEmpty)'
  <2>1. /\ UNCHANGED sess
        /\ \A u \in Tokens : /\ token'[u].kind = token[u].kind
                             /\ token'[u].uses = token[u].uses
                             /\ token'[u].maxUses = token[u].maxUses
    BY <1>3 DEF RevokeToken, TypeOK, QrToken
  <2> QED
    BY <2>1 DEF TokenUsesHonest, AbsentTokenEmpty
<1>4. ASSUME NEW t \in Tokens, NEW k \in {"primary", "network"}, Rotate(t, k)
      PROVE  (TokenUsesHonest /\ AbsentTokenEmpty)'
  <2>1. NewToken(k, NoEvent, 0, 0) \in QrToken /\ NewToken(k, NoEvent, 0, 0).uses = 0
    BY DEF NewToken, QrToken
  <2>2. /\ token[t].kind = "none" /\ UNCHANGED sess
        /\ token'[t] = NewToken(k, NoEvent, 0, 0)
        /\ \A u \in Tokens \ {t} : /\ token'[u].kind = token[u].kind
                                   /\ token'[u].uses = token[u].uses
                                   /\ token'[u].maxUses = token[u].maxUses
    BY <1>4 DEF Rotate, TypeOK, QrToken
  <2> QED
    BY <1>1, <2>1, <2>2
<1> QED
  BY <1>2, <1>3, <1>4 DEF TokenStep

LEMMA TokenUsesNext ==
  ASSUME IInv, TokenUsesHonest, AbsentTokenEmpty, [Next]_vars
  PROVE  (TokenUsesHonest /\ AbsentTokenEmpty)'
<1> USE DEF IInv
<1>1. ASSUME UNCHANGED token, \A g \in Guests : sess'[g].qr = sess[g].qr
      PROVE  (TokenUsesHonest /\ AbsentTokenEmpty)'
  BY <1>1 DEF TokenUsesHonest, AbsentTokenEmpty
<1>2. ASSUME NEW g \in Guests, GuestStep(g)
      PROVE  (TokenUsesHonest /\ AbsentTokenEmpty)'
  <2>1. ASSUME NEW e \in Events \cup {NoEvent}, NEW t \in Tokens \cup {NoToken},
               ArriveWithPass(g, e, t)
        PROVE  (TokenUsesHonest /\ AbsentTokenEmpty)'
    <3>1. now + ExchangeTTL \in Nat
      BY ConstantsOK DEF TypeOK
    <3>2. ExpectedRow(t) \in Session /\ ExpectedRow(t).qr = t
      BY <3>1, RowsTyped DEF ExpectedRow, NoSession, Session, Kinds
    <3> QED
      BY <2>1, <3>2, TokenUsesArrive DEF ArriveWithPass
  <2>2. ASSUME NEW e \in Events \cup {NoEvent}, NEW t \in Tokens \cup {NoToken},
               NEW b \in BOOLEAN, ArriveUnannounced(g, e, t, b)
        PROVE  (TokenUsesHonest /\ AbsentTokenEmpty)'
    <3>1. PICK k \in {"unexpected", "network_access"} : Arrive(g, PendingRow(k, t), t)
      BY <2>2 DEF ArriveUnannounced
    <3>2. PendingRow(k, t) \in Session /\ PendingRow(k, t).qr = t
      BY RowsTyped DEF PendingRow, NoSession, Session, Kinds, Resolutions
    <3> QED
      BY <2>2, <3>1, <3>2, TokenUsesArrive DEF ArriveUnannounced
  <2>3. ASSUME Approve(g) \/ Reject(g) \/ Poll(g) \/ Exchange(g)
        PROVE  (TokenUsesHonest /\ AbsentTokenEmpty)'
    <3>1. UNCHANGED token /\ \A h \in Guests : sess'[h].qr = sess[h].qr
      BY <2>3 DEF Approve, Reject, RejectExpected, RejectRequest, Poll, Exchange, TypeOK, Session
    <3> QED
      BY <1>1, <3>1
  <2> QED
    BY <1>2, <2>1, <2>2, <2>3 DEF GuestStep
<1>3. CASE PassStep \/ Tick \/ UNCHANGED vars
  <2>1. UNCHANGED token /\ \A g \in Guests : sess'[g].qr = sess[g].qr
    BY <1>3 DEF PassStep, CreatePass, AcceptPass, RejectPass, ReviewPass, RevokePass, DeletePass,
                ClearExpiredPasses, RemovePasses, Tick, vars, TypeOK, Session
  <2> QED
    BY <1>1, <2>1
<1> QED
  BY <1>2, <1>3, TokenUsesStep DEF Next

\* A QR link has counted exactly the guests who came through it, and no more than its
\* limit, for any number of links, guests and limits.
THEOREM TokensCountGuests == Spec => []TokenUsesHonest
<1>1. Init => TokenUsesHonest /\ AbsentTokenEmpty
  <2> SUFFICES ASSUME Init PROVE TokenUsesHonest /\ AbsentTokenEmpty
    OBVIOUS
  <2>1. \A t \in Tokens : {g \in Guests : sess[g].qr = t} = {}
    BY ConstantsOK DEF Init, NoSession
  <2>2. \A t \in Tokens : token[t].uses = 0 /\ token[t].maxUses = 0
    BY DEF Init, UnusedToken
  <2> QED
    BY <2>1, <2>2, FS_EmptySet DEF TokenUsesHonest, AbsentTokenEmpty
<1>2. IInv /\ TokenUsesHonest /\ AbsentTokenEmpty /\ [Next]_vars
          => (TokenUsesHonest /\ AbsentTokenEmpty)'
  BY TokenUsesNext
<1> QED
  BY <1>1, <1>2, Invariance, PTL DEF Spec

------------------------------------------------------------------------------
(* Refinement: the handlers implement GuestAdmission *)

LEMMA OneMoves ==
  ASSUME NEW g \in Guests, \A h \in Guests \ {g} : sess'[h] = sess[h]
  PROVE  Stage' = [Stage EXCEPT ![g] = Stage'[g]]
  BY DEF Stage

LEMMA StepImplements ==
  ASSUME IInv, [Next]_vars
  PROVE  [Admission!Next]_Stage
<1> USE DEF IInv
<1> DEFINE Moved(g, from, to) == Stage[g] \in from /\ Stage' = [Stage EXCEPT ![g] = to]
<1>1. ASSUME NEW g \in Guests,
             \/ Moved(g, {"absent"}, "waiting")
             \/ Moved(g, {"absent", "waiting"}, "cleared")
             \/ Moved(g, {"cleared"}, "inside")
             \/ Moved(g, {"waiting", "cleared", "inside"}, "denied")
      PROVE  Admission!Next
  BY <1>1 DEF Admission!Next, Admission!Queue, Admission!Clear, Admission!Enter,
              Admission!Deny, Admission!Move
<1>2. CASE UNCHANGED sess
  BY <1>2 DEF Stage
<1>3. ASSUME NEW g \in Guests, NEW e \in Events \cup {NoEvent}, NEW t \in Tokens \cup {NoToken},
             ArriveWithPass(g, e, t)
      PROVE  Admission!Next
  <2>1. /\ sess[g].kind = "none"
        /\ sess' = [sess EXCEPT ![g] = ExpectedRow(t)]
    BY <1>3 DEF ArriveWithPass, Arrive
  <2>2. Stage[g] = "absent"
    BY <2>1 DEF Stage
  <2>3. Stage'[g] = "cleared"
    BY <2>1 DEF Stage, TypeOK, ExpectedRow, NoSession
  <2>4. Stage' = [Stage EXCEPT ![g] = Stage'[g]]
    BY <2>1, OneMoves DEF TypeOK
  <2> QED
    BY <1>1, <2>2, <2>3, <2>4
<1>4. ASSUME NEW g \in Guests, NEW e \in Events \cup {NoEvent}, NEW t \in Tokens \cup {NoToken},
             NEW b \in BOOLEAN, ArriveUnannounced(g, e, t, b)
      PROVE  Admission!Next
  <2>1. PICK k \in {"unexpected", "network_access"} :
            /\ sess[g].kind = "none"
            /\ sess' = [sess EXCEPT ![g] = PendingRow(k, t)]
    BY <1>4 DEF ArriveUnannounced, Arrive
  <2>2. Stage[g] = "absent"
    BY <2>1 DEF Stage
  <2>3. Stage'[g] = "waiting"
    BY <2>1 DEF Stage, TypeOK, PendingRow, NoSession
  <2>4. Stage' = [Stage EXCEPT ![g] = Stage'[g]]
    BY <2>1, OneMoves DEF TypeOK
  <2> QED
    BY <1>1, <2>2, <2>3, <2>4
<1>5. ASSUME NEW g \in Guests, Approve(g)
      PROVE  Admission!Next
  <2>1. Stage[g] = "waiting"
    BY <1>5 DEF Approve, Stage, SessionShape
  <2>2. Stage'[g] = "cleared"
    BY <1>5 DEF Approve, Stage, TypeOK, Session
  <2>3. Stage' = [Stage EXCEPT ![g] = Stage'[g]]
    BY <1>5, OneMoves DEF Approve, TypeOK
  <2> QED
    BY <1>1, <2>1, <2>2, <2>3
<1>6. ASSUME NEW g \in Guests, Reject(g)
      PROVE  Admission!Next
  <2>1. Stage[g] \in {"waiting", "cleared", "inside"}
    BY <1>6 DEF Reject, RejectExpected, RejectRequest, Stage, SessionShape
  <2>2. Stage'[g] = "denied"
    BY <1>6 DEF Reject, RejectExpected, RejectRequest, Stage, TypeOK, Session
  <2>3. Stage' = [Stage EXCEPT ![g] = Stage'[g]]
    BY <1>6, OneMoves DEF Reject, RejectExpected, RejectRequest, TypeOK
  <2> QED
    BY <1>1, <2>1, <2>2, <2>3
<1>7. ASSUME NEW g \in Guests, Poll(g)
      PROVE  UNCHANGED Stage
  <2>1. \A h \in Guests : /\ sess'[h].kind = sess[h].kind
                          /\ sess'[h].resolution = sess[h].resolution
                          /\ sess'[h].revoked = sess[h].revoked
                          /\ sess'[h].consumed = sess[h].consumed
    BY <1>7 DEF Poll, TypeOK, Session
  <2> QED
    BY <2>1 DEF Stage
<1>8. ASSUME NEW g \in Guests, Exchange(g)
      PROVE  Admission!Next
  <2>1. Stage[g] = "cleared"
    BY <1>8 DEF Exchange, ApprovedForAccess, Stage, SessionShape
  <2>2. Stage'[g] = "inside"
    BY <1>8 DEF Exchange, ApprovedForAccess, Stage, SessionShape, TypeOK, Session
  <2>3. Stage' = [Stage EXCEPT ![g] = Stage'[g]]
    BY <1>8, OneMoves DEF Exchange, TypeOK
  <2> QED
    BY <1>1, <2>1, <2>2, <2>3
<1>9. ASSUME NEW e \in Events, RevokePass(e)
      PROVE  [Admission!Next]_Stage
  <2>1. sess' = [g \in Guests |-> IF g = pass[e].usedBy THEN [sess[g] EXCEPT !.revoked = TRUE]
                                                        ELSE sess[g]]
    BY <1>9 DEF RevokePass
  <2>2. CASE pass[e].usedBy \notin Guests
    BY <2>1, <2>2, <1>2 DEF TypeOK
  <2>3. ASSUME NEW g \in Guests, g = pass[e].usedBy
        PROVE  [Admission!Next]_Stage
    <3>1. sess[g].kind = "expected" /\ sess[g].resolution = "none"
      BY <2>3, ConstantsOK DEF PassAndSessionAgree, SessionShape
    <3>2. Stage[g] \in {"cleared", "inside", "denied"}
      BY <3>1 DEF Stage
    <3>3. Stage'[g] = "denied"
      BY <2>1, <2>3, <3>1 DEF Stage, TypeOK, Session
    <3>4. Stage' = [Stage EXCEPT ![g] = Stage'[g]]
      BY <2>1, <2>3, OneMoves
    <3>5. CASE Stage[g] = "denied"
      BY <3>3, <3>4, <3>5 DEF Stage
    <3> QED
      BY <1>1, <3>2, <3>3, <3>4, <3>5
  <2> QED
    BY <2>2, <2>3
<1>10. PassStep => UNCHANGED sess \/ \E e \in Events : RevokePass(e)
  BY DEF PassStep, CreatePass, AcceptPass, RejectPass, ReviewPass, DeletePass,
         ClearExpiredPasses, RemovePasses
<1>11. TokenStep \/ Tick \/ UNCHANGED vars => UNCHANGED sess
  BY DEF TokenStep, CreateToken, RevokeToken, Rotate, Tick, vars
<1>12. ASSUME NEW g \in Guests, GuestStep(g)
       PROVE  [Admission!Next]_Stage
  BY <1>3, <1>4, <1>5, <1>6, <1>7, <1>8, <1>12 DEF GuestStep
<1> QED
  BY <1>2, <1>9, <1>10, <1>11, <1>12 DEF Next

\* Every behaviour of the handlers is one GuestAdmission allows: nobody enters
\* uncleared or twice, and nobody comes back after a rejection or revocation.
THEOREM Implementation == Spec => AdmissionSpec
<1>1. Init => Admission!Init
  BY DEF Init, Admission!Init, Stage, NoSession
<1>2. IInv /\ [Next]_vars => [Admission!Next]_Stage
  BY StepImplements
<1> QED
  BY <1>1, <1>2, Invariance, PTL DEF Spec, AdmissionSpec, Admission!Spec
=============================================================================
