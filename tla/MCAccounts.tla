----------------------------- MODULE MCAccounts -----------------------------
(***************************************************************************)
(* The instances of Zones and Accounts that TLC checks together.  They      *)
(* share no state: one of them is in focus from the start and moves, the    *)
(* other keeps its initial state.                                           *)
(***************************************************************************)
EXTENDS Zones, Accounts, TLC

VARIABLE focus

\* Owners and threads share their values, and so do names and addresses: in
\* every focus these are interchangeable, and the group is small.
Symmetry == Permutations(Owners) \cup Permutations(Names)

\* One code and at most two persons; the requests of the threads use it.
Claimed(e) == Known(e) \/ \E t \in Threads : reg[t] # NoReg /\ reg[t].email = e
CodesOnly == AcNext /\ invite' = invite /\ Cardinality({e \in Emails : Claimed(e)'}) <= 2

\* Invites but no codes; the requests of the threads register members.
SeatsOnly ==
    /\ AcNext /\ regCode' = regCode
    /\ \A t \in Threads : reg'[t] # NoReg => reg'[t].kind = "member"

accountVars == <<znVars, acVars, focus>>

AccountInit == ZnInit /\ AcInit /\ focus \in {"zones", "codes", "seats"}

AccountNext ==
    /\ UNCHANGED focus
    /\ \/ focus = "zones" /\ ZnNext /\ UNCHANGED acVars
       \/ focus = "codes" /\ CodesOnly /\ UNCHANGED znVars
       \/ focus = "seats" /\ SeatsOnly /\ UNCHANGED znVars

AccountSpec == AccountInit /\ [][AccountNext]_accountVars

\* Administrators register, with a code or without.
LoopSpec == AccountInit /\ focus = "codes" /\ [][AccountNext]_accountVars

TypesOK == ZnTypeOK /\ AcTypeOK
=============================================================================
