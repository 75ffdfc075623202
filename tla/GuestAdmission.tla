--------------------------- MODULE GuestAdmission ---------------------------
(* What a guest is promised, without passes, tokens, codes or clocks: a guest *)
(* who shows up either waits for an administrator or is cleared at once, only *)
(* a cleared guest gets inside, a guest gets inside once, and a guest who was *)
(* turned away never comes back under the same session.                       *)
CONSTANT Guests

VARIABLE stage   \* where each guest session stands

Stages == {"absent", "waiting", "cleared", "inside", "denied"}

TypeOK == stage \in [Guests -> Stages]

Init == stage = [g \in Guests |-> "absent"]

Move(g, from, to) ==
    /\ stage[g] \in from
    /\ stage' = [stage EXCEPT ![g] = to]

Queue(g) == Move(g, {"absent"}, "waiting")
Clear(g) == Move(g, {"absent", "waiting"}, "cleared")
Enter(g) == Move(g, {"cleared"}, "inside")
Deny(g)  == Move(g, {"waiting", "cleared", "inside"}, "denied")

Next == \E g \in Guests : Queue(g) \/ Clear(g) \/ Enter(g) \/ Deny(g)

Spec == Init /\ [][Next]_stage
=============================================================================
