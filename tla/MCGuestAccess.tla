---------------------------- MODULE MCGuestAccess ----------------------------
(* Model-checking instance of GuestAccess.                                     *)
EXTENDS GuestAccess, TLC

\* Guests, events and tokens are interchangeable; used by the safety runs only.
Symmetry == Permutations(Guests) \cup Permutations(Events) \cup Permutations(Tokens)
=============================================================================
