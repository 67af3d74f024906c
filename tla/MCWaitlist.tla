------------------------------ MODULE MCWaitlist ------------------------------
(* Waitlist on a small instance.                                           *)
EXTENDS Waitlist, TLC

\* Holds, users and workers are interchangeable; seats and entries are ordered.
WaitlistSymmetry == Permutations(Holds) \cup Permutations(Users) \cup Permutations(Workers)
=============================================================================
