---------------------------- MODULE MCLineWebhook ---------------------------
(* Two events of one user. *)
EXTENDS LineWebhook

CONSTANTS m1, m2, u1, p1

MCUserOf == [e \in {m1, m2} |-> u1]

=============================================================================
