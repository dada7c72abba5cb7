------------------------------ MODULE AgentMail ------------------------------
(***************************************************************************)
(* core/agent_communication.py: who may send what to whom, and the bounded *)
(* mailboxes.  A message is [sender, recipient, type, constraints, task,   *)
(* long]: `long` of one whose id is past 200 characters.                   *)
(***************************************************************************)
EXTENDS Naturals, Sequences

Management       == "management"
ResultConstraints == {"result-only", "no-permission-grant"}

\* AgentMessage.validate: the bounds of the envelope, all of them on what `long` stands
\* for, and at least one constraint.
Enveloped(m) == ~m.long /\ m.constraints # {}

\* AgentMessageCoordinator.validate_route: a specialist reports results, to another one
\* or to the management; the management tells no specialist anything.
RouteAllowed(m) ==
  /\ m.sender # m.recipient
  /\ m.sender # Management
  /\ m.type = "task_result"
  /\ m.constraints = ResultConstraints

\* _send: the oldest messages make room.
Posted(box, m, max) ==
  LET all == Append(box, m)
  IN  IF Len(all) > max THEN SubSeq(all, Len(all) - max + 1, Len(all)) ELSE all
=============================================================================
