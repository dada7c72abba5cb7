------------------------------ MODULE Secretary ------------------------------
(***************************************************************************)
(* The programs that answer or act for one message, or for one run of a    *)
(* workflow: they share no state, so that one of them at a time shows as   *)
(* much as all of them side by side.                                       *)
(***************************************************************************)
EXTENDS RepairPipeline, Management, AgentRuntime, Improvement, Conversation

CONSTANT Programs   \* bound: those that are looked at

VARIABLE program    \* the one that runs

vars == <<program, work, copy, desk, team, durable, loop, talk, mind, lessons, up>>

\* What a program that does not run has in its settings.
Unused ==
  /\ program # "repair"     => ~copy.nightly /\ \A s \in DOMAIN copy.settings : ~copy.settings[s]
  /\ program # "management" => desk = Closed
  /\ program # "runtime"    => team.executors = RuntimeRoles

Init ==
  /\ program \in Programs
  /\ RepairInit /\ ManagementInit /\ RuntimeInit /\ ImprovementInit /\ ConversationInit
  /\ Unused

RepairStep       == program = "repair" /\ RepairNext
                      /\ UNCHANGED <<program, desk, team, improvementVars, conversationVars>>
ManagementStep   == program = "management" /\ ManagementNext
                      /\ UNCHANGED <<program, repairVars, team, improvementVars, conversationVars>>
RuntimeStep      == program = "runtime" /\ RuntimeNext
                      /\ UNCHANGED <<program, repairVars, desk, improvementVars, conversationVars>>
ImprovementStep  == program = "improvement" /\ ImprovementNext
                      /\ UNCHANGED <<program, repairVars, desk, team, conversationVars>>
ConversationStep == program = "conversation" /\ ConversationNext
                      /\ UNCHANGED <<program, repairVars, desk, team, improvementVars>>

Next == RepairStep \/ ManagementStep \/ RuntimeStep \/ ImprovementStep \/ ConversationStep

Spec == Init /\ [][Next]_vars

TypeOK == RepairTypeOK /\ ManagementTypeOK /\ RuntimeTypeOK /\ ImprovementTypeOK /\ ConversationTypeOK
==============================================================================
