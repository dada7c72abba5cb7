---------------------------- MODULE MCMacBridge -----------------------------
(* Two Obsidian bridges (an old process and its replacement) and one OpenClaw *)
(* bridge on a small table.                                                   *)
EXTENDS MacBridge

CONSTANTS mac1, mac2, claw

MCBridgeType == [b \in {mac1, mac2, claw} |-> IF b = claw THEN OpenClaw ELSE Obsidian]

=============================================================================
