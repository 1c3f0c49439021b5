----------------------------- MODULE MCArmServos -----------------------------
(* Two servos of three angles; two poses, neither of which is the first one. *)
EXTENDS ArmServos

MCServos == 1..2
MCBoot == <<1, 1>>
MCPoses == {<<0, 2>>, <<2, 1>>}
=============================================================================
