----------------------------- MODULE MCCommandPath -----------------------------
(***************************************************************************)
(* Instances of CommandPath for TLC: who asks for what.                    *)
(***************************************************************************)
EXTENDS CommandPath, TLC

CONSTANTS r1, r2, r3, i1, i2, i3

\* A command, its retry and an emergency stop.
RetryIds == r1 :> i1 @@ r2 :> i1 @@ r3 :> i2
RetryKinds == r1 :> "goal" @@ r2 :> "goal" @@ r3 :> "stop"

\* The command and its retry have one id and one kind.
RetrySymmetry == Permutations({r1, r2})

\* A mission in a leader slot, an emergency stop, and what clears it.
AreaIds == r1 :> i1 @@ r2 :> i2 @@ r3 :> i3
AreaKinds == r1 :> "area" @@ r2 :> "stop" @@ r3 :> "clear"
=============================================================================
