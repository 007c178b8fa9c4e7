------------------------------- MODULE MCGate -------------------------------
(* Model checking of Gate: a budget over all tools that a human may lift,   *)
(* and a velocity per tool that nobody may.                                 *)
EXTENDS Gate

MCVerdict == [charge |-> "ALLOW", wire |-> "REQUIRE_APPROVAL", drop |-> "BLOCK"]

MCLimits ==
    <<[kind |-> "budget", cap |-> 1, window |-> 2, escalate |-> TRUE,
       byTool |-> FALSE, tools |-> {"charge", "wire"}],
      [kind |-> "rate", cap |-> 2, window |-> 1, escalate |-> FALSE,
       byTool |-> TRUE, tools |-> {"charge", "drop"}]>>

MCAmounts == {-1, 1}

MCRequests == {"charge", "wire", "drop"} \X (0..2)
=============================================================================
