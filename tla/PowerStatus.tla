---------------------------- MODULE PowerStatus ----------------------------
(* power.status (src/tools/power_tool.cpp): /sys/class/power_supply. *)
EXTENDS ClassDirectory

CONSTANT kMaxPowerRows

ASSUME PowerAssumption == kMaxPowerRows \in Nat

Power == "power.status"

PowerUnavailable == At(Power, "start") /\ Failure /\ UNCHANGED dirVars

PowerExists == At(Power, "start") /\ Goto("open") /\ UNCHANGED dirVars

PowerOpenFails == At(Power, "open") /\ Failure /\ UNCHANGED dirVars

PowerReturns ==
    NoMoreNames(Power) /\ Return(rows, Caption(rows)) /\ UNCHANGED dirVars

PowerStep ==
    \/ PowerUnavailable \/ PowerExists \/ PowerOpenFails \/ PowerReturns
    \/ DirectoryLoop(Power, kMaxPowerRows) \/ ReadRow(Power, <<>>)
=============================================================================
