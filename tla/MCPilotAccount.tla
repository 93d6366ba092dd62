--------------------------- MODULE MCPilotAccount ----------------------------
(* Two and three cases for the pilots on one account.  A call is reserved at two      *)
(* tokens and may consume one, or three.                                    *)
EXTENDS PilotAccount

MCPilotCases == <<"m1", "m2">>
MCAdaptiveCases == <<"a1", "a2", "a3">>
MCUses == {1, 3}
MCBatchSizes == {1, 2}
MCAdaptiveCap == [plus |-> 6, flash |-> 4]
MCPilotCap == [plus |-> 5, flash |-> 3]
MCPin == [calls |-> 3, plus |-> 2, flash |-> 1]
MCFirstRun == [plus |-> 1, flash |-> 0]
==============================================================================
