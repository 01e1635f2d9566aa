------------------------------ MODULE MCSdCard ------------------------------
(* SdCard for TLC: blocks that differ in their first byte alone, one of     *)
(* them the block that begins with an error token.                          *)
EXTENDS SdCard

CONSTANT Token

ASSUME TokenAssumption == Token \in Data

MCWithToken == [d \in Data |-> {Token}]

=============================================================================
