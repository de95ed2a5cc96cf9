----------------------------- MODULE ServiceBounds -----------------------------
(* What the services of CloudServices and DeviceServices have in common: the   *)
(* bounds that several of them take, and NULL.                                 *)
EXTENDS Naturals

CONSTANTS
    Size,       \* of ResourceClient and FileManage
    MaxTries,   \* of SyncRequests and WifiConfig
    MaxFaults,  \* of ResourceClient, TemplateCommands and FileManage
    Null

ASSUME SizeAssumption == Size \in Nat
ASSUME NullIsNoNumber == Null \notin Nat
=============================================================================
