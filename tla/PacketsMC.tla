------------------------------ MODULE PacketsMC ------------------------------
(***************************************************************************)
(* An instance of module Packets: the commands, and the symmetry of the    *)
(* heap, of whose blocks malloc may return any.                            *)
(***************************************************************************)
EXTENDS PacketsProps, TLC

SomeInputs ==
    {[cmd |-> BLE_CMD_GET_BAT_DATA, data |-> <<28>>], [cmd |-> BLE_CMD_GET_BAT_DATA, data |-> <<0>>],
     [cmd |-> BLE_CMD_GET_BAT_DATA, data |-> <<>>],
     [cmd |-> BLE_CMD_MODE, data |-> <<1, 3, 0>>], [cmd |-> BLE_CMD_MODE, data |-> <<17>>],
     [cmd |-> BLE_CMD_START_POS, data |-> <<1>>],
     [cmd |-> BLE_CMD_START_POS, data |-> <<>>], [cmd |-> BLE_CMD_DONE_POS, data |-> <<>>],
     [cmd |-> BLE_CMD_GET_CHANNEL_STS, data |-> <<5>>], [cmd |-> BLE_CMD_GET_CHANNEL_STS, data |-> <<5, 1>>],
     [cmd |-> 32, data |-> <<>>]}

HeapSymmetry == Permutations(Blocks)
=============================================================================
