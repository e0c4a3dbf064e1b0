------------------------------ MODULE MCBluetooth ------------------------------
(***************************************************************************)
(* Instances for TLC of the two halves of main.c: the link to the hook     *)
(* (Connection) and what goes over it (UartBridge). UartBridge allows any  *)
(* link, so that one of them moves and the other one rests.                *)
(***************************************************************************)
EXTENDS UartBridge, Connection

VARIABLE moving

BluetoothInit == Init /\ ConnectionInit /\ moving \in {"blocks", "link"}

BluetoothNext ==
  /\ UNCHANGED moving
  /\ \/ moving = "blocks" /\ Next /\ UNCHANGED connectionVars
     \/ moving = "link" /\ ConnectionNext /\ UNCHANGED vars

\* The threads run, and again and again the hook is in reach: each step towards a
\* usable link that is possible often enough succeeds at last.
LinkFair ==
  /\ WF_connectionVars(moving = "link" /\ Rssi)
  /\ WF_connectionVars(moving = "link" /\ Ui)
  /\ SF_connectionVars(moving = "link" /\ ScanConnecting)
  /\ SF_connectionVars(moving = "link" /\ Connected)
  /\ SF_connectionVars(moving = "link" /\ SecurityChanged)
  /\ SF_connectionVars(moving = "link" /\ DiscoveryComplete)

BluetoothSpec ==
  /\ BluetoothInit
  /\ [][BluetoothNext]_<<vars, connectionVars, moving>>
  /\ Fair
  /\ LinkFair

LinkComesBack == moving = "link" => Reconnects
=============================================================================
