--------------------------- MODULE Connection_proof ---------------------------
(***************************************************************************)
(* Theorems about Connection, for any number of passes of the UI thread    *)
(* until the remote is enabled.                                            *)
(***************************************************************************)
EXTENDS Connection, TLAPS

\* The invariant, with the Boolean variables apart from the others.
Flags == scanning \in BOOLEAN /\ securing \in BOOLEAN /\ failed \in BOOLEAN

Values ==
  /\ conn \in {"none", "connecting", "connected"}
  /\ refs \in Nat
  /\ default_conn \in References /\ tested \in References
  /\ nus \in {"none", "discovering", "ready"}
  /\ rssi_sem \in {0, 1}
  /\ rssi \in {"wait", "settle", "poll"}
  /\ ui \in {"test", "info"}
  /\ connection \in 0 .. enableTimer + 1

Held ==
  /\ refs = IF default_conn = "hook" THEN 1 ELSE 0
  /\ default_conn = "hook" <=> conn # "none"

NoScan == default_conn = "hook" => ~scanning

ConnectionInv == Flags /\ Values /\ Held /\ NoScan

LEMMA InvParts == ConnectionInv <=> ConnectionTypeOK /\ OneReference
BY DEF ConnectionInv, Flags, Values, Held, NoScan, ConnectionTypeOK, OneReference

LEMMA InitInv == ConnectionInit => ConnectionInv
<1> SUFFICES ASSUME ConnectionInit PROVE ConnectionInv
  OBVIOUS
<1>1. Flags
  BY Zenon DEF ConnectionInit, Flags
<1>2. Values
  BY ConnectionAssumption DEF ConnectionInit, Values, References
<1>3. Held
  BY DEF ConnectionInit, Held
<1>4. NoScan
  BY DEF ConnectionInit, NoScan
<1> QED BY <1>1, <1>2, <1>3, <1>4 DEF ConnectionInv

\* The callbacks of main.c, one by one.
LEMMA BluetoothKeeps == ConnectionInv /\ Bluetooth => ConnectionInv'
<1> SUFFICES ASSUME Flags, Values, Held, NoScan, Bluetooth
             PROVE  Flags' /\ Values' /\ Held' /\ NoScan'
  BY DEF ConnectionInv
<1>1. CASE ScanConnecting
  <2>1. Flags'
    BY <1>1, Zenon DEF ScanConnecting, Flags
  <2>2. Values'
    BY <1>1 DEF ScanConnecting, Values, Held, References, rssiVars, uiVars
  <2>3. Held' /\ NoScan'
    BY <1>1 DEF ScanConnecting, Held, NoScan, Values, References
  <2> QED BY <2>1, <2>2, <2>3
<1>2. CASE ScanConnectingError
  <2>1. Flags'
    BY <1>2, Zenon DEF ScanConnectingError, Flags
  <2>2. Values'
    BY <1>2 DEF ScanConnectingError, Values, Held, References, rssiVars, uiVars
  <2>3. Held' /\ NoScan'
    BY <1>2 DEF ScanConnectingError, Held, NoScan, Values, References
  <2> QED BY <2>1, <2>2, <2>3
<1>3. CASE Connected
  <2>1. Flags'
    BY <1>3, Zenon DEF Connected, GattDiscover, Flags
  <2>2. Values'
    BY <1>3 DEF Connected, GattDiscover, Values, Held, References, uiVars
  <2>3. Held' /\ NoScan'
    BY <1>3 DEF Connected, GattDiscover, Held, NoScan, Values, References
  <2> QED BY <2>1, <2>2, <2>3
<1>4. CASE ConnectFailed
  <2>1. Flags'
    BY <1>4, Zenon DEF ConnectFailed, ReleaseReference, Flags
  <2>2. Values'
    BY <1>4 DEF ConnectFailed, ReleaseReference, Values, Held, References, rssiVars, uiVars
  <2>3. Held' /\ NoScan'
    BY <1>4 DEF ConnectFailed, ReleaseReference, Held, NoScan, Values, References
  <2> QED BY <2>1, <2>2, <2>3
<1>5. CASE Disconnected
  <2>1. Flags'
    BY <1>5, Zenon DEF Disconnected, ReleaseReference, Flags
  <2>2. Values'
    BY <1>5 DEF Disconnected, ReleaseReference, Values, Held, References, rssiVars, uiVars
  <2>3. Held' /\ NoScan'
    BY <1>5 DEF Disconnected, ReleaseReference, Held, NoScan, Values, References
  <2> QED BY <2>1, <2>2, <2>3
<1>6. CASE SecurityChanged
  <2>1. Flags'
    BY <1>6, Zenon DEF SecurityChanged, GattDiscover, Flags
  <2>2. Values'
    BY <1>6 DEF SecurityChanged, GattDiscover, Values, Held, References, rssiVars, uiVars
  <2>3. Held' /\ NoScan'
    BY <1>6 DEF SecurityChanged, GattDiscover, Held, NoScan, Values, References
  <2> QED BY <2>1, <2>2, <2>3
<1>7. CASE DiscoveryComplete
  <2>1. Flags'
    BY <1>7, Zenon DEF DiscoveryComplete, Flags
  <2>2. Values'
    BY <1>7 DEF DiscoveryComplete, Values, Held, References, rssiVars, uiVars
  <2>3. Held' /\ NoScan'
    BY <1>7 DEF DiscoveryComplete, Held, NoScan, Values, References
  <2> QED BY <2>1, <2>2, <2>3
<1>8. CASE DiscoveryError
  <2>1. Flags'
    BY <1>8, Zenon DEF DiscoveryError, Flags
  <2>2. Values'
    BY <1>8 DEF DiscoveryError, Values, Held, References, rssiVars, uiVars
  <2>3. Held' /\ NoScan'
    BY <1>8 DEF DiscoveryError, Held, NoScan, Values, References
  <2> QED BY <2>1, <2>2, <2>3
<1> QED BY <1>1, <1>2, <1>3, <1>4, <1>5, <1>6, <1>7, <1>8 DEF Bluetooth

\* The threads that only look at the link.
LEMMA ThreadsKeep == ConnectionInv /\ (Rssi \/ Ui) => ConnectionInv'
<1> SUFFICES ASSUME ConnectionInv, Rssi \/ Ui PROVE ConnectionInv'
  OBVIOUS
<1>1. UNCHANGED linkVars
  BY DEF Rssi, RssiTake, RssiSettle, RssiPoll, Ui, UiTest, UiPass
<1>2. Flags' /\ Held' /\ NoScan'
  BY <1>1 DEF ConnectionInv, Flags, Held, NoScan, linkVars
<1>3. Values'
  <2>1. CASE Rssi
    BY <2>1, <1>1 DEF ConnectionInv, Values, Rssi, RssiTake, RssiSettle, RssiPoll, linkVars, uiVars
  <2>2. CASE UiTest
    BY <2>2, <1>1 DEF ConnectionInv, Values, UiTest, linkVars, rssiVars
  <2>3. CASE UiPass
    <3>1. CountUp(connection) \in 0 .. enableTimer + 1 /\ 0 \in 0 .. enableTimer + 1
      BY ConnectionAssumption DEF CountUp, ConnectionInv, Values
    <3> QED BY <2>3, <1>1, <3>1 DEF ConnectionInv, Values, UiPass, linkVars, rssiVars
  <2> QED BY <2>1, <2>2, <2>3 DEF Ui
<1> QED BY <1>2, <1>3 DEF ConnectionInv

LEMMA ConnectionInvariant == ConnectionSpec => []ConnectionInv
<1>1. ConnectionInv /\ [ConnectionNext]_connectionVars => ConnectionInv'
  <2> SUFFICES ASSUME ConnectionInv, [ConnectionNext]_connectionVars PROVE ConnectionInv'
    OBVIOUS
  <2>1. CASE UNCHANGED connectionVars
    BY <2>1 DEF connectionVars, linkVars, rssiVars, uiVars, ConnectionInv, Flags, Values, Held, NoScan
  <2> QED BY <2>1, BluetoothKeeps, ThreadsKeep DEF ConnectionNext
<1> QED BY <1>1, InitInv, PTL DEF ConnectionSpec

\* Each variable of main.c's link keeps to its values; the count of system_updateUi stops
\* one above the limit.
THEOREM ConnectionTypeCorrect == ConnectionSpec => []ConnectionTypeOK
BY ConnectionInvariant, InvParts, PTL

\* main.c never holds two references to the connection, never loses one, and never scans
\* over one, whatever fails.
THEOREM ReferencesBalance == ConnectionSpec => []OneReference
BY ConnectionInvariant, InvParts, PTL
=============================================================================
