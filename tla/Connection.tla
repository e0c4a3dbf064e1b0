------------------------------ MODULE Connection ------------------------------
(***************************************************************************)
(* The link to the hook (src/main.c): the callbacks of the scan module, of *)
(* the connection and of the service discovery, which run in Bluetooth     *)
(* threads one after the other, the UI thread's look at default_conn and   *)
(* system_updateUi's count of it, and the thread that polls the RSSI.      *)
(*                                                                         *)
(* There is one connection object. bt_scan_start succeeds when a callback  *)
(* calls it.                                                               *)
(***************************************************************************)
EXTENDS Naturals

CONSTANT enableTimer  \* passes of the UI thread until the remote is enabled

ASSUME ConnectionAssumption == enableTimer \in Nat \ {0}

VARIABLES
  scanning,
  conn,          \* the stack's state of the connection object
  refs,          \* references to it that main.c holds
  default_conn,  \* a reference to it, or NULL
  securing,      \* bt_conn_set_security is going to answer
  nus,           \* "none", "discovering" or "ready"
  rssi_sem,
  rssi,          \* where ble_rssi_thread is
  ui,            \* where update_user_interface is
  tested,        \* default_conn as the UI thread has read it
  connection,    \* system.c's
  failed         \* a connection could not be created, or a discovery failed (history)

linkVars == <<scanning, conn, refs, default_conn, securing, nus, failed>>
rssiVars == <<rssi_sem, rssi>>
uiVars == <<ui, tested, connection>>
connectionVars == <<linkVars, rssiVars, uiVars>>

References == {"NULL", "hook"}

ConnectionTypeOK ==
  /\ scanning \in BOOLEAN /\ securing \in BOOLEAN /\ failed \in BOOLEAN
  /\ conn \in {"none", "connecting", "connected"}
  /\ refs \in Nat
  /\ default_conn \in References /\ tested \in References
  /\ nus \in {"none", "discovering", "ready"}
  /\ rssi_sem \in {0, 1}
  /\ rssi \in {"wait", "settle", "poll"}
  /\ ui \in {"test", "info"}
  /\ connection \in 0 .. enableTimer + 1

ConnectionInit ==
  /\ scanning = TRUE
  /\ conn = "none"
  /\ refs = 0
  /\ default_conn = "NULL"
  /\ securing = FALSE
  /\ nus = "none"
  /\ rssi_sem = 0
  /\ rssi = "wait"
  /\ ui = "test"
  /\ tested = "NULL"
  /\ connection = 0
  /\ failed = FALSE

-----------------------------------------------------------------------------
(* The scan module stops scanning before it connects to a match. *)

\* scan_connecting
ScanConnecting ==
  /\ scanning
  /\ scanning' = FALSE
  /\ conn' = "connecting"
  /\ default_conn' = "hook"
  /\ refs' = refs + 1
  /\ UNCHANGED <<securing, nus, failed, rssiVars, uiVars>>

\* scan_connecting_error only logs.
ScanConnectingError ==
  /\ scanning
  /\ scanning' = FALSE
  /\ failed' = TRUE
  /\ UNCHANGED <<conn, refs, default_conn, securing, nus, rssiVars, uiVars>>

-----------------------------------------------------------------------------
\* gatt_discover; bt_gatt_dm_start may fail.
GattDiscover ==
  \/ nus' = (IF default_conn = "hook" THEN "discovering" ELSE nus) /\ UNCHANGED failed
  \/ default_conn = "hook" /\ failed' = TRUE /\ UNCHANGED nus

\* Mutant: the semaphore is given only when the security level could not be set.
ConnectedUnsecured ==
  /\ conn = "connecting"
  /\ conn' = "connected"
  /\ \/ securing' = TRUE /\ UNCHANGED <<nus, failed, rssi_sem>>
     \/ GattDiscover /\ rssi_sem' = 1 /\ UNCHANGED securing
  /\ scanning' = FALSE
  /\ UNCHANGED <<refs, default_conn, rssi, uiVars>>

\* connected: the answer to bt_conn_set_security comes later, or it fails.
Connected ==
  /\ conn = "connecting"
  /\ conn' = "connected"
  /\ \/ securing' = TRUE /\ UNCHANGED <<nus, failed>>
     \/ GattDiscover /\ UNCHANGED securing
  /\ scanning' = FALSE
  /\ rssi_sem' = 1
  /\ UNCHANGED <<refs, default_conn, rssi, uiVars>>

\* Mutant: the reference is not given back.
ReleaseReferenceForgotten ==
  /\ default_conn' = "NULL"
  /\ scanning' = TRUE
  /\ UNCHANGED refs

ReleaseReference ==
  IF default_conn = "hook"
    THEN refs' = refs - 1 /\ default_conn' = "NULL" /\ scanning' = TRUE
    ELSE UNCHANGED <<refs, default_conn, scanning>>

\* Mutant: a failure to connect does not start the scan.
ConnectFailedQuiet ==
  /\ conn = "connecting"
  /\ conn' = "none"
  /\ refs' = refs - 1
  /\ default_conn' = "NULL"
  /\ UNCHANGED <<scanning, securing, nus, failed, rssiVars, uiVars>>

\* connected, with conn_err
ConnectFailed ==
  /\ conn = "connecting"
  /\ conn' = "none"
  /\ ReleaseReference
  /\ UNCHANGED <<securing, nus, failed, rssiVars, uiVars>>

\* disconnected. What was under way ends without success.
Disconnected ==
  /\ conn = "connected"
  /\ conn' = "none"
  /\ ReleaseReference
  /\ securing' = FALSE
  /\ nus' = "none"
  /\ UNCHANGED <<failed, rssiVars, uiVars>>

\* security_changed, whatever its result
SecurityChanged ==
  /\ securing
  /\ securing' = FALSE
  /\ GattDiscover
  /\ UNCHANGED <<scanning, conn, refs, default_conn, rssiVars, uiVars>>

DiscoveryComplete ==
  /\ nus = "discovering"
  /\ nus' = "ready"
  /\ UNCHANGED <<scanning, conn, refs, default_conn, securing, failed, rssiVars, uiVars>>

\* discovery_service_not_found and discovery_error only log.
DiscoveryError ==
  /\ nus = "discovering"
  /\ nus' = "none"
  /\ failed' = TRUE
  /\ UNCHANGED <<scanning, conn, refs, default_conn, securing, rssiVars, uiVars>>

Bluetooth ==
  \/ ScanConnecting \/ ScanConnectingError
  \/ Connected \/ ConnectFailed \/ Disconnected
  \/ SecurityChanged \/ DiscoveryComplete \/ DiscoveryError

-----------------------------------------------------------------------------
(* ble_rssi_thread *)

RssiTake ==
  /\ rssi = "wait"
  /\ rssi_sem = 1
  /\ rssi_sem' = 0
  /\ rssi' = "settle"
  /\ UNCHANGED <<linkVars, uiVars>>

RssiSettle ==
  /\ rssi = "settle"
  /\ rssi' = "poll"
  /\ UNCHANGED <<linkVars, rssi_sem, uiVars>>

\* A read without a connection is an error and ends the polling.
RssiPoll ==
  /\ rssi = "poll"
  /\ rssi' = IF conn = "connected" THEN "poll" ELSE "wait"
  /\ UNCHANGED <<linkVars, rssi_sem, uiVars>>

Rssi == RssiTake \/ RssiSettle \/ RssiPoll

-----------------------------------------------------------------------------
(* update_user_interface. The compiler reads default_conn once. *)

UiTest ==
  /\ ui = "test"
  /\ tested' = default_conn
  /\ ui' = "info"
  /\ UNCHANGED <<linkVars, rssiVars, connection>>

CountUp(count) == IF count > enableTimer THEN count ELSE count + 1

\* Mutant: a pass without a link does not reset the count.
UiPassKept ==
  /\ ui = "info"
  /\ IF tested = "hook" /\ conn = "connected"
       THEN connection' = CountUp(connection) ELSE UNCHANGED connection
  /\ ui' = "test"
  /\ UNCHANGED <<linkVars, rssiVars, tested>>

\* bt_conn_get_info and system_updateUi
UiPass ==
  /\ ui = "info"
  /\ IF tested = "hook" /\ conn = "connected"
       THEN connection' = CountUp(connection) ELSE connection' = 0
  /\ ui' = "test"
  /\ UNCHANGED <<linkVars, rssiVars, tested>>

Ui == UiTest \/ UiPass

ConnectionNext == Bluetooth \/ Rssi \/ Ui

ConnectionSpec == ConnectionInit /\ [][ConnectionNext]_connectionVars

\* The threads run, and again and again the hook is in reach: each step towards a
\* usable link that is possible often enough succeeds at last.
ConnectionFairSpec ==
  /\ ConnectionSpec
  /\ WF_connectionVars(Rssi)
  /\ WF_connectionVars(Ui)
  /\ SF_connectionVars(ScanConnecting)
  /\ SF_connectionVars(Connected)
  /\ SF_connectionVars(SecurityChanged)
  /\ SF_connectionVars(DiscoveryComplete)

-----------------------------------------------------------------------------
(* Properties *)

\* scan_connecting, connected and disconnected: main.c holds one reference, the one
\* in default_conn, from the attempt to connect until the link is gone; nobody
\* scans meanwhile, which would overwrite it.
OneReference ==
  /\ refs = IF default_conn = "hook" THEN 1 ELSE 0
  /\ default_conn = "hook" <=> conn # "none"
  /\ default_conn = "hook" => ~scanning

\* README.rst:77: "the kits automatically reconnect and [...] it is again possible
\* to send data between the two kits", as often as the link is lost. It is so as long
\* as no connection fails to be created and no discovery fails ...
Reconnects == []~failed => []<>(nus = "ready")

\* ... and README.rst:77 says it without a condition, of a link that was there.
ReconnectsAlways == [](nus = "ready" => []<>(nus = "ready"))

\* ble_rssi_thread: on a link that stays it polls the RSSI, however often the link was
\* lost before, and between whichever of its steps.
RssiResumes == <>[](conn = "connected") => <>[](rssi = "poll")

\* update_user_interface and system_updateUi: a link that is lost for good disables
\* the remote, and one that stays enables it.
LinkIsNoticed ==
  /\ <>[](conn # "connected") => <>[](connection = 0)
  /\ <>[](conn = "connected") => <>[](connection >= enableTimer)
=============================================================================
