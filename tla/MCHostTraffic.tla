--------------------------- MODULE MCHostTraffic ----------------------------
(* Instance of HostTraffic for TLC. *)
EXTENDS HostTraffic

Install(kind, blocking, tasks) == [kind |-> kind, blocking |-> blocking, tasks |-> tasks]

\* Two senders on BLE, two senders on blocking calls, and one sender whose
\* notifications and links a frontend of each kind follows.
MCSettings ==
    {Install("ble", FALSE, {"user", "hub"}),
     Install("rfcomm", TRUE, {"user", "hub", "pump"}),
     Install("rfcomm", FALSE, {"user", "pump", "poller"}),
     Install("rfcomm", FALSE, {"user", "pump", "listener"})}
=============================================================================
