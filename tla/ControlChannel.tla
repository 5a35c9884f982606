--------------------------- MODULE ControlChannel ---------------------------
(***************************************************************************)
(* The control channel of one application instance: HeadsetHost, the       *)
(* transport under it, the task that pumps received bytes into the frame   *)
(* decoder, the calls of the session that connect, disconnect, join and    *)
(* leave, and the group hub that sends CD through the same channel.        *)
(*                                                                         *)
(* They run concurrently and meet at two locks: the operations mutex of    *)
(* the host (ops) and the operation mutex of the hub, which a CD holds     *)
(* from its beginning to its end (cd).  Every connection the transport     *)
(* opens is a link with a number of its own, 0 standing for none, so that  *)
(* a byte, a read or a write can be told to belong to one link or another. *)
(*                                                                         *)
(* Platform selects the frontend and the transport: the GTK application    *)
(* on BlueZ drives the host itself; the other three go through the C       *)
(* interface, and on macOS and Android a transport call is a blocking      *)
(* closure that keeps running when the task that waits for it is dropped.  *)
(***************************************************************************)
EXTENDS Naturals, FiniteSets

CONSTANTS Platform, Headset, NoHeadset,
          MaxLinks,    \* connections that may succeed in a run
          MaxChunks    \* unread chunks a headset may have under way

ASSUME PlatformAssumption == Platform \in {"linux", "windows", "macos", "android"}
ASSUME HeadsetAssumption == NoHeadset \notin Headset
ASSUME BoundAssumption == MaxLinks \in Nat \ {0} /\ MaxChunks \in Nat

Gtk == Platform = "linux"
Blocking == Platform \in {"macos", "android"}

Link == 0..MaxLinks
Address == Headset \union {NoHeadset}

VARIABLES
    linked,    \* the link LinkState describes
    decoder,   \* the links whose bytes are in the frame decoder
    ops,       \* who holds the operations mutex of the host
    wire,      \* the link the transport has open
    opened,    \* the number of links opened so far
    address,   \* the headset at the far end of each link
    dead,      \* the links whose far end has gone
    inbox,     \* chunks that arrived on each link and were not read
    pump,      \* the task that runs HeadsetHost::pump
    orphans,   \* transport closures nobody waits for any more
    call,      \* the session's call under way
    hub,       \* the joined group hub and its control address
    cd         \* the CD the hub is sending

channel == <<linked, decoder>>
radio == <<wire, opened, address, dead, inbox>>
group == <<hub, cd>>
vars == <<channel, ops, radio, pump, orphans, call, group>>

PumpStage == {"none", "starting", "subscribed", "receiving", "received",
              "closing", "ended", "unbinding"}
Item == {"bytes", "empty", "closed"}
CallStage == {"idle", "revoke", "stop", "clear", "close", "open", "set", "start",
              "read", "bind", "failed", "join", "leave"}

Pump == [pc: PumpStage, stale: BOOLEAN, on: Link, item: Item]
Orphan == [op: {"read", "write", "close"}, of: Link]
CallState == [pc: CallStage, to: Address, seen: Address]
Hub == [joined: BOOLEAN, address: Address]
Cd == [pc: {"none", "waiting", "writing"}, to: Address]

NoPump == [pc |-> "none", stale |-> FALSE, on |-> 0, item |-> "empty"]
NewPump == [NoPump EXCEPT !.pc = "starting"]
NoCall == [pc |-> "idle", to |-> NoHeadset, seen |-> NoHeadset]
NoHub == [joined |-> FALSE, address |-> NoHeadset]
NoCd == [pc |-> "none", to |-> NoHeadset]

TypeOK ==
    /\ linked \in Link /\ wire \in Link /\ opened \in Link
    /\ decoder \subseteq Link /\ dead \subseteq Link
    /\ ops \in {"none", "session", "pump", "hub"}
    /\ address \in [Link -> Address]
    /\ inbox \in [Link -> 0..MaxChunks]
    /\ pump \in Pump
    /\ orphans \subseteq Orphan
    /\ call \in CallState
    /\ hub \in Hub
    /\ cd \in Cd

\* The GTK application spawns its pump when it starts, the others on connect.
Init ==
    /\ linked = 0 /\ decoder = {} /\ ops = "none"
    /\ wire = 0 /\ opened = 0 /\ dead = {}
    /\ address = [l \in Link |-> NoHeadset]
    /\ inbox = [l \in Link |-> 0]
    /\ pump = IF Gtk THEN NewPump ELSE NoPump
    /\ orphans = {} /\ call = NoCall /\ hub = NoHub /\ cd = NoCd

-----------------------------------------------------------------------------
(***************************************************************************)
(* Calls of the session.  They are serial: one at a time, each blocking    *)
(* its caller until it returns.                                            *)
(***************************************************************************)

Goto(pc) == call' = [call EXCEPT !.pc = pc]

\* The hub's operation mutex, which set_control_address and leave take.
HubFree == cd.pc = "none"

\* Mutant: the pump that closes a lost link leaves LinkState as it is.
ClearByOthers(p) ==
    /\ linked' = IF p.pc = "closing" THEN linked ELSE 0
    /\ decoder' = {}
    /\ pump' = [p EXCEPT !.stale = TRUE]

\* clear_link: a new generation, which the pump p will notice, no link, and a
\* fresh decoder.
ClearLink(p) ==
    /\ linked' = 0
    /\ decoder' = {}
    /\ pump' = [p EXCEPT !.stale = TRUE]

\* What remains running of the blocking call the pump was waiting for.
Abandoned ==
    CASE ~Blocking -> {}
      [] pump.pc = "receiving" -> {[op |-> "read", of |-> pump.on]}
      [] pump.pc = "closing" -> {[op |-> "close", of |-> wire]}
      [] OTHER -> {}

\* edifier_session_connect or AppState::connect to a headset, or, with
\* NoHeadset, the disconnect of the same session.
Call(to) ==
    /\ call.pc = "idle"
    /\ call' = [NoCall EXCEPT !.pc = IF Gtk THEN "clear" ELSE "revoke", !.to = to]
    /\ UNCHANGED <<channel, ops, radio, pump, orphans, group>>

\* Mutant: connect and disconnect leave the control address for the pump to withdraw.
RevokeLater ==
    /\ call.pc \in {"revoke", "failed"}
    /\ call' = IF call.pc = "revoke" THEN [call EXCEPT !.pc = "stop"] ELSE NoCall
    /\ UNCHANGED <<channel, ops, radio, pump, orphans, group>>

\* set_control_address(None), before the channel changes and after a failure.
Revoke ==
    /\ call.pc \in {"revoke", "failed"}
    /\ hub.joined => HubFree
    /\ hub' = IF hub.joined THEN [hub EXCEPT !.address = NoHeadset] ELSE hub
    /\ call' = IF call.pc = "revoke" THEN [call EXCEPT !.pc = "stop"] ELSE NoCall
    /\ UNCHANGED <<channel, ops, radio, pump, orphans, cd>>

\* Mutant: stop_task joins the pump without aborting it.
StopByJoining ==
    /\ call.pc = "stop"
    /\ pump.pc = "none"
    /\ Goto("clear")
    /\ UNCHANGED <<channel, ops, radio, pump, orphans, group>>

\* stop_task: abort the pump wherever it waits, and wait until it is gone.
Stop ==
    /\ call.pc = "stop"
    /\ Goto("clear")
    /\ pump' = NoPump
    /\ ops' = IF ops = "pump" THEN "none" ELSE ops
    /\ orphans' = orphans \union Abandoned
    /\ UNCHANGED <<channel, radio, group>>

\* The first half of HeadsetHost::connect and disconnect, under the mutex.
Clear ==
    /\ call.pc = "clear"
    /\ ops = "none"
    /\ ops' = "session"
    /\ \/ /\ linked = 0 /\ call.to # NoHeadset
          /\ Goto("open")
          /\ UNCHANGED <<channel, pump>>
       \/ /\ linked # 0 \/ call.to = NoHeadset
          /\ Goto("close")
          /\ ClearLink(pump)
    /\ UNCHANGED <<radio, orphans, group>>

\* The end of a connect that fails: the C interface revokes once more.
Fail ==
    /\ ops' = "none"
    /\ call' = IF Gtk \/ call.to = NoHeadset THEN NoCall ELSE [call EXCEPT !.pc = "failed"]

\* transport.close(); an error ends a connect, and is all a disconnect returns.
Close ==
    /\ call.pc = "close"
    /\ wire' = 0
    /\ \/ call.to # NoHeadset /\ Goto("open") /\ UNCHANGED ops
       \/ (Blocking \/ call.to = NoHeadset) /\ Fail
    /\ UNCHANGED <<channel, opened, address, dead, inbox, pump, orphans, group>>

Open ==
    /\ call.pc = "open"
    /\ opened < MaxLinks
    /\ decoder' = {}
    /\ opened' = opened + 1
    /\ wire' = opened + 1
    /\ address' = [address EXCEPT ![opened + 1] = call.to]
    /\ Goto("set")
    /\ UNCHANGED <<linked, ops, dead, inbox, pump, orphans, group>>

OpenFails ==
    /\ call.pc = "open"
    /\ wire' = 0
    /\ ClearLink(pump)
    /\ Fail
    /\ UNCHANGED <<opened, address, dead, inbox, orphans, group>>

\* LinkState names the link; the GTK application returns.
SetLink ==
    /\ call.pc = "set"
    /\ linked' = opened
    /\ ops' = "none"
    /\ call' = IF Gtk THEN NoCall ELSE [call EXCEPT !.pc = "start"]
    /\ UNCHANGED <<decoder, radio, pump, orphans, group>>

\* start_pump
Start ==
    /\ call.pc = "start"
    /\ pump' = NewPump
    /\ Goto("read")
    /\ UNCHANGED <<channel, ops, radio, orphans, group>>

\* sync_holding reads the address of the link, if any, and then binds it.
Read ==
    /\ call.pc = "read"
    /\ call' = IF hub.joined THEN [call EXCEPT !.pc = "bind", !.seen = address[linked]] ELSE NoCall
    /\ UNCHANGED <<channel, ops, radio, pump, orphans, group>>

Bind ==
    /\ call.pc = "bind"
    /\ HubFree
    /\ hub' = [hub EXCEPT !.address = call.seen]
    /\ call' = NoCall
    /\ UNCHANGED <<channel, ops, radio, pump, orphans, cd>>

\* edifier_session_group_join binds the address it read and then publishes the
\* hub.  The GTK application never binds one, so its hub never sends CD.
Join ==
    /\ call.pc = "idle" /\ ~Gtk /\ ~hub.joined
    /\ call' = [NoCall EXCEPT !.pc = "join", !.seen = address[linked]]
    /\ UNCHANGED <<channel, ops, radio, pump, orphans, group>>

Publish ==
    /\ call.pc = "join"
    /\ hub' = [joined |-> TRUE, address |-> call.seen]
    /\ call' = NoCall
    /\ UNCHANGED <<channel, ops, radio, pump, orphans, cd>>

\* leave_group empties the slot, then waits for the hub's current operation; a
\* hub that has left ignores a pump that still wants to unbind it.
Leave ==
    /\ call.pc = "idle" /\ hub.joined
    /\ call' = [NoCall EXCEPT !.pc = "leave"]
    /\ hub' = [hub EXCEPT !.joined = FALSE]
    /\ UNCHANGED <<channel, ops, radio, pump, orphans, cd>>

Left ==
    /\ call.pc = "leave"
    /\ HubFree
    /\ hub' = NoHub
    /\ call' = NoCall
    /\ pump' = IF pump.pc = "unbinding" THEN NoPump ELSE pump
    /\ UNCHANGED <<channel, ops, radio, orphans, cd>>

-----------------------------------------------------------------------------
(***************************************************************************)
(* HeadsetHost::pump and the task around it.                               *)
(***************************************************************************)

PumpAt(pc) == pump' = [pump EXCEPT !.pc = pc]

PumpSubscribes ==
    /\ pump.pc = "starting"
    /\ pump' = [pump EXCEPT !.pc = "subscribed", !.stale = FALSE]
    /\ UNCHANGED <<channel, ops, radio, orphans, call, group>>

\* Without a link pump returns; with one it calls recv on the open link.
PumpChecks ==
    /\ pump.pc = "subscribed"
    /\ pump' = IF linked = 0 THEN [pump EXCEPT !.pc = "ended"]
                             ELSE [pump EXCEPT !.pc = "receiving", !.on = wire]
    /\ UNCHANGED <<channel, ops, radio, orphans, call, group>>

\* The select prefers a new generation to whatever recv has returned.
PumpNotices ==
    /\ pump.pc = "receiving" /\ pump.stale
    /\ PumpAt("ended")
    /\ orphans' = orphans \union Abandoned
    /\ UNCHANGED <<channel, ops, radio, call, group>>

Drained(l) == inbox[l] = 0 \/ Platform = "macos"

\* What recv on the link the pump captured may return.
RecvBytes ==
    /\ pump.on # 0 /\ pump.on = wire /\ inbox[pump.on] > 0
    /\ Platform = "macos" => pump.on \notin dead

\* BlueZ and the macOS bridge report a missing link at once; the Windows reader
\* waits for one, and learns of the end when the reading thread drops its queue.
RecvClosed ==
    /\ Platform # "android"
    /\ \/ pump.on = 0 /\ Platform # "windows"
       \/ pump.on # 0 /\ pump.on # wire
       \/ pump.on \in dead /\ Drained(pump.on)

\* A read of the macOS bridge times out; the one of Android never waits, and
\* returns nothing when the socket is gone, too.
RecvEmpty ==
    LET lost == pump.on # wire \/ pump.on \in dead \union {0}
    IN /\ Blocking
       /\ lost => Platform = "android"
       /\ lost \/ inbox[pump.on] = 0

PumpReceives(item) ==
    /\ pump.pc = "receiving" /\ ~pump.stale
    /\ \/ item = "bytes" /\ RecvBytes
       \/ item = "closed" /\ RecvClosed
       \/ item = "empty" /\ RecvEmpty
    /\ inbox' = IF item = "bytes" THEN [inbox EXCEPT ![pump.on] = @ - 1] ELSE inbox
    /\ pump' = [pump EXCEPT !.pc = "received", !.item = item]
    /\ UNCHANGED <<channel, ops, wire, opened, address, dead, orphans, call, group>>

\* Mutant: the pump does not look at the generation again under the mutex.
NeverOutdated == FALSE

\* The generation may have moved while the pump waited for the mutex.
Outdated == pump.stale

\* Under the mutex: drop the result, decode it, or close the link.
PumpTakes ==
    /\ pump.pc = "received" /\ ops = "none"
    /\ \/ /\ Outdated
          /\ PumpAt("ended")
          /\ UNCHANGED <<channel, ops>>
       \/ /\ ~Outdated /\ pump.item # "closed"
          /\ pump' = [pump EXCEPT !.pc = "receiving", !.on = wire]
          /\ decoder' = IF pump.item = "bytes" THEN decoder \union {pump.on} ELSE decoder
          /\ UNCHANGED <<linked, ops>>
       \/ /\ ~Outdated /\ pump.item = "closed"
          /\ ops' = "pump"
          /\ ClearLink([pump EXCEPT !.pc = "closing"])
    /\ UNCHANGED <<radio, orphans, call, group>>

PumpCloses ==
    /\ pump.pc = "closing"
    /\ wire' = 0
    /\ ops' = "none"
    /\ PumpAt("ended")
    /\ UNCHANGED <<channel, opened, address, dead, inbox, orphans, call, group>>

\* The GTK application calls pump again; the others withdraw the hub's control
\* address, if they find a hub, and finish.
PumpEnds ==
    /\ pump.pc = "ended"
    /\ pump' = CASE Gtk -> NewPump
                 [] ~Gtk /\ hub.joined -> [pump EXCEPT !.pc = "unbinding"]
                 [] OTHER -> NoPump
    /\ UNCHANGED <<channel, ops, radio, orphans, call, group>>

PumpUnbinds ==
    /\ pump.pc = "unbinding"
    /\ HubFree
    /\ hub' = [hub EXCEPT !.address = NoHeadset]
    /\ pump' = NoPump
    /\ UNCHANGED <<channel, ops, radio, orphans, call, cd>>

-----------------------------------------------------------------------------
(***************************************************************************)
(* CD from the hub, and the world.                                         *)
(***************************************************************************)

\* send_cd_command, for the headset the control address names.
CdBegins(h) ==
    /\ HubFree
    /\ hub.address = h
    /\ cd' = [pc |-> "waiting", to |-> h]
    /\ UNCHANGED <<channel, ops, radio, pump, orphans, call, hub>>

\* HeadsetHost::send: the mutex, and an error when there is no link.
CdEnters ==
    /\ cd.pc = "waiting" /\ ops = "none"
    /\ \/ linked = 0 /\ cd' = NoCd /\ UNCHANGED ops
       \/ linked # 0 /\ cd' = [cd EXCEPT !.pc = "writing"] /\ ops' = "hub"
    /\ UNCHANGED <<channel, radio, pump, orphans, call, hub>>

\* The write returns, or its time is over while it waits for the mutex, for
\* the gap between commands, or for the blocking write it leaves behind.
CdWrites ==
    /\ cd.pc = "writing"
    /\ cd' = NoCd /\ ops' = "none"
    /\ UNCHANGED <<channel, radio, pump, orphans, call, hub>>

CdTimesOut ==
    /\ cd.pc # "none"
    /\ cd' = NoCd
    /\ ops' = IF cd.pc = "writing" THEN "none" ELSE ops
    /\ orphans' = IF cd.pc = "writing" /\ Blocking
                  THEN orphans \union {[op |-> "write", of |-> wire]} ELSE orphans
    /\ UNCHANGED <<channel, radio, pump, call, hub>>

HeadsetSends ==
    /\ wire # 0 /\ wire \notin dead /\ inbox[wire] < MaxChunks
    /\ inbox' = [inbox EXCEPT ![wire] = @ + 1]
    /\ UNCHANGED <<channel, ops, wire, opened, address, dead, pump, orphans, call, group>>

LinkDies ==
    /\ wire # 0
    /\ dead' = dead \union {wire}
    /\ UNCHANGED <<channel, ops, wire, opened, address, inbox, pump, orphans, call, group>>

\* An abandoned closure runs against whatever the transport has open then.
OrphanRuns(o) ==
    /\ orphans' = orphans \ {o}
    /\ wire' = IF o.op = "close" THEN 0 ELSE wire
    /\ inbox' = IF o.op = "read" /\ wire # 0 /\ inbox[wire] > 0
                THEN [inbox EXCEPT ![wire] = @ - 1] ELSE inbox
    /\ UNCHANGED <<channel, ops, opened, address, dead, pump, call, group>>

SessionCalls == Join \/ Leave \/ \E to \in Address : Call(to)
SessionReturns ==
    Revoke \/ Stop \/ Clear \/ Close \/ Open \/ OpenFails \/ SetLink \/ Start
    \/ Read \/ Bind \/ Publish \/ Left
PumpRuns ==
    PumpSubscribes \/ PumpChecks \/ PumpNotices \/ (\E item \in Item : PumpReceives(item))
    \/ PumpTakes \/ PumpCloses \/ PumpEnds \/ PumpUnbinds
CdRuns == CdEnters \/ CdWrites \/ CdTimesOut
World == HeadsetSends \/ LinkDies \/ \E o \in orphans : OrphanRuns(o)

Next ==
    \/ SessionCalls \/ SessionReturns
    \/ PumpRuns
    \/ (\E h \in Headset : CdBegins(h)) \/ CdRuns
    \/ World

Spec == Init /\ [][Next]_vars

(***************************************************************************)
(* Both mutexes are tokio's, which serve their waiters in order: whoever   *)
(* waits for one that is released again and again gets it.                 *)
(***************************************************************************)
Fairness ==
    /\ SF_vars(SessionReturns)
    /\ SF_vars(PumpTakes) /\ SF_vars(PumpUnbinds)
    /\ WF_vars(PumpRuns)
    /\ WF_vars(CdRuns)

FairSpec == Spec /\ Fairness

-----------------------------------------------------------------------------
(***************************************************************************)
(* Properties                                                              *)
(***************************************************************************)

\* HeadsetHost::pump: the frame decoder never holds bytes of a link other than
\* the one LinkState describes, however late a receive of an old link returns.
NoForeignBytes == decoder \subseteq {linked}

\* send_cd_command checks the control address, the host sends on its current
\* link: while a CD is being written the open link leads to the headset the CD
\* is for, although connects, disconnects and the end of the pump race with it.
CdNeverCrosses == cd.pc = "writing" /\ wire # 0 => address[wire] = cd.to

\* start_pump, stop_task and clear_link: but for the moments in which a connect
\* replaces the pump, a link that LinkState reports is read by a pump.
PumpServesLink ==
    linked # 0 /\ call.pc \notin {"clear", "start"} =>
        \/ pump.pc \in {"starting", "subscribed", "receiving", "received"}
        \/ Gtk /\ pump.pc = "ended"

\* HeadsetTransport::recv and pump: a link that is lost, from either side, does
\* not stay in LinkState.
LostLinkNoticed ==
    \A l \in 1..MaxLinks :
        (linked = l /\ (l \in dead \/ wire # l)) ~> linked # l

\* Session calls hold no lock the pump or the hub needs to finish, and so every
\* call returns, although it waits for both of them.
CallsReturn == []<>(call.pc = "idle")
=============================================================================
