---------------------------- MODULE HostTraffic -----------------------------
(***************************************************************************)
(* What goes through HeadsetHost in both directions: frames out, paced and *)
(* in pieces, written by the session's calls and by the CD of the group    *)
(* hub, and events out of the host to a frontend, through a broadcast      *)
(* channel that keeps a bounded number of them.                            *)
(*                                                                         *)
(* Time is counted in ticks of 50 ms.  A sleep is a counter that Tick      *)
(* brings down to zero; nothing has to happen at once when it gets there,  *)
(* so that a write may also take any time.                                 *)
(*                                                                         *)
(* A setting says which kind of link the transport opens, whether its      *)
(* calls are blocking closures that keep running when their caller is      *)
(* gone, and which tasks there are.                                        *)
(***************************************************************************)
EXTENDS Naturals, Sequences

CONSTANTS
    Settings,     \* the installations considered
    Gap,          \* COMMAND_GAP_MS, in ticks
    ChunkDelay,   \* BLE_CHUNK_DELAY_MS, in ticks
    Cap,          \* events the broadcast channel keeps
    ReadoutLen,   \* frames of a readout
    MaxLinks      \* connections that may succeed in a run

Sender == {"user", "hub"}
Reader == {"poller", "listener"}
Setting == [kind: {"rfcomm", "ble"}, blocking: BOOLEAN,
            tasks: SUBSET (Sender \union Reader \union {"pump"})]

\* BLE exists where transport calls are futures only.
ASSUME SettingsAssumption ==
    /\ Settings \subseteq Setting
    /\ \A s \in Settings : s.blocking => s.kind = "rfcomm"
ASSUME TimeAssumption == Gap \in Nat /\ ChunkDelay \in Nat /\ ChunkDelay <= Gap
ASSUME BoundAssumption ==
    Cap \in Nat \ {0} /\ ReadoutLen \in Nat \ {0} /\ MaxLinks \in Nat

VARIABLES
    setting,   \* the installation
    linked,    \* the link LinkState describes, 0 for none
    opened,    \* links opened so far
    ops,       \* who holds the operations mutex
    rest,      \* ticks until the gap after last_tx is over
    job,       \* what each sender is doing
    late,      \* a CD whose caller is gone and whose closure still runs
    wire,      \* the last piece written (history)
    quiet,     \* ticks since then, up to Gap (history)
    pump,      \* the task that receives
    ring,      \* the events the channel keeps, oldest first
    unread,    \* how many of them a reader has not got yet
    lagged,    \* whether a reader will be told that it lost some
    alive,     \* whether a reader still reads
    shown,     \* the link a reader shows, 0 for none
    dropped    \* whether a reader lost the last event about the link (history)

outgoing == <<rest, job, late, wire, quiet>>
channel == <<linked, opened, ops>>
readers == <<unread, lagged, alive, shown, dropped>>
events == <<ring, readers>>
vars == <<setting, channel, outgoing, pump, events>>

Link == 0..MaxLinks
Stage == {"idle", "send", "ready", "written", "connect", "opening", "announce",
          "replacing", "disconnect", "closing"}
Job == [pc: Stage, left: 0..ReadoutLen, part: 1..2, parts: 1..2, sleep: 0..Gap]
Event == [kind: {"link", "note"}, link: Link]
Idle == [pc |-> "idle", left |-> 0, part |-> 1, parts |-> 1, sleep |-> 0]
NoPump == [pc |-> "off", stale |-> FALSE, of |-> 0, got |-> "note"]

TypeOK ==
    /\ setting \in Settings
    /\ linked \in Link /\ opened \in Link
    /\ ops \in {"none", "pump"} \union Sender
    /\ rest \in 0..Gap /\ quiet \in 0..Gap
    /\ job \in [Sender -> Job]
    /\ late \in BOOLEAN
    /\ wire \in [link: Link, by: Sender \union {"late"}, part: 1..2,
                 state: {"open", "complete", "abandoned"}]
    /\ pump \in [pc: {"off", "subscribed", "receiving", "received", "closing"},
                 stale: BOOLEAN, of: Link, got: {"note", "closed"}]
    /\ ring \in Seq(Event) /\ Len(ring) <= Cap
    /\ unread \in [Reader -> 0..Cap]
    /\ \A r \in Reader : unread[r] <= Len(ring)
    /\ lagged \in [Reader -> BOOLEAN] /\ alive \in [Reader -> BOOLEAN]
    /\ shown \in [Reader -> Link] /\ dropped \in [Reader -> BOOLEAN]

Init ==
    /\ setting \in Settings
    /\ linked = 0 /\ opened = 0 /\ ops = "none"
    /\ rest = 0 /\ quiet = Gap /\ late = FALSE
    /\ job = [t \in Sender |-> Idle]
    /\ wire = [link |-> 0, by |-> "user", part |-> 1, state |-> "complete"]
    /\ pump = NoPump
    /\ ring = <<>>
    /\ unread = [r \in Reader |-> 0]
    /\ lagged = [r \in Reader |-> FALSE]
    /\ alive = [r \in Reader |-> r \in setting.tasks]
    /\ shown = [r \in Reader |-> 0]
    /\ dropped = [r \in Reader |-> FALSE]

-----------------------------------------------------------------------------
(***************************************************************************)
(* The event channel.                                                      *)
(***************************************************************************)

\* The oldest event is about the link and no later one is.
LastLinkEventIsOldest ==
    /\ ring # <<>> /\ ring[1].kind = "link"
    /\ \A i \in 2..Len(ring) : ring[i].kind = "note"

\* Mutant: a channel without a bound.
EmitUnbounded(event) ==
    /\ ring' = Append(ring, event)
    /\ unread' = [r \in Reader |-> IF alive[r] THEN unread[r] + 1 ELSE 0]
    /\ dropped' = [r \in Reader |-> FALSE]
    /\ UNCHANGED <<lagged, alive, shown>>

\* broadcast::Sender::send: a full channel overwrites its oldest event, and
\* whoever has not read it lags.
Emit(event) ==
    LET full == Len(ring) = Cap
        lost(r) == alive[r] /\ full /\ unread[r] = Cap
    IN  /\ ring' = Append(IF full THEN Tail(ring) ELSE ring, event)
        /\ unread' = [r \in Reader |->
               IF ~alive[r] THEN 0 ELSE IF lost(r) THEN Cap ELSE unread[r] + 1]
        /\ lagged' = [r \in Reader |-> lagged[r] \/ lost(r)]
        /\ dropped' = [r \in Reader |->
               /\ event.kind = "note"
               /\ dropped[r] \/ (lost(r) /\ LastLinkEventIsOldest)]
        /\ UNCHANGED <<alive, shown>>

LinkEvent(l) == [kind |-> "link", link |-> l]

\* The next event a reader gets, and what it shows then.
NextFor(r) == ring[Len(ring) - unread[r] + 1]

Take(r) ==
    /\ unread[r] > 0
    /\ unread' = [unread EXCEPT ![r] = @ - 1]
    /\ shown' = IF NextFor(r).kind = "link" THEN [shown EXCEPT ![r] = NextFor(r).link]
                ELSE shown
    /\ UNCHANGED <<lagged, alive, dropped>>

\* Mutant: a frontend that is told it lagged subscribes again.
PollAnew ==
    /\ \/ lagged["poller"] /\ unread' = [unread EXCEPT !["poller"] = 0]
          /\ lagged' = [lagged EXCEPT !["poller"] = FALSE] /\ UNCHANGED <<alive, shown, dropped>>
       \/ ~lagged["poller"] /\ Take("poller")
    /\ alive["poller"]
    /\ UNCHANGED <<setting, channel, outgoing, pump, ring>>

\* poll_event takes an error for the end of what there is.
Poll ==
    /\ alive["poller"]
    /\ \/ /\ lagged["poller"]
          /\ lagged' = [lagged EXCEPT !["poller"] = FALSE]
          /\ UNCHANGED <<unread, alive, shown, dropped>>
       \/ /\ ~lagged["poller"]
          /\ Take("poller")
    /\ UNCHANGED <<setting, channel, outgoing, pump, ring>>

\* The loop of the command line ends with the first error.
Listen ==
    /\ alive["listener"]
    /\ \/ /\ lagged["listener"]
          /\ alive' = [alive EXCEPT !["listener"] = FALSE]
          /\ unread' = [unread EXCEPT !["listener"] = 0]
          /\ lagged' = [lagged EXCEPT !["listener"] = FALSE]
          /\ UNCHANGED <<shown, dropped>>
       \/ /\ ~lagged["listener"]
          /\ Take("listener")
    /\ UNCHANGED <<setting, channel, outgoing, pump, ring>>

-----------------------------------------------------------------------------
(***************************************************************************)
(* Frames: HeadsetHost::send under the operations mutex.                   *)
(***************************************************************************)

\* A call begins; its frames have as many parts as their length needs.
Ask(t, frames, parts) ==
    /\ t \in setting.tasks /\ job[t].pc = "idle"
    /\ parts = 2 => setting.kind = "ble"
    /\ job' = [job EXCEPT ![t] = [Idle EXCEPT !.pc = "send", !.left = frames, !.parts = parts]]
    /\ UNCHANGED <<setting, channel, rest, late, wire, quiet, pump, events>>

\* Every query of a readout, every CD and most settings are short.
AskFrame == \E parts \in 1..2 : Ask("user", 1, parts)
AskReadout == Ask("user", ReadoutLen, 1)
AskCd == Ask("hub", 1, 1)

\* Mutant: send takes the mutex for the link only, and writes without it.
EnterAtWill(t) ==
    /\ job[t].pc = "send"
    /\ \/ /\ linked = 0
          /\ job' = [job EXCEPT ![t] = Idle] /\ UNCHANGED ops
       \/ /\ linked # 0
          /\ ops' = t
          /\ job' = [job EXCEPT ![t].pc = "ready", ![t].sleep = rest]
    /\ UNCHANGED <<setting, linked, opened, rest, late, wire, quiet, pump, events>>

\* Without a link a call fails, a readout with its first query; with one pace
\* sleeps until the gap after the last frame is over.
Enter(t) ==
    /\ job[t].pc = "send" /\ ops = "none"
    /\ \/ /\ linked = 0
          /\ job' = [job EXCEPT ![t] = Idle]
          /\ UNCHANGED ops
       \/ /\ linked # 0
          /\ ops' = t
          /\ job' = [job EXCEPT ![t].pc = "ready", ![t].sleep = rest]
    /\ UNCHANGED <<setting, linked, opened, rest, late, wire, quiet, pump, events>>

AtWrite(t) == job[t].pc = "ready" /\ job[t].sleep = 0

\* One transport.write, which a delay follows on BLE.
Write(t) ==
    /\ AtWrite(t)
    /\ wire' = [link |-> linked, by |-> t, part |-> job[t].part,
                state |-> IF job[t].part = job[t].parts THEN "complete" ELSE "open"]
    /\ quiet' = 0
    /\ job' = [job EXCEPT ![t].pc = "written",
                          ![t].sleep = IF setting.kind = "ble" THEN ChunkDelay ELSE 0]
    /\ UNCHANGED <<setting, channel, rest, late, pump, events>>

NextPart(t) ==
    /\ job[t].pc = "written" /\ job[t].sleep = 0
    /\ job[t].part < job[t].parts
    /\ job' = [job EXCEPT ![t].pc = "ready", ![t].part = @ + 1]
    /\ UNCHANGED <<setting, channel, rest, late, wire, quiet, pump, events>>

\* Mutant: a readout paces itself from its last frame only.
MarkAtEnd(t) ==
    /\ job[t].pc = "written" /\ job[t].sleep = 0
    /\ job[t].part = job[t].parts
    /\ rest' = IF job[t].left > 1 THEN rest ELSE Gap
    /\ ops' = "none"
    /\ job' = [job EXCEPT ![t] = IF job[t].left > 1
                                 THEN [Idle EXCEPT !.pc = "send", !.left = job[t].left - 1]
                                 ELSE Idle]
    /\ UNCHANGED <<setting, linked, opened, late, wire, quiet, pump, events>>

\* last_tx is now, and the mutex is free until the next frame of a readout.
Mark(t) ==
    /\ job[t].pc = "written" /\ job[t].sleep = 0
    /\ job[t].part = job[t].parts
    /\ rest' = Gap
    /\ ops' = "none"
    /\ job' = [job EXCEPT ![t] = IF job[t].left > 1
                                 THEN [Idle EXCEPT !.pc = "send", !.left = job[t].left - 1]
                                 ELSE Idle]
    /\ UNCHANGED <<setting, linked, opened, late, wire, quiet, pump, events>>

\* Mutant: a write that fails leaves the mutex locked.
WriteFailsLocked(t) ==
    /\ AtWrite(t)
    /\ job' = [job EXCEPT ![t] = Idle]
    /\ wire' = IF job[t].part > 1 THEN [wire EXCEPT !.state = "abandoned"] ELSE wire
    /\ UNCHANGED <<setting, channel, rest, late, quiet, pump, events>>

\* The rest of the frame and of a readout is not sent.
WriteFails(t) ==
    /\ AtWrite(t)
    /\ ops' = "none"
    /\ job' = [job EXCEPT ![t] = Idle]
    /\ wire' = IF job[t].part > 1 THEN [wire EXCEPT !.state = "abandoned"] ELSE wire
    /\ UNCHANGED <<setting, linked, opened, rest, late, quiet, pump, events>>

\* The time of a CD is over wherever it waits; a frame that is out already is
\* not marked, and a blocking write is left behind.
CdTimesOut ==
    /\ job["hub"].pc # "idle"
    /\ job' = [job EXCEPT !["hub"] = Idle]
    /\ ops' = IF ops = "hub" THEN "none" ELSE ops
    /\ late' = (late \/ (AtWrite("hub") /\ setting.blocking))
    /\ wire' = IF job["hub"].pc = "written" /\ wire.by = "hub"
               THEN [wire EXCEPT !.state = "abandoned"] ELSE wire
    /\ UNCHANGED <<setting, linked, opened, rest, quiet, pump, events>>

\* The closure left behind writes to the link that is open then, or fails.
LateCd ==
    /\ late
    /\ late' = FALSE
    /\ \/ UNCHANGED <<wire, quiet>>
       \/ /\ linked # 0
          /\ wire' = [link |-> linked, by |-> "late", part |-> 1, state |-> "complete"]
          /\ quiet' = 0
    /\ UNCHANGED <<setting, channel, rest, job, pump, events>>

Less(n) == IF n > 0 THEN n - 1 ELSE 0

\* 50 ms pass.
Tick ==
    /\ rest > 0 \/ quiet < Gap \/ \E t \in Sender : job[t].sleep > 0
    /\ rest' = Less(rest)
    /\ quiet' = IF quiet < Gap THEN quiet + 1 ELSE Gap
    /\ job' = [t \in Sender |-> [job[t] EXCEPT !.sleep = Less(@)]]
    /\ UNCHANGED <<setting, channel, late, wire, pump, events>>

-----------------------------------------------------------------------------
(***************************************************************************)
(* Links: connect and disconnect of the session, and the pump.             *)
(***************************************************************************)

Call(pc) ==
    /\ "user" \in setting.tasks /\ job["user"].pc = "idle"
    /\ job' = [job EXCEPT !["user"] = [Idle EXCEPT !.pc = pc]]
    /\ UNCHANGED <<setting, channel, rest, late, wire, quiet, pump, events>>

Connect == Call("connect")
Disconnect == Call("disconnect")

Goto(pc) == job' = [job EXCEPT !["user"].pc = pc]

\* Mutant: only what the session asked for is announced.
ClearSilently(p) ==
    /\ linked' = 0 /\ rest' = 0
    /\ pump' = [p EXCEPT !.stale = TRUE]
    /\ IF linked # 0 /\ p.pc # "closing" THEN Emit(LinkEvent(0)) ELSE UNCHANGED events

\* clear_link: a new generation, no link, no gap to keep, and an event if there
\* was a link; p is what becomes of the pump.
ClearLink(p) ==
    /\ linked' = 0 /\ rest' = 0
    /\ pump' = [p EXCEPT !.stale = TRUE]
    /\ IF linked # 0 THEN Emit(LinkEvent(0)) ELSE UNCHANGED events

\* The first half of connect and disconnect; without a link a connect has
\* nothing to clear or to close.
Clear ==
    /\ ops = "none" /\ ops' = "user"
    /\ \/ /\ job["user"].pc = "connect" /\ linked = 0
          /\ Goto("opening")
          /\ UNCHANGED <<linked, rest, pump, events>>
       \/ /\ job["user"].pc = "connect" /\ linked # 0
          /\ Goto("replacing")
          /\ ClearLink(pump)
       \/ /\ job["user"].pc = "disconnect"
          /\ Goto("closing")
          /\ ClearLink(pump)
    /\ UNCHANGED <<setting, opened, late, wire, quiet>>

Return ==
    /\ ops' = "none"
    /\ job' = [job EXCEPT !["user"] = Idle]

\* transport.close(), which may fail where it is a blocking call.
Close ==
    /\ \/ job["user"].pc = "closing" /\ Return
       \/ job["user"].pc = "replacing" /\ Goto("opening") /\ UNCHANGED ops
       \/ job["user"].pc = "replacing" /\ setting.blocking /\ Return
    /\ UNCHANGED <<setting, linked, opened, rest, late, wire, quiet, pump, events>>

Opens ==
    /\ job["user"].pc = "opening" /\ opened < MaxLinks
    /\ opened' = opened + 1 /\ linked' = opened + 1
    /\ rest' = 0
    /\ Goto("announce")
    /\ UNCHANGED <<setting, ops, late, wire, quiet, pump, events>>

OpenFails ==
    /\ job["user"].pc = "opening"
    /\ ClearLink(pump)
    /\ Return
    /\ UNCHANGED <<setting, opened, late, wire, quiet>>

Announce ==
    /\ job["user"].pc = "announce"
    /\ Emit(LinkEvent(linked))
    /\ Return
    /\ UNCHANGED <<setting, linked, opened, rest, late, wire, quiet, pump>>

\* pump is called again and again, and returns while there is no link.
PumpSubscribes ==
    /\ "pump" \in setting.tasks /\ pump.pc = "off"
    /\ pump' = [NoPump EXCEPT !.pc = "subscribed"]
    /\ UNCHANGED <<setting, channel, outgoing, events>>

PumpChecks ==
    /\ pump.pc = "subscribed"
    /\ pump' = IF linked = 0 THEN NoPump ELSE [pump EXCEPT !.pc = "receiving", !.of = linked]
    /\ UNCHANGED <<setting, channel, outgoing, events>>

PumpNotices ==
    /\ pump.pc = "receiving" /\ pump.stale
    /\ pump' = NoPump
    /\ UNCHANGED <<setting, channel, outgoing, events>>

PumpReceives(got) ==
    /\ pump.pc = "receiving" /\ ~pump.stale
    /\ pump' = [pump EXCEPT !.pc = "received", !.got = got]
    /\ UNCHANGED <<setting, channel, outgoing, events>>

\* Mutant: the pump does not look at the generation again under the mutex.
NeverOutdated == FALSE

\* The generation may have moved while the pump waited for the mutex.
Outdated == pump.stale

PumpTakes ==
    /\ pump.pc = "received" /\ ops = "none"
    /\ \/ /\ Outdated
          /\ pump' = NoPump
          /\ UNCHANGED <<linked, ops, rest, events>>
       \/ /\ ~Outdated /\ pump.got = "note"
          /\ pump' = [pump EXCEPT !.pc = "receiving"]
          /\ Emit([kind |-> "note", link |-> pump.of])
          /\ UNCHANGED <<linked, ops, rest>>
       \/ /\ ~Outdated /\ pump.got = "closed"
          /\ ops' = "pump"
          /\ ClearLink([pump EXCEPT !.pc = "closing"])
    /\ UNCHANGED <<setting, opened, job, late, wire, quiet>>

PumpCloses ==
    /\ pump.pc = "closing"
    /\ ops' = "none"
    /\ pump' = NoPump
    /\ UNCHANGED <<setting, linked, opened, outgoing, events>>

-----------------------------------------------------------------------------
Asks == AskFrame \/ AskReadout \/ AskCd \/ Connect \/ Disconnect
Sends(t) == Enter(t) \/ Write(t) \/ NextPart(t) \/ Mark(t) \/ WriteFails(t)
Relinks == Clear \/ Close \/ Opens \/ OpenFails \/ Announce
PumpRuns ==
    \/ PumpSubscribes \/ PumpChecks \/ PumpNotices \/ PumpTakes \/ PumpCloses
    \/ \E got \in {"note", "closed"} : PumpReceives(got)

Next ==
    \/ Asks \/ (\E t \in Sender : Sends(t)) \/ CdTimesOut \/ LateCd \/ Tick
    \/ Relinks \/ PumpRuns \/ Poll \/ Listen

Spec == Init /\ [][Next]_vars

\* Time passes, sleeps end, transport calls return, frontends poll, and the
\* mutex of tokio is handed on in the order of asking.
Fairness ==
    /\ WF_vars(Tick)
    /\ \A t \in Sender :
         /\ SF_vars(Enter(t))
         /\ WF_vars(Write(t) \/ WriteFails(t)) /\ WF_vars(NextPart(t)) /\ WF_vars(Mark(t))
    /\ SF_vars(Clear)
    /\ WF_vars(Close) /\ WF_vars(Opens \/ OpenFails) /\ WF_vars(Announce)
    /\ SF_vars(PumpTakes) /\ WF_vars(PumpCloses)
    /\ WF_vars(Poll) /\ WF_vars(Listen)

FairSpec == Spec /\ Fairness

-----------------------------------------------------------------------------
(* Properties *)

\* The parts of a frame follow one another on one link, whoever else wants to
\* write, fails or gives up: a frame begins when the last one on its link is
\* complete or abandoned, and goes on where it stopped (host.rs:121).
WholeFrames ==
    [][\A t \in Sender : Write(t) =>
         IF job[t].part = 1
         THEN wire.link = linked => wire.state # "open"
         ELSE wire = [link |-> linked, by |-> t, part |-> job[t].part - 1, state |-> "open"]]_vars

\* A new frame keeps the gap to the complete one before it on the same link, in
\* a readout, between a call and a CD, and after a reconnection, and a part the
\* delay to the part before it.  Only a frame that was given up, and a CD whose
\* caller is gone, are not waited for (host.rs:214).
Paced ==
    [][\A t \in Sender : Write(t) /\ wire.link = linked /\ wire.by # "late" =>
         /\ job[t].part = 1 /\ wire.state = "complete" => quiet >= Gap
         /\ job[t].part > 1 => quiet >= ChunkDelay]_vars

\* The events in the channel tell one story: links come and go in turn, and a
\* notification stands under the link its bytes were read from (host.rs:178).
EventsInOrder ==
    \A i \in 1..(Len(ring) - 1) :
        CASE ring[i + 1].kind = "note" -> ring[i + 1].link = ring[i].link
          [] ring[i + 1].kind = "link" -> (ring[i + 1].link = 0) = (ring[i].link # 0)

\* A frontend that has read everything shows the link there is, however calls,
\* failures and the pump replaced it, and whatever it lost before, unless what
\* it lost is the last event about the link (host.rs:34).
DrainedShowsLink ==
    \A r \in Reader :
        alive[r] /\ unread[r] = 0 /\ ~dropped[r] /\ job["user"].pc # "announce" =>
            shown[r] = linked

\* A link that stays is shown in the end, unless its event was lost or the
\* reader stopped reading (ui.rs:27).
ShownEventually ==
    \A r \in Reader : \A l \in Link :
        <>[](linked = l) => <>[](shown[r] = l \/ dropped[r] \/ ~alive[r])

\* Every call of the session returns, whatever fails and whoever else holds the
\* mutex in between (host.rs:121).
SendsReturn == job["user"].pc # "idle" ~> job["user"].pc = "idle"
=============================================================================
