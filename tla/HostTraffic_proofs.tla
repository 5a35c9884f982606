------------------------- MODULE HostTraffic_proofs --------------------------
(***************************************************************************)
(* Proofs about HostTraffic, for any gap, channel size and installation.   *)
(***************************************************************************)
EXTENDS HostTraffic, TLAPS

\* A full channel gives up one event for the next.
Kept == IF Len(ring) = Cap THEN Tail(ring) ELSE ring

LEMMA KeptFits ==
    ASSUME TypeOK, NEW event \in Event
    PROVE  /\ Append(Kept, event) \in Seq(Event)
           /\ Len(Append(Kept, event)) \in 1..Cap
           /\ Len(Append(Kept, event)) = Len(Kept) + 1
           /\ Len(Kept) \in Nat /\ Kept \in Seq(Event)
BY BoundAssumption DEF TypeOK, Kept

\* Emit keeps the types of the channel and of the readers.
LEMMA EmitType ==
    ASSUME TypeOK, NEW event \in Event, Emit(event)
    PROVE  /\ ring' \in Seq(Event) /\ Len(ring') <= Cap
           /\ unread' \in [Reader -> 0..Cap]
           /\ \A r \in Reader : unread'[r] <= Len(ring')
           /\ lagged' \in [Reader -> BOOLEAN] /\ alive' \in [Reader -> BOOLEAN]
           /\ shown' \in [Reader -> Link] /\ dropped' \in [Reader -> BOOLEAN]
<1>1. ring' = Append(Kept, event)
  BY DEF Emit, Kept
<1>2. ring' \in Seq(Event) /\ Len(ring') \in 1..Cap
  BY <1>1, KeptFits
<1>3. \A r \in Reader : unread'[r] \in 0..Cap /\ unread'[r] <= Len(ring')
  <2> SUFFICES ASSUME NEW r \in Reader
               PROVE  unread'[r] \in 0..Cap /\ unread'[r] <= Len(ring')
    OBVIOUS
  <2>1. Len(ring) \in Nat /\ Len(ring) <= Cap /\ Cap \in Nat \ {0} /\ unread[r] \in 0..Cap
        /\ unread[r] <= Len(ring)
    BY BoundAssumption DEF TypeOK
  <2>2. CASE Len(ring) = Cap
    <3>1. Len(ring') = Cap
      BY <2>1, <2>2, <1>1, KeptFits DEF Kept, TypeOK
    <3> QED  BY <3>1, <2>1, <2>2 DEF Emit
  <2>3. CASE Len(ring) # Cap
    <3>1. Len(ring') = Len(ring) + 1
      BY <2>1, <2>3, <1>1, KeptFits DEF Kept, TypeOK
    <3> QED  BY <3>1, <2>1, <2>3 DEF Emit
  <2> QED  BY <2>2, <2>3
<1>4. unread' \in [Reader -> 0..Cap]
  BY <1>3 DEF Emit
<1>5. lagged' \in [Reader -> BOOLEAN] /\ dropped' \in [Reader -> BOOLEAN]
  BY DEF Emit
<1>6. alive' = alive /\ shown' = shown
  BY DEF Emit
<1> QED  BY <1>2, <1>3, <1>4, <1>5, <1>6 DEF TypeOK

LEMMA IdleType == Idle \in Job
BY BoundAssumption, TimeAssumption DEF Idle, Job, Stage

LEMMA LinkEventType == \A l \in Link : LinkEvent(l) \in Event
BY DEF LinkEvent, Event

\* What clear_link does to the types.
LEMMA ClearLinkType ==
    ASSUME TypeOK, NEW p, ClearLink(p)
    PROVE  /\ linked' \in Link /\ rest' \in 0..Gap
           /\ ring' \in Seq(Event) /\ Len(ring') <= Cap
           /\ unread' \in [Reader -> 0..Cap]
           /\ \A r \in Reader : unread'[r] <= Len(ring')
           /\ lagged' \in [Reader -> BOOLEAN] /\ alive' \in [Reader -> BOOLEAN]
           /\ shown' \in [Reader -> Link] /\ dropped' \in [Reader -> BOOLEAN]
<1>1. 0 \in Link /\ 0 \in 0..Gap
  BY BoundAssumption, TimeAssumption DEF Link
<1>2. CASE linked # 0
  <2>1. Emit(LinkEvent(0)) /\ LinkEvent(0) \in Event
    BY <1>1, <1>2, LinkEventType DEF ClearLink
  <2> QED BY <1>1, <2>1, EmitType DEF ClearLink
<1>3. CASE linked = 0
  BY <1>1, <1>3 DEF ClearLink, TypeOK, events, readers
<1> QED BY <1>2, <1>3

\* What a reader that takes an event does to the types.
LEMMA TakeType ==
    ASSUME TypeOK, NEW r \in Reader, Take(r)
    PROVE  /\ unread' \in [Reader -> 0..Cap]
           /\ \A q \in Reader : unread'[q] <= Len(ring)
           /\ shown' \in [Reader -> Link]
<1>1. /\ unread[r] \in 0..Cap /\ unread[r] > 0 /\ unread[r] <= Len(ring)
      /\ Len(ring) \in Nat /\ Cap \in Nat
  BY BoundAssumption DEF TypeOK, Take
<1>2. unread' = [unread EXCEPT ![r] = @ - 1]
  BY DEF Take
<1>3. \A q \in Reader : unread'[q] \in 0..Cap /\ unread'[q] <= unread[q]
  BY <1>1, <1>2 DEF TypeOK
<1>4. unread' \in [Reader -> 0..Cap]
  BY <1>2, <1>3 DEF TypeOK
<1>5. \A q \in Reader : unread'[q] <= Len(ring)
  BY <1>1, <1>3, <1>4 DEF TypeOK
<1>6. NextFor(r) \in Event
  <2>1. Len(ring) - unread[r] + 1 \in 1..Len(ring)
    BY <1>1
  <2> QED BY <2>1 DEF NextFor, TypeOK
<1>7. shown' \in [Reader -> Link]
  BY <1>6 DEF Take, TypeOK, Event
<1> QED BY <1>4, <1>5, <1>7

\* Every step of the specification keeps the types.
LEMMA TypeNext == TypeOK /\ [Next]_vars => TypeOK'
<1> SUFFICES ASSUME TypeOK, [Next]_vars PROVE TypeOK'
  OBVIOUS
<1> USE IdleType, TimeAssumption, BoundAssumption
<1>1. ASSUME NEW t \in Sender, NEW n \in 0..ReadoutLen, NEW parts \in 1..2, Ask(t, n, parts)
      PROVE  TypeOK'
  <2>1. [Idle EXCEPT !.pc = "send", !.left = n, !.parts = parts] \in Job
    BY DEF Job, Stage
  <2> QED BY <1>1, <2>1 DEF Ask, TypeOK, channel, events, readers
<1>2. Asks => TypeOK'
  <2>1. ASSUME NEW pc \in {"connect", "disconnect"}, Call(pc) PROVE TypeOK'
    <3>1. [Idle EXCEPT !.pc = pc] \in Job
      BY DEF Job, Stage
    <3> QED BY <2>1, <3>1 DEF Call, TypeOK, Sender, channel, events, readers
  <2>2. 1 \in 0..ReadoutLen /\ ReadoutLen \in 0..ReadoutLen /\ 1 \in 1..2
    OBVIOUS
  <2>3. "user" \in Sender /\ "hub" \in Sender
    BY DEF Sender
  <2> QED BY <1>1, <2>1, <2>2, <2>3 DEF Asks, AskFrame, AskReadout, AskCd, Connect, Disconnect
<1>3. ASSUME NEW t \in Sender, Enter(t) PROVE TypeOK'
  <2>1. job[t] \in Job /\ rest \in 0..Gap
    BY DEF TypeOK
  <2>2. [job[t] EXCEPT !.pc = "ready", !.sleep = rest] \in Job
    BY <2>1 DEF Job, Stage
  <2>3. job' \in [Sender -> Job]
    BY <1>3, <2>2 DEF Enter, TypeOK
  <2> QED BY <1>3, <2>3 DEF Enter, TypeOK, events, readers
<1>4. ASSUME NEW t \in Sender, Write(t) PROVE TypeOK'
  <2>1. job[t] \in Job
    BY DEF TypeOK
  <2>2. [job[t] EXCEPT !.pc = "written",
                       !.sleep = IF setting.kind = "ble" THEN ChunkDelay ELSE 0] \in Job
    <3>1. \A n \in 0..Gap : [job[t] EXCEPT !.pc = "written", !.sleep = n] \in Job
      BY <2>1 DEF Job, Stage
    <3>2. (IF setting.kind = "ble" THEN ChunkDelay ELSE 0) \in 0..Gap
      OBVIOUS
    <3> QED BY <3>1, <3>2
  <2>3. job' \in [Sender -> Job]
    BY <1>4, <2>2 DEF Write, TypeOK
  <2>4. job[t].part \in 1..2
    BY <2>1 DEF Job
  <2> QED BY <1>4, <2>3, <2>4 DEF Write, TypeOK, channel, events, readers
<1>5. ASSUME NEW t \in Sender, NextPart(t) PROVE TypeOK'
  <2>1. job[t] \in Job
    BY DEF TypeOK
  <2>2. job[t].part + 1 \in 1..2
    BY <1>5, <2>1 DEF NextPart, Job
  <2>3. [job[t] EXCEPT !.pc = "ready", !.part = @ + 1] \in Job
    BY <2>1, <2>2 DEF Job, Stage
  <2>4. job' \in [Sender -> Job]
    BY <1>5, <2>3 DEF NextPart, TypeOK
  <2> QED BY <1>5, <2>4 DEF NextPart, TypeOK, channel, events, readers
<1>6. ASSUME NEW t \in Sender, Mark(t) PROVE TypeOK'
  <2>1. job[t] \in Job
    BY DEF TypeOK
  <2>2. job[t].left > 1 => [Idle EXCEPT !.pc = "send", !.left = job[t].left - 1] \in Job
    <3>1. \A n \in 0..ReadoutLen : [Idle EXCEPT !.pc = "send", !.left = n] \in Job
      BY DEF Idle, Job, Stage
    <3>2. job[t].left > 1 => job[t].left - 1 \in 0..ReadoutLen
      BY <2>1 DEF Job
    <3> QED BY <3>1, <3>2
  <2>3. job' \in [Sender -> Job]
    BY <1>6, <2>2 DEF Mark, TypeOK
  <2> QED BY <1>6, <2>3 DEF Mark, TypeOK, events, readers
<1>7. ASSUME NEW t \in Sender, WriteFails(t) PROVE TypeOK'
  BY <1>7 DEF WriteFails, TypeOK, events, readers
<1>8. CdTimesOut => TypeOK'
  <2> SUFFICES ASSUME CdTimesOut PROVE TypeOK'
    OBVIOUS
  <2>1. late' \in BOOLEAN
    <3>1. setting.blocking \in BOOLEAN
      BY SettingsAssumption DEF TypeOK, Setting
    <3> QED BY <3>1 DEF CdTimesOut, AtWrite, TypeOK
  <2>2. job' \in [Sender -> Job]
    BY DEF CdTimesOut, TypeOK
  <2>3. wire' \in [link: Link, by: Sender \union {"late"}, part: 1..2,
                   state: {"open", "complete", "abandoned"}]
    BY DEF CdTimesOut, TypeOK
  <2>4. ops' \in {"none", "pump"} \union Sender
    BY DEF CdTimesOut, TypeOK
  <2> QED BY <2>1, <2>2, <2>3, <2>4 DEF CdTimesOut, TypeOK, events, readers
<1>9. LateCd => TypeOK'
  <2> SUFFICES ASSUME LateCd PROVE TypeOK'
    OBVIOUS
  <2>1. 0 \in 0..Gap
    OBVIOUS
  <2>2. /\ quiet' \in 0..Gap
        /\ wire' \in [link: Link, by: Sender \union {"late"}, part: 1..2,
                      state: {"open", "complete", "abandoned"}]
    BY <2>1 DEF LateCd, TypeOK
  <2>3. UNCHANGED <<setting, linked, opened, ops, rest, job, pump, ring, unread, lagged, alive,
                    shown, dropped>> /\ late' = FALSE
    BY DEF LateCd, channel, events, readers
  <2> QED BY <2>2, <2>3 DEF TypeOK
<1>10. Tick => TypeOK'
  <2> SUFFICES ASSUME Tick PROVE TypeOK'
    OBVIOUS
  <2>1. \A n \in 0..Gap : Less(n) \in 0..Gap
    BY DEF Less
  <2>2. quiet' \in 0..Gap /\ rest' \in 0..Gap
    BY <2>1 DEF Tick, TypeOK
  <2>3. \A t \in Sender : [job[t] EXCEPT !.sleep = Less(@)] \in Job
    BY <2>1 DEF Job, TypeOK
  <2>4. job' \in [Sender -> Job]
    BY <2>3 DEF Tick
  <2> QED BY <2>2, <2>4 DEF Tick, TypeOK, channel, events, readers
<1>11. ASSUME NEW pc \in Stage, Goto(pc) PROVE job' \in [Sender -> Job]
  <2>1. "user" \in Sender /\ job["user"] \in Job
    BY DEF Sender, TypeOK
  <2>2. [job["user"] EXCEPT !.pc = pc] \in Job
    BY <2>1 DEF Job
  <2> QED BY <1>11, <2>1, <2>2 DEF Goto, TypeOK
<1>12. Return => job' \in [Sender -> Job] /\ ops' = "none"
  <2>1. job \in [Sender -> Job]
    BY DEF TypeOK
  <2> QED BY <2>1 DEF Return
<1>13. pump.of \in Link /\ [pump EXCEPT !.stale = TRUE] \in
          [pc: {"off", "subscribed", "receiving", "received", "closing"},
           stale: BOOLEAN, of: Link, got: {"note", "closed"}]
  BY DEF TypeOK
<1>14. Clear => TypeOK'
  <2> SUFFICES ASSUME Clear PROVE TypeOK'
    OBVIOUS
  <2>1. job' \in [Sender -> Job]
    BY <1>11 DEF Clear, Stage
  <2>2. ops' \in {"none", "pump"} \union Sender
    BY DEF Clear, Sender
  <2>3. CASE UNCHANGED <<linked, rest, pump, events>>
    BY <2>1, <2>2, <2>3 DEF Clear, TypeOK, events, readers
  <2>4. CASE ClearLink(pump)
    <3>1. pump' = [pump EXCEPT !.stale = TRUE]
      BY <2>4 DEF ClearLink
    <3> QED BY <2>1, <2>2, <2>4, <3>1, <1>13, ClearLinkType DEF Clear, TypeOK
  <2> QED BY <2>3, <2>4 DEF Clear
<1>15. Close => TypeOK'
  <2> SUFFICES ASSUME Close PROVE TypeOK'
    OBVIOUS
  <2>1. job' \in [Sender -> Job] /\ ops' \in {"none", "pump"} \union Sender
    BY <1>11, <1>12 DEF Close, Stage, TypeOK
  <2> QED BY <2>1 DEF Close, TypeOK, events, readers
<1>16. Opens => TypeOK'
  <2> SUFFICES ASSUME Opens PROVE TypeOK'
    OBVIOUS
  <2>1. job' \in [Sender -> Job]
    BY <1>11 DEF Opens, Stage
  <2>2. opened + 1 \in Link
    BY DEF Opens, TypeOK, Link
  <2> QED BY <2>1, <2>2 DEF Opens, TypeOK, events, readers
<1>17. OpenFails => TypeOK'
  <2> SUFFICES ASSUME OpenFails PROVE TypeOK'
    OBVIOUS
  <2>1. job' \in [Sender -> Job] /\ ops' = "none"
    BY <1>12 DEF OpenFails
  <2>2. pump' = [pump EXCEPT !.stale = TRUE] /\ ClearLink(pump)
    BY DEF OpenFails, ClearLink
  <2> QED BY <2>1, <2>2, <1>13, ClearLinkType DEF OpenFails, TypeOK
<1>18. Announce => TypeOK'
  <2> SUFFICES ASSUME Announce PROVE TypeOK'
    OBVIOUS
  <2>1. job' \in [Sender -> Job] /\ ops' = "none"
    BY <1>12 DEF Announce
  <2>2. LinkEvent(linked) \in Event /\ Emit(LinkEvent(linked))
    BY LinkEventType DEF Announce, TypeOK
  <2> QED BY <2>1, <2>2, EmitType DEF Announce, TypeOK
<1>19. ASSUME PumpSubscribes \/ PumpChecks \/ PumpNotices \/ PumpCloses
       PROVE  TypeOK'
  <2>1. 0 \in Link
    BY DEF Link
  <2>2. pump' \in [pc: {"off", "subscribed", "receiving", "received", "closing"},
                   stale: BOOLEAN, of: Link, got: {"note", "closed"}]
    <3> DEFINE Pumps == [pc: {"off", "subscribed", "receiving", "received", "closing"},
                         stale: BOOLEAN, of: Link, got: {"note", "closed"}]
    <3>1. pump \in Pumps /\ linked \in Link
      BY DEF TypeOK
    <3>2. NoPump \in Pumps /\ [NoPump EXCEPT !.pc = "subscribed"] \in Pumps
      BY <2>1 DEF NoPump
    <3>3. [pump EXCEPT !.pc = "receiving", !.of = linked] \in Pumps
      BY <3>1
    <3> QED BY <1>19, <3>1, <3>2, <3>3 DEF PumpSubscribes, PumpChecks, PumpNotices, PumpCloses
  <2>3. ops' \in {"none", "pump"} \union Sender
    BY <1>19 DEF PumpSubscribes, PumpChecks, PumpNotices, PumpCloses, TypeOK, channel
  <2>4. UNCHANGED <<setting, linked, opened, outgoing, events>>
    BY <1>19 DEF PumpSubscribes, PumpChecks, PumpNotices, PumpCloses, channel
  <2> QED BY <2>2, <2>3, <2>4 DEF TypeOK, outgoing, events, readers
<1>20. ASSUME NEW got \in {"note", "closed"}, PumpReceives(got) PROVE TypeOK'
  BY <1>20 DEF PumpReceives, TypeOK, channel, outgoing, events, readers
<1>21. PumpTakes => TypeOK'
  <2> SUFFICES ASSUME PumpTakes PROVE TypeOK'
    OBVIOUS
  <2>1. CASE pump' = NoPump /\ UNCHANGED <<linked, ops, rest, events>>
    <3>1. 0 \in Link
      BY DEF Link
    <3> QED BY <2>1, <3>1 DEF PumpTakes, NoPump, TypeOK, events, readers
  <2>2. CASE /\ pump' = [pump EXCEPT !.pc = "receiving"]
             /\ Emit([kind |-> "note", link |-> pump.of])
             /\ UNCHANGED <<linked, ops, rest>>
    <3>1. [kind |-> "note", link |-> pump.of] \in Event
      BY <1>13 DEF Event
    <3> QED BY <2>2, <3>1, EmitType DEF PumpTakes, TypeOK
  <2>3. CASE ops' = "pump" /\ ClearLink([pump EXCEPT !.pc = "closing"])
    <3>1. pump' = [pump EXCEPT !.pc = "closing", !.stale = TRUE]
      BY <2>3 DEF ClearLink
    <3>2. pump' \in [pc: {"off", "subscribed", "receiving", "received", "closing"},
                     stale: BOOLEAN, of: Link, got: {"note", "closed"}]
      BY <3>1 DEF TypeOK
    <3> QED BY <2>3, <3>2, ClearLinkType DEF PumpTakes, TypeOK
  <2> QED BY <2>1, <2>2, <2>3 DEF PumpTakes
<1>22. ASSUME NEW r \in Reader, Take(r),
              UNCHANGED <<setting, channel, outgoing, pump, ring>>
       PROVE  TypeOK'
  <2>1. lagged' = lagged /\ alive' = alive /\ dropped' = dropped
    BY <1>22 DEF Take
  <2> QED BY <1>22, <2>1, TakeType DEF TypeOK, channel, outgoing
<1>23. Poll \/ Listen => TypeOK'
  <2>1. "poller" \in Reader /\ "listener" \in Reader
    BY DEF Reader
  <2>2. ASSUME Poll, lagged["poller"] PROVE TypeOK'
    BY <2>1, <2>2 DEF Poll, TypeOK, channel, outgoing
  <2>3. ASSUME Listen, lagged["listener"] PROVE TypeOK'
    <3>1. /\ unread' = [unread EXCEPT !["listener"] = 0]
          /\ alive' = [alive EXCEPT !["listener"] = FALSE]
          /\ lagged' = [lagged EXCEPT !["listener"] = FALSE]
          /\ UNCHANGED <<shown, dropped, setting, channel, outgoing, pump, ring>>
      BY <2>3 DEF Listen
    <3>2. 0 <= Len(ring) /\ 0 \in 0..Cap
      BY DEF TypeOK
    <3>3. unread' \in [Reader -> 0..Cap] /\ \A r \in Reader : unread'[r] <= Len(ring')
      BY <3>1, <3>2 DEF TypeOK
    <3> QED BY <3>1, <3>3 DEF TypeOK, channel, outgoing
  <2> QED BY <1>22, <2>1, <2>2, <2>3 DEF Poll, Listen
<1>24. UNCHANGED vars => TypeOK'
  BY DEF vars, TypeOK, channel, outgoing, events, readers
<1> QED
  BY <1>2, <1>3, <1>4, <1>5, <1>6, <1>7, <1>8, <1>9, <1>10, <1>14, <1>15, <1>16, <1>17, <1>18,
     <1>19, <1>20, <1>21, <1>23, <1>24 DEF Next, Sends, Relinks, PumpRuns

LEMMA TypeInit == Init => TypeOK
<1> SUFFICES ASSUME Init PROVE TypeOK
  OBVIOUS
<1> USE TimeAssumption, BoundAssumption DEF Init
<1>1. 0 \in Link /\ 0 \in 0..Gap /\ Gap \in 0..Gap /\ 0 \in 0..Cap
  BY DEF Link
<1>2. /\ setting \in Settings /\ linked \in Link /\ opened \in Link
      /\ ops \in {"none", "pump"} \union Sender
      /\ rest \in 0..Gap /\ quiet \in 0..Gap /\ late \in BOOLEAN
      /\ job \in [Sender -> Job]
  BY <1>1, IdleType
<1>3. wire \in [link: Link, by: Sender \union {"late"}, part: 1..2,
                state: {"open", "complete", "abandoned"}]
  BY <1>1 DEF Sender
<1>4. pump \in [pc: {"off", "subscribed", "receiving", "received", "closing"},
                stale: BOOLEAN, of: Link, got: {"note", "closed"}]
  BY <1>1 DEF NoPump
<1>5. /\ ring \in Seq(Event) /\ Len(ring) = 0
      /\ unread \in [Reader -> 0..Cap] /\ \A r \in Reader : unread[r] <= Len(ring)
      /\ lagged \in [Reader -> BOOLEAN] /\ alive \in [Reader -> BOOLEAN]
      /\ shown \in [Reader -> Link] /\ dropped \in [Reader -> BOOLEAN]
  BY <1>1
<1> QED BY <1>2, <1>3, <1>4, <1>5 DEF TypeOK

\* Whatever is written, lost or read, every variable keeps its type, and the
\* channel never holds more than its capacity (host.rs:33).
THEOREM TypeCorrect == Spec => []TypeOK
BY TypeInit, TypeNext, PTL DEF Spec

-----------------------------------------------------------------------------
(***************************************************************************)
(* Frames and gaps.  The inductive invariant says who holds the mutex,     *)
(* which link the last piece went to, where in a frame a sender is, and    *)
(* how much of the gap is over.                                            *)
(***************************************************************************)
Holding == {"ready", "written", "opening", "announce", "replacing", "closing"}

Mutex ==
    /\ \A t \in Sender : job[t].pc \in Holding <=> ops = t
    /\ pump.pc = "closing" <=> ops = "pump"
HubSends == job["hub"].pc \in {"idle", "send", "ready", "written"} /\ job["hub"].parts = 1
Links ==
    /\ linked = 0 \/ linked = opened
    /\ wire.link <= opened
    /\ \A t \in Sender :
         /\ job[t].pc \in {"ready", "written", "announce"} => linked # 0
         /\ job[t].pc \in {"opening", "replacing", "closing"} => linked = 0
Short ==
    /\ \A t \in Sender : job[t].parts = 2 => setting.kind = "ble"
    /\ late => setting.kind = "rfcomm"
FramePlace ==
    \A t \in Sender :
        /\ job[t].part <= job[t].parts
        /\ job[t].pc \notin {"ready", "written"} => job[t].part = 1
        /\ job[t].pc = "ready" /\ job[t].part > 1 =>
             wire = [link |-> linked, by |-> t, part |-> job[t].part - 1, state |-> "open"]
        /\ job[t].pc = "written" => wire.link = linked /\ wire.by \in {t, "late"}
        /\ job[t].pc = "written" /\ job[t].part < job[t].parts =>
             wire = [link |-> linked, by |-> t, part |-> job[t].part, state |-> "open"]
InFrame(t) ==
    \/ job[t].pc = "ready" /\ job[t].part > 1
    \/ job[t].pc = "written" /\ job[t].part < job[t].parts
OpenFrame ==
    wire.state = "open" /\ wire.link = linked /\ linked # 0 => \E t \in Sender : InFrame(t)
GapOver ==
    wire.link = linked /\ linked # 0 /\ wire.by # "late" /\ wire.state = "complete" =>
        /\ (\A t \in Sender : job[t].pc # "written") => quiet + rest >= Gap
        /\ \A t \in Sender :
             job[t].pc = "ready" /\ job[t].part = 1 => quiet + job[t].sleep >= Gap
DelayOver ==
    \A t \in Sender :
        /\ job[t].pc = "written" /\ job[t].part < job[t].parts =>
             quiet + job[t].sleep >= ChunkDelay
        /\ job[t].pc = "ready" /\ job[t].part > 1 => quiet >= ChunkDelay
FrameInv ==
    /\ TypeOK /\ Mutex /\ HubSends /\ Links /\ Short
    /\ FramePlace /\ OpenFrame /\ GapOver /\ DelayOver

\* What the frames depend on, and the steps that leave it alone.
frame == <<setting, linked, opened, ops, rest, job, late, wire, quiet>>

LEMMA FrameStutter ==
    ASSUME FrameInv, TypeOK', UNCHANGED frame, pump'.pc = "closing" <=> pump.pc = "closing"
    PROVE  FrameInv'
BY DEF FrameInv, frame, Mutex, HubSends, Links, Short, FramePlace, InFrame, OpenFrame, GapOver,
       DelayOver

\* The types the steps below need, one by one.
LEMMA FrameTypes ==
    ASSUME TypeOK
    PROVE  /\ linked \in Nat /\ opened \in Nat /\ rest \in 0..Gap /\ quiet \in 0..Gap
           /\ Gap \in Nat /\ ChunkDelay \in Nat /\ ChunkDelay <= Gap
           /\ job \in [Sender -> Job]
           /\ \A t \in Sender : /\ job[t].sleep \in 0..Gap /\ job[t].pc \in Stage
                               /\ job[t].part \in 1..2 /\ job[t].parts \in 1..2
                               /\ job[t].left \in Nat
           /\ wire.link \in Nat /\ wire.part \in 1..2
           /\ wire = [link |-> wire.link, by |-> wire.by, part |-> wire.part,
                      state |-> wire.state]
BY TimeAssumption, BoundAssumption DEF TypeOK, Job, Link
LEMMA FrameAsks ==
    ASSUME FrameInv, TypeOK', NEW t \in Sender, NEW n \in 0..ReadoutLen, NEW parts \in 1..2, Ask(t, n, parts), t = "hub" => parts = 1
    PROVE  FrameInv'
<1> USE FrameTypes DEF Sender
<1>1. Mutex'
  BY SMTT(20) DEF FrameInv, Mutex, Holding, Ask, Idle, channel, events, readers
<1>2. HubSends'
  BY SMTT(20) DEF FrameInv, HubSends, Ask, Idle, channel, events, readers
<1>3. Links'
  BY SMTT(20) DEF FrameInv, Links, Mutex, Holding, Ask, Idle, channel, events, readers
<1>4. Short'
  BY SMTT(20) DEF FrameInv, Short, HubSends, Ask, Idle, channel, events, readers
<1>5. FramePlace'
  BY SMTT(20) DEF FrameInv, FramePlace, Mutex, Holding, Short, HubSends, Links, Ask, Idle, channel, events, readers
<1>6. OpenFrame'
  BY SMTT(20) DEF FrameInv, OpenFrame, InFrame, Mutex, Holding, FramePlace, HubSends, Links, Short, Ask, Idle, channel, events, readers
<1>7. GapOver'
  BY SMTT(20) DEF FrameInv, GapOver, Mutex, Holding, FramePlace, Links, HubSends, Ask, Idle, channel, events, readers
<1>8. DelayOver'
  BY SMTT(20) DEF FrameInv, DelayOver, Mutex, Holding, FramePlace, Short, Ask, Idle, channel, events, readers
<1> QED BY <1>1, <1>2, <1>3, <1>4, <1>5, <1>6, <1>7, <1>8 DEF FrameInv

LEMMA FrameCalls ==
    ASSUME FrameInv, TypeOK', NEW pc \in {"connect", "disconnect"}, Call(pc)
    PROVE  FrameInv'
<1> USE FrameTypes DEF Sender
<1>1. Mutex'
  BY SMTT(20) DEF FrameInv, Mutex, Holding, Call, Idle, channel, events, readers
<1>2. HubSends'
  BY SMTT(20) DEF FrameInv, HubSends, Call, Idle, channel, events, readers
<1>3. Links'
  BY SMTT(20) DEF FrameInv, Links, Mutex, Holding, Call, Idle, channel, events, readers
<1>4. Short'
  BY SMTT(20) DEF FrameInv, Short, HubSends, Call, Idle, channel, events, readers
<1>5. FramePlace'
  BY SMTT(20) DEF FrameInv, FramePlace, Mutex, Holding, Short, HubSends, Links, Call, Idle, channel, events, readers
<1>6. OpenFrame'
  BY SMTT(20) DEF FrameInv, OpenFrame, InFrame, Mutex, Holding, FramePlace, HubSends, Links, Short, Call, Idle, channel, events, readers
<1>7. GapOver'
  BY SMTT(20) DEF FrameInv, GapOver, Mutex, Holding, FramePlace, Links, HubSends, Call, Idle, channel, events, readers
<1>8. DelayOver'
  BY SMTT(20) DEF FrameInv, DelayOver, Mutex, Holding, FramePlace, Short, Call, Idle, channel, events, readers
<1> QED BY <1>1, <1>2, <1>3, <1>4, <1>5, <1>6, <1>7, <1>8 DEF FrameInv

LEMMA FrameEnters ==
    ASSUME FrameInv, TypeOK', NEW t \in Sender, Enter(t)
    PROVE  FrameInv'
<1> USE FrameTypes DEF Sender
<1>1. /\ UNCHANGED <<setting, linked, opened, rest, late, wire, quiet, pump>>
      /\ job[t].pc = "send" /\ ops = "none"
  BY DEF Enter
<1>2. \A q \in Sender : q # t => job'[q] = job[q]
  BY DEF Enter, FrameInv
<1>3. CASE linked = 0
  <2> USE <1>1, <1>2, <1>3
  <2>0. job'[t] = Idle /\ ops' = "none"
    BY DEF Enter, FrameInv
  <2>1. Mutex'
    BY <2>0, SMTT(20) DEF FrameInv, Mutex, Holding, Idle
  <2>2. HubSends'
    BY <2>0, SMTT(20) DEF FrameInv, HubSends, Idle
  <2>3. Links'
    BY <2>0, SMTT(20) DEF FrameInv, Links, Mutex, Holding, Idle
  <2>4. Short'
    BY <2>0, SMTT(20) DEF FrameInv, Short, HubSends, Idle
  <2>5. FramePlace'
    BY <2>0, SMTT(20) DEF FrameInv, FramePlace, Mutex, Holding, Short, HubSends, Links, Idle
  <2>6. OpenFrame'
    BY <2>0, SMTT(20) DEF FrameInv, OpenFrame, InFrame, Mutex, Holding, FramePlace, HubSends, Links, Short, Idle
  <2>7. GapOver'
    BY <2>0, SMTT(20) DEF FrameInv, GapOver, Mutex, Holding, FramePlace, Links, HubSends, Idle
  <2>8. DelayOver'
    BY <2>0, SMTT(20) DEF FrameInv, DelayOver, Mutex, Holding, FramePlace, Short, Idle
  <2> QED BY <2>1, <2>2, <2>3, <2>4, <2>5, <2>6, <2>7, <2>8 DEF FrameInv
<1>4. CASE linked # 0
  <2> USE <1>1, <1>2, <1>4
  <2>0. /\ job'[t].pc = "ready" /\ job'[t].sleep = rest /\ ops' = t
        /\ job'[t].left = job[t].left /\ job'[t].part = job[t].part
        /\ job'[t].parts = job[t].parts
    BY DEF Enter, FrameInv, Job
  <2>1. Mutex'
    BY <2>0, SMTT(20) DEF FrameInv, Mutex, Holding
  <2>2. HubSends'
    BY <2>0, SMTT(20) DEF FrameInv, HubSends
  <2>3. Links'
    BY <2>0, SMTT(20) DEF FrameInv, Links, Mutex, Holding
  <2>4. Short'
    BY <2>0, SMTT(20) DEF FrameInv, Short, HubSends
  <2>5. FramePlace'
    BY <2>0, SMTT(20) DEF FrameInv, FramePlace, Mutex, Holding, Short, HubSends, Links
  <2>6. OpenFrame'
    BY <2>0, SMTT(20) DEF FrameInv, OpenFrame, InFrame, Mutex, Holding, FramePlace, HubSends, Links, Short
  <2>7. GapOver'
    BY <2>0, SMTT(20) DEF FrameInv, GapOver, Mutex, Holding, FramePlace, Links, HubSends
  <2>8. DelayOver'
    BY <2>0, SMTT(20) DEF FrameInv, DelayOver, Mutex, Holding, FramePlace, Short
  <2> QED BY <2>1, <2>2, <2>3, <2>4, <2>5, <2>6, <2>7, <2>8 DEF FrameInv
<1> QED BY <1>3, <1>4

LEMMA FrameWrites ==
    ASSUME FrameInv, TypeOK', NEW t \in Sender, Write(t)
    PROVE  FrameInv'
<1> USE FrameTypes DEF Sender
<1>1. Mutex'
  BY SMTT(20) DEF FrameInv, Mutex, Holding, Write, AtWrite, channel, events, readers
<1>2. HubSends'
  BY SMTT(20) DEF FrameInv, HubSends, Write, AtWrite, channel, events, readers
<1>3. Links'
  BY SMTT(20) DEF FrameInv, Links, Mutex, Holding, Write, AtWrite, channel, events, readers
<1>4. Short'
  BY SMTT(20) DEF FrameInv, Short, HubSends, Write, AtWrite, channel, events, readers
<1>5. FramePlace'
  BY SMTT(20) DEF FrameInv, FramePlace, Mutex, Holding, Short, HubSends, Links, Write, AtWrite, channel, events, readers
<1>6. OpenFrame'
  BY SMTT(20) DEF FrameInv, OpenFrame, InFrame, Mutex, Holding, FramePlace, HubSends, Links, Short, Write, AtWrite, channel, events, readers
<1>7. GapOver'
  BY SMTT(20) DEF FrameInv, GapOver, Mutex, Holding, FramePlace, Links, HubSends, Write, AtWrite, channel, events, readers
<1>8. DelayOver'
  BY SMTT(20) DEF FrameInv, DelayOver, Mutex, Holding, FramePlace, Short, Write, AtWrite, channel, events, readers
<1> QED BY <1>1, <1>2, <1>3, <1>4, <1>5, <1>6, <1>7, <1>8 DEF FrameInv

LEMMA FrameNextParts ==
    ASSUME FrameInv, TypeOK', NEW t \in Sender, NextPart(t)
    PROVE  FrameInv'
<1> USE FrameTypes DEF Sender
<1>1. Mutex'
  BY SMTT(20) DEF FrameInv, Mutex, Holding, NextPart, channel, events, readers
<1>2. HubSends'
  BY SMTT(20) DEF FrameInv, HubSends, NextPart, channel, events, readers
<1>3. Links'
  BY SMTT(20) DEF FrameInv, Links, Mutex, Holding, NextPart, channel, events, readers
<1>4. Short'
  BY SMTT(20) DEF FrameInv, Short, HubSends, NextPart, channel, events, readers
<1>5. FramePlace'
  BY SMTT(20) DEF FrameInv, FramePlace, Mutex, Holding, Short, HubSends, Links, NextPart, channel, events, readers
<1>6. OpenFrame'
  BY SMTT(20) DEF FrameInv, OpenFrame, InFrame, Mutex, Holding, FramePlace, HubSends, Links, Short, NextPart, channel, events, readers
<1>7. GapOver'
  BY SMTT(20) DEF FrameInv, GapOver, Mutex, Holding, FramePlace, Links, HubSends, NextPart, channel, events, readers
<1>8. DelayOver'
  BY SMTT(20) DEF FrameInv, DelayOver, Mutex, Holding, FramePlace, Short, NextPart, channel, events, readers
<1> QED BY <1>1, <1>2, <1>3, <1>4, <1>5, <1>6, <1>7, <1>8 DEF FrameInv

LEMMA FrameMarks ==
    ASSUME FrameInv, TypeOK', NEW t \in Sender, Mark(t)
    PROVE  FrameInv'
<1> USE FrameTypes DEF Sender
<1>1. Mutex'
  BY SMTT(20) DEF FrameInv, Mutex, Holding, Mark, Idle, events, readers
<1>2. HubSends'
  BY SMTT(20) DEF FrameInv, HubSends, Mark, Idle, events, readers
<1>3. Links'
  BY SMTT(20) DEF FrameInv, Links, Mutex, Holding, Mark, Idle, events, readers
<1>4. Short'
  BY SMTT(20) DEF FrameInv, Short, HubSends, Mark, Idle, events, readers
<1>5. FramePlace'
  BY SMTT(20) DEF FrameInv, FramePlace, Mutex, Holding, Short, HubSends, Links, Mark, Idle, events, readers
<1>6. OpenFrame'
  BY SMTT(20) DEF FrameInv, OpenFrame, InFrame, Mutex, Holding, FramePlace, HubSends, Links, Short, Mark, Idle, events, readers
<1>7. GapOver'
  BY SMTT(20) DEF FrameInv, GapOver, Mutex, Holding, FramePlace, Links, HubSends, Mark, Idle, events, readers
<1>8. DelayOver'
  BY SMTT(20) DEF FrameInv, DelayOver, Mutex, Holding, FramePlace, Short, Mark, Idle, events, readers
<1> QED BY <1>1, <1>2, <1>3, <1>4, <1>5, <1>6, <1>7, <1>8 DEF FrameInv

LEMMA FrameFails ==
    ASSUME FrameInv, TypeOK', NEW t \in Sender, WriteFails(t)
    PROVE  FrameInv'
<1> USE FrameTypes DEF Sender
<1>1. Mutex'
  BY SMTT(20) DEF FrameInv, Mutex, Holding, WriteFails, AtWrite, Idle, events, readers
<1>2. HubSends'
  BY SMTT(20) DEF FrameInv, HubSends, WriteFails, AtWrite, Idle, events, readers
<1>3. Links'
  BY SMTT(20) DEF FrameInv, Links, Mutex, Holding, WriteFails, AtWrite, Idle, events, readers
<1>4. Short'
  BY SMTT(20) DEF FrameInv, Short, HubSends, WriteFails, AtWrite, Idle, events, readers
<1>5. FramePlace'
  BY SMTT(20) DEF FrameInv, FramePlace, Mutex, Holding, Short, HubSends, Links, WriteFails, AtWrite, Idle, events, readers
<1>6. OpenFrame'
  BY SMTT(20) DEF FrameInv, OpenFrame, InFrame, Mutex, Holding, FramePlace, HubSends, Links, Short, WriteFails, AtWrite, Idle, events, readers
<1>7. GapOver'
  BY SMTT(20) DEF FrameInv, GapOver, Mutex, Holding, FramePlace, Links, HubSends, WriteFails, AtWrite, Idle, events, readers
<1>8. DelayOver'
  BY SMTT(20) DEF FrameInv, DelayOver, Mutex, Holding, FramePlace, Short, WriteFails, AtWrite, Idle, events, readers
<1> QED BY <1>1, <1>2, <1>3, <1>4, <1>5, <1>6, <1>7, <1>8 DEF FrameInv

LEMMA FrameTimesOut ==
    ASSUME FrameInv, TypeOK', CdTimesOut
    PROVE  FrameInv'
<1> USE FrameTypes DEF Sender
<1>1. Mutex'
  BY SMTT(20) DEF FrameInv, Mutex, Holding, CdTimesOut, AtWrite, Idle, events, readers
<1>2. HubSends'
  BY SMTT(20) DEF FrameInv, HubSends, CdTimesOut, AtWrite, Idle, events, readers
<1>3. Links'
  BY SMTT(20) DEF FrameInv, Links, Mutex, Holding, CdTimesOut, AtWrite, Idle, events, readers
<1>4. Short'
  <2>1. setting \in Settings /\ setting' = setting
    BY DEF FrameInv, TypeOK, CdTimesOut
  <2>2. setting.blocking => setting.kind = "rfcomm"
    BY <2>1, SettingsAssumption
  <2>3. \A t \in Sender : job'[t].parts = 2 => setting'.kind = "ble"
    BY <2>1 DEF FrameInv, Short, CdTimesOut, Idle
  <2>4. late' => setting'.kind = "rfcomm"
    BY <2>1, <2>2 DEF FrameInv, Short, CdTimesOut
  <2> QED BY <2>3, <2>4 DEF Short
<1>5. FramePlace'
  BY SMTT(20) DEF FrameInv, FramePlace, Mutex, Holding, Short, HubSends, Links, CdTimesOut, AtWrite, Idle, events, readers
<1>6. OpenFrame'
  BY SMTT(20) DEF FrameInv, OpenFrame, InFrame, Mutex, Holding, FramePlace, HubSends, Links, Short, CdTimesOut, AtWrite, Idle, events, readers
<1>7. GapOver'
  BY SMTT(20) DEF FrameInv, GapOver, Mutex, Holding, FramePlace, Links, HubSends, CdTimesOut, AtWrite, Idle, events, readers
<1>8. DelayOver'
  BY SMTT(20) DEF FrameInv, DelayOver, Mutex, Holding, FramePlace, Short, CdTimesOut, AtWrite, Idle, events, readers
<1> QED BY <1>1, <1>2, <1>3, <1>4, <1>5, <1>6, <1>7, <1>8 DEF FrameInv

LEMMA FrameLates ==
    ASSUME FrameInv, TypeOK', LateCd
    PROVE  FrameInv'
<1> USE FrameTypes DEF Sender
<1>1. Mutex'
  BY SMTT(20) DEF FrameInv, Mutex, Holding, LateCd, channel, events, readers
<1>2. HubSends'
  BY SMTT(20) DEF FrameInv, HubSends, LateCd, channel, events, readers
<1>3. Links'
  BY SMTT(20) DEF FrameInv, Links, Mutex, Holding, LateCd, channel, events, readers
<1>4. Short'
  BY SMTT(20) DEF FrameInv, Short, HubSends, LateCd, channel, events, readers
<1>5. FramePlace'
  BY SMTT(20) DEF FrameInv, FramePlace, Mutex, Holding, Short, HubSends, Links, LateCd, channel, events, readers
<1>6. OpenFrame'
  BY SMTT(20) DEF FrameInv, OpenFrame, InFrame, Mutex, Holding, FramePlace, HubSends, Links, Short, LateCd, channel, events, readers
<1>7. GapOver'
  BY SMTT(20) DEF FrameInv, GapOver, Mutex, Holding, FramePlace, Links, HubSends, LateCd, channel, events, readers
<1>8. DelayOver'
  BY SMTT(20) DEF FrameInv, DelayOver, Mutex, Holding, FramePlace, Short, LateCd, channel, events, readers
<1> QED BY <1>1, <1>2, <1>3, <1>4, <1>5, <1>6, <1>7, <1>8 DEF FrameInv

LEMMA FrameTicks ==
    ASSUME FrameInv, TypeOK', Tick
    PROVE  FrameInv'
<1> USE FrameTypes DEF Sender
<1>a. UNCHANGED <<setting, linked, opened, ops, late, wire, pump>>
  BY DEF Tick, channel
<1>b. \A t \in Sender :
        /\ job'[t].pc = job[t].pc /\ job'[t].left = job[t].left
        /\ job'[t].part = job[t].part /\ job'[t].parts = job[t].parts
        /\ job'[t].sleep = Less(job[t].sleep)
  BY DEF Tick, FrameInv, Job
<1>c. quiet' = (IF quiet < Gap THEN quiet + 1 ELSE Gap) /\ rest' = Less(rest)
  BY DEF Tick
<1>d. /\ quiet + rest >= Gap => quiet' + rest' >= Gap
      /\ \A t \in Sender, n \in 0..Gap :
           quiet + job[t].sleep >= n => quiet' + job'[t].sleep >= n
      /\ quiet' >= quiet
  BY <1>b, <1>c DEF FrameInv, Less
<1>e. ChunkDelay \in 0..Gap /\ Gap \in 0..Gap
  BY DEF FrameInv
<1>1. Mutex'
  BY <1>a, <1>b, <1>d, <1>e, SMTT(20) DEF FrameInv, Mutex, Holding
<1>2. HubSends'
  BY <1>a, <1>b, <1>d, <1>e, SMTT(20) DEF FrameInv, HubSends
<1>3. Links'
  BY <1>a, <1>b, <1>d, <1>e, SMTT(20) DEF FrameInv, Links, Mutex, Holding
<1>4. Short'
  BY <1>a, <1>b, <1>d, <1>e, SMTT(20) DEF FrameInv, Short, HubSends
<1>5. FramePlace'
  BY <1>a, <1>b, <1>d, <1>e, SMTT(20) DEF FrameInv, FramePlace, Mutex, Holding, Short, HubSends, Links
<1>6. OpenFrame'
  BY <1>a, <1>b, <1>d, <1>e, SMTT(20) DEF FrameInv, OpenFrame, InFrame, Mutex, Holding, FramePlace, HubSends, Links, Short
<1>7. GapOver'
  BY <1>a, <1>b, <1>d, <1>e, SMTT(20) DEF FrameInv, GapOver, Mutex, Holding, FramePlace, Links, HubSends
<1>8. DelayOver'
  <2>1. \A t \in Sender :
          quiet + job[t].sleep >= ChunkDelay => quiet' + job'[t].sleep >= ChunkDelay
    BY <1>d, <1>e
  <2>2. quiet' \in Nat /\ quiet \in Nat /\ ChunkDelay \in Nat
    BY DEF FrameInv, TypeOK
  <2> QED BY <1>b, <1>d, <2>1, <2>2 DEF FrameInv, DelayOver
<1> QED BY <1>1, <1>2, <1>3, <1>4, <1>5, <1>6, <1>7, <1>8 DEF FrameInv

LEMMA FrameClears ==
    ASSUME FrameInv, TypeOK', Clear
    PROVE  FrameInv'
<1> USE FrameTypes DEF Sender
<1>a. /\ UNCHANGED <<setting, opened, late, wire, quiet>> /\ linked' = 0
      /\ ops = "none" /\ ops' = "user"
      /\ job["user"].pc \in {"connect", "disconnect"}
  BY DEF Clear, ClearLink
<1>b. PICK pc \in {"opening", "replacing", "closing"} :
        job' = [job EXCEPT !["user"].pc = pc]
  BY DEF Clear, Goto
<1>c. /\ job'["hub"] = job["hub"] /\ job'["user"].pc = pc
      /\ job'["user"].left = job["user"].left /\ job'["user"].part = job["user"].part
      /\ job'["user"].parts = job["user"].parts
  BY <1>b DEF FrameInv, Job
<1>d. pump'.pc = pump.pc
  BY DEF Clear, ClearLink, FrameInv, TypeOK
<1>1. Mutex'
  BY <1>a, <1>c, <1>d, SMTT(20) DEF FrameInv, Mutex, Holding
<1>2. HubSends'
  BY <1>a, <1>c, <1>d, SMTT(20) DEF FrameInv, HubSends
<1>3. Links'
  BY <1>a, <1>c, <1>d, SMTT(20) DEF FrameInv, Links, Mutex, Holding
<1>4. Short'
  BY <1>a, <1>c, <1>d, SMTT(20) DEF FrameInv, Short, HubSends
<1>5. FramePlace'
  BY <1>a, <1>c, <1>d, SMTT(20) DEF FrameInv, FramePlace, Mutex, Holding, Short, HubSends, Links
<1>6. OpenFrame'
  BY <1>a, <1>c, <1>d, SMTT(20) DEF FrameInv, OpenFrame, InFrame, Mutex, Holding, FramePlace, HubSends, Links, Short
<1>7. GapOver'
  BY <1>a, <1>c, <1>d, SMTT(20) DEF FrameInv, GapOver, Mutex, Holding, FramePlace, Links, HubSends
<1>8. DelayOver'
  BY <1>a, <1>c, <1>d, SMTT(20) DEF FrameInv, DelayOver, Mutex, Holding, FramePlace, Short
<1> QED BY <1>1, <1>2, <1>3, <1>4, <1>5, <1>6, <1>7, <1>8 DEF FrameInv

LEMMA FrameCloses ==
    ASSUME FrameInv, TypeOK', Close
    PROVE  FrameInv'
<1> USE FrameTypes DEF Sender
<1>a. /\ UNCHANGED <<setting, linked, opened, rest, late, wire, quiet, pump>>
      /\ job["user"].pc \in {"closing", "replacing"} /\ job'["hub"] = job["hub"]
  BY DEF Close, Goto, Return, FrameInv
<1>b. CASE Return
  <2> USE <1>a
  <2>0. job'["user"] = Idle /\ ops' = "none"
    BY <1>b DEF Return, FrameInv
  <2>1. Mutex'
    BY <2>0, SMTT(20) DEF FrameInv, Mutex, Holding, Idle
  <2>2. HubSends'
    BY <2>0, SMTT(20) DEF FrameInv, HubSends, Idle
  <2>3. Links'
    BY <2>0, SMTT(20) DEF FrameInv, Links, Mutex, Holding, Idle
  <2>4. Short'
    BY <2>0, SMTT(20) DEF FrameInv, Short, HubSends, Idle
  <2>5. FramePlace'
    BY <2>0, SMTT(20) DEF FrameInv, FramePlace, Mutex, Holding, Short, HubSends, Links, Idle
  <2>6. OpenFrame'
    BY <2>0, SMTT(20) DEF FrameInv, OpenFrame, InFrame, Mutex, Holding, FramePlace, HubSends, Links, Short, Idle
  <2>7. GapOver'
    BY <2>0, SMTT(20) DEF FrameInv, GapOver, Mutex, Holding, FramePlace, Links, HubSends, Idle
  <2>8. DelayOver'
    BY <2>0, SMTT(20) DEF FrameInv, DelayOver, Mutex, Holding, FramePlace, Short, Idle
  <2> QED BY <2>1, <2>2, <2>3, <2>4, <2>5, <2>6, <2>7, <2>8 DEF FrameInv
<1>c. CASE Goto("opening") /\ UNCHANGED ops
  <2> USE <1>a
  <2>0. /\ job'["user"].pc = "opening" /\ ops' = ops
        /\ job'["user"].left = job["user"].left /\ job'["user"].part = job["user"].part
        /\ job'["user"].parts = job["user"].parts
    BY <1>c DEF Goto, FrameInv, Job
  <2>1. Mutex'
    BY <2>0, SMTT(20) DEF FrameInv, Mutex, Holding
  <2>2. HubSends'
    BY <2>0, SMTT(20) DEF FrameInv, HubSends
  <2>3. Links'
    BY <2>0, SMTT(20) DEF FrameInv, Links, Mutex, Holding
  <2>4. Short'
    BY <2>0, SMTT(20) DEF FrameInv, Short, HubSends
  <2>5. FramePlace'
    BY <2>0, SMTT(20) DEF FrameInv, FramePlace, Mutex, Holding, Short, HubSends, Links
  <2>6. OpenFrame'
    BY <2>0, SMTT(20) DEF FrameInv, OpenFrame, InFrame, Mutex, Holding, FramePlace, HubSends, Links, Short
  <2>7. GapOver'
    BY <2>0, SMTT(20) DEF FrameInv, GapOver, Mutex, Holding, FramePlace, Links, HubSends
  <2>8. DelayOver'
    BY <2>0, SMTT(20) DEF FrameInv, DelayOver, Mutex, Holding, FramePlace, Short
  <2> QED BY <2>1, <2>2, <2>3, <2>4, <2>5, <2>6, <2>7, <2>8 DEF FrameInv
<1> QED BY <1>b, <1>c DEF Close

LEMMA FrameOpens ==
    ASSUME FrameInv, TypeOK', Opens
    PROVE  FrameInv'
<1> USE FrameTypes DEF Sender
<1>1. Mutex'
  BY SMTT(20) DEF FrameInv, Mutex, Holding, Opens, Goto
<1>2. HubSends'
  BY SMTT(20) DEF FrameInv, HubSends, Opens, Goto
<1>3. Links'
  BY SMTT(20) DEF FrameInv, Links, Mutex, Holding, Opens, Goto
<1>4. Short'
  BY SMTT(20) DEF FrameInv, Short, HubSends, Opens, Goto
<1>5. FramePlace'
  BY SMTT(20) DEF FrameInv, FramePlace, Mutex, Holding, Short, HubSends, Links, Opens, Goto
<1>6. OpenFrame'
  BY SMTT(20) DEF FrameInv, OpenFrame, InFrame, Mutex, Holding, FramePlace, HubSends, Links, Short, Opens, Goto
<1>7. GapOver'
  BY SMTT(20) DEF FrameInv, GapOver, Mutex, Holding, FramePlace, Links, HubSends, Opens, Goto
<1>8. DelayOver'
  BY SMTT(20) DEF FrameInv, DelayOver, Mutex, Holding, FramePlace, Short, Opens, Goto
<1> QED BY <1>1, <1>2, <1>3, <1>4, <1>5, <1>6, <1>7, <1>8 DEF FrameInv

LEMMA FrameOpenFails ==
    ASSUME FrameInv, TypeOK', OpenFails
    PROVE  FrameInv'
<1> USE FrameTypes DEF Sender
<1>1. Mutex'
  BY SMTT(20) DEF FrameInv, Mutex, Holding, OpenFails, ClearLink, Return, Idle
<1>2. HubSends'
  BY SMTT(20) DEF FrameInv, HubSends, OpenFails, ClearLink, Return, Idle
<1>3. Links'
  BY SMTT(20) DEF FrameInv, Links, Mutex, Holding, OpenFails, ClearLink, Return, Idle
<1>4. Short'
  BY SMTT(20) DEF FrameInv, Short, HubSends, OpenFails, ClearLink, Return, Idle
<1>5. FramePlace'
  BY SMTT(20) DEF FrameInv, FramePlace, Mutex, Holding, Short, HubSends, Links, OpenFails, ClearLink, Return, Idle
<1>6. OpenFrame'
  BY SMTT(20) DEF FrameInv, OpenFrame, InFrame, Mutex, Holding, FramePlace, HubSends, Links, Short, OpenFails, ClearLink, Return, Idle
<1>7. GapOver'
  BY SMTT(20) DEF FrameInv, GapOver, Mutex, Holding, FramePlace, Links, HubSends, OpenFails, ClearLink, Return, Idle
<1>8. DelayOver'
  BY SMTT(20) DEF FrameInv, DelayOver, Mutex, Holding, FramePlace, Short, OpenFails, ClearLink, Return, Idle
<1> QED BY <1>1, <1>2, <1>3, <1>4, <1>5, <1>6, <1>7, <1>8 DEF FrameInv

LEMMA FrameAnnounces ==
    ASSUME FrameInv, TypeOK', Announce
    PROVE  FrameInv'
<1> USE FrameTypes DEF Sender
<1>1. Mutex'
  BY SMTT(20) DEF FrameInv, Mutex, Holding, Announce, Return, Idle
<1>2. HubSends'
  BY SMTT(20) DEF FrameInv, HubSends, Announce, Return, Idle
<1>3. Links'
  BY SMTT(20) DEF FrameInv, Links, Mutex, Holding, Announce, Return, Idle
<1>4. Short'
  BY SMTT(20) DEF FrameInv, Short, HubSends, Announce, Return, Idle
<1>5. FramePlace'
  BY SMTT(20) DEF FrameInv, FramePlace, Mutex, Holding, Short, HubSends, Links, Announce, Return, Idle
<1>6. OpenFrame'
  BY SMTT(20) DEF FrameInv, OpenFrame, InFrame, Mutex, Holding, FramePlace, HubSends, Links, Short, Announce, Return, Idle
<1>7. GapOver'
  BY SMTT(20) DEF FrameInv, GapOver, Mutex, Holding, FramePlace, Links, HubSends, Announce, Return, Idle
<1>8. DelayOver'
  BY SMTT(20) DEF FrameInv, DelayOver, Mutex, Holding, FramePlace, Short, Announce, Return, Idle
<1> QED BY <1>1, <1>2, <1>3, <1>4, <1>5, <1>6, <1>7, <1>8 DEF FrameInv

LEMMA FrameTakes ==
    ASSUME FrameInv, TypeOK', PumpTakes
    PROVE  FrameInv'
<1> USE FrameTypes DEF Sender
<1>1. Mutex'
  <2>1. job' = job /\ ops = "none" /\ pump.pc = "received"
    BY DEF PumpTakes
  <2>2. CASE pump'.pc \in {"off", "receiving"} /\ ops' = ops
    BY <2>1, <2>2 DEF FrameInv, Mutex, Holding
  <2>3. CASE pump'.pc = "closing" /\ ops' = "pump"
    BY <2>1, <2>3 DEF FrameInv, Mutex, Holding
  <2>4. pump \in [pc: {"off", "subscribed", "receiving", "received", "closing"},
                  stale: BOOLEAN, of: Link, got: {"note", "closed"}]
    BY DEF FrameInv, TypeOK
  <2>5. \/ pump' = NoPump /\ ops' = ops
        \/ pump' = [pump EXCEPT !.pc = "receiving"] /\ ops' = ops
        \/ pump' = [pump EXCEPT !.pc = "closing", !.stale = TRUE] /\ ops' = "pump"
    <3>1. ClearLink([pump EXCEPT !.pc = "closing"]) =>
            pump' = [pump EXCEPT !.pc = "closing", !.stale = TRUE]
      BY DEF ClearLink
    <3> QED BY <3>1 DEF PumpTakes
  <2>6. \/ pump'.pc \in {"off", "receiving"} /\ ops' = ops
        \/ pump'.pc = "closing" /\ ops' = "pump"
    <3>1. NoPump.pc = "off" /\ [pump EXCEPT !.pc = "receiving"].pc = "receiving"
          /\ [pump EXCEPT !.pc = "closing", !.stale = TRUE].pc = "closing"
      BY <2>4 DEF NoPump
    <3> QED BY <2>5, <3>1
  <2> QED BY <2>2, <2>3, <2>6
<1>2. HubSends'
  BY SMTT(20) DEF FrameInv, HubSends, PumpTakes, ClearLink, NoPump
<1>3. Links'
  BY SMTT(20) DEF FrameInv, Links, Mutex, Holding, PumpTakes, ClearLink, NoPump
<1>4. Short'
  BY SMTT(20) DEF FrameInv, Short, HubSends, PumpTakes, ClearLink, NoPump
<1>5. FramePlace'
  BY SMTT(20) DEF FrameInv, FramePlace, Mutex, Holding, Short, HubSends, Links, PumpTakes, ClearLink, NoPump
<1>6. OpenFrame'
  BY SMTT(20) DEF FrameInv, OpenFrame, InFrame, Mutex, Holding, FramePlace, HubSends, Links, Short, PumpTakes, ClearLink, NoPump
<1>7. GapOver'
  BY SMTT(20) DEF FrameInv, GapOver, Mutex, Holding, FramePlace, Links, HubSends, PumpTakes, ClearLink, NoPump
<1>8. DelayOver'
  BY SMTT(20) DEF FrameInv, DelayOver, Mutex, Holding, FramePlace, Short, PumpTakes, ClearLink, NoPump
<1> QED BY <1>1, <1>2, <1>3, <1>4, <1>5, <1>6, <1>7, <1>8 DEF FrameInv

LEMMA FramePumpCloses ==
    ASSUME FrameInv, TypeOK', PumpCloses
    PROVE  FrameInv'
<1> USE FrameTypes DEF Sender
<1>1. Mutex'
  BY SMTT(20) DEF FrameInv, Mutex, Holding, PumpCloses, NoPump, outgoing
<1>2. HubSends'
  BY SMTT(20) DEF FrameInv, HubSends, PumpCloses, NoPump, outgoing
<1>3. Links'
  BY SMTT(20) DEF FrameInv, Links, Mutex, Holding, PumpCloses, NoPump, outgoing
<1>4. Short'
  BY SMTT(20) DEF FrameInv, Short, HubSends, PumpCloses, NoPump, outgoing
<1>5. FramePlace'
  BY SMTT(20) DEF FrameInv, FramePlace, Mutex, Holding, Short, HubSends, Links, PumpCloses, NoPump, outgoing
<1>6. OpenFrame'
  BY SMTT(20) DEF FrameInv, OpenFrame, InFrame, Mutex, Holding, FramePlace, HubSends, Links, Short, PumpCloses, NoPump, outgoing
<1>7. GapOver'
  BY SMTT(20) DEF FrameInv, GapOver, Mutex, Holding, FramePlace, Links, HubSends, PumpCloses, NoPump, outgoing
<1>8. DelayOver'
  BY SMTT(20) DEF FrameInv, DelayOver, Mutex, Holding, FramePlace, Short, PumpCloses, NoPump, outgoing
<1> QED BY <1>1, <1>2, <1>3, <1>4, <1>5, <1>6, <1>7, <1>8 DEF FrameInv

LEMMA FrameNext == FrameInv /\ [Next]_vars => FrameInv'
<1> SUFFICES ASSUME FrameInv, [Next]_vars PROVE FrameInv'
  OBVIOUS
<1>1. TypeOK'
  BY TypeNext DEF FrameInv
<1>2. CASE Asks
  <2>1. "user" \in Sender /\ "hub" \in Sender /\ 1 \in 0..ReadoutLen
        /\ ReadoutLen \in 0..ReadoutLen /\ 1 \in 1..2
    BY BoundAssumption DEF Sender
  <2> QED BY <1>1, <1>2, <2>1, FrameAsks, FrameCalls
          DEF Asks, AskFrame, AskReadout, AskCd, Connect, Disconnect
<1>3. CASE \E t \in Sender : Sends(t)
  BY <1>1, <1>3, FrameEnters, FrameWrites, FrameNextParts, FrameMarks, FrameFails DEF Sends
<1>4. CASE Relinks
  BY <1>1, <1>4, FrameClears, FrameCloses, FrameOpens, FrameOpenFails, FrameAnnounces DEF Relinks
<1>5. CASE PumpRuns
  <2>1. CASE PumpTakes \/ PumpCloses
    BY <1>1, <2>1, FrameTakes, FramePumpCloses
  <2>2. CASE PumpSubscribes \/ PumpChecks \/ PumpNotices
    <3>1. UNCHANGED frame
      BY <2>2 DEF PumpSubscribes, PumpChecks, PumpNotices, frame, channel, outgoing
    <3>2. NoPump.pc = "off" /\ [NoPump EXCEPT !.pc = "subscribed"].pc = "subscribed"
          /\ [pump EXCEPT !.pc = "receiving", !.of = linked].pc = "receiving"
      BY DEF NoPump, FrameInv, TypeOK
    <3>3. pump.pc # "closing" /\ pump'.pc # "closing"
      BY <2>2, <3>2 DEF PumpSubscribes, PumpChecks, PumpNotices
    <3> QED BY <1>1, <3>1, <3>3, FrameStutter
  <2>3. ASSUME NEW got \in {"note", "closed"}, PumpReceives(got) PROVE FrameInv'
    <3>1. UNCHANGED frame
      BY <2>3 DEF PumpReceives, frame, channel, outgoing
    <3>2. pump.pc # "closing" /\ pump'.pc # "closing"
      BY <2>3 DEF PumpReceives, FrameInv, TypeOK
    <3> QED BY <1>1, <3>1, <3>2, FrameStutter
  <2> QED BY <1>5, <2>1, <2>2, <2>3 DEF PumpRuns
<1>6. CASE Poll \/ Listen \/ UNCHANGED vars
  <2>1. UNCHANGED frame /\ pump' = pump
    BY <1>6 DEF Poll, Listen, vars, frame, channel, outgoing
  <2> QED BY <1>1, <2>1, FrameStutter
<1> QED BY <1>1, <1>2, <1>3, <1>4, <1>5, <1>6, FrameTimesOut, FrameLates, FrameTicks DEF Next

LEMMA FrameInit == Init => FrameInv
<1>1. Init => TypeOK
  BY TypeInit
<1> QED BY <1>1, TimeAssumption DEF Init, FrameInv, Mutex, Holding, HubSends, Links, Short,
     FramePlace, InFrame, OpenFrame, GapOver, DelayOver, Idle, NoPump, Sender

\* The invariant of frames and gaps is inductive.
THEOREM FramesHold == Spec => []FrameInv
BY FrameInit, FrameNext, PTL DEF Spec

\* For every gap, every number of senders' calls and every kind of link, the
\* parts of a frame follow one another on one link (host.rs:121).
THEOREM FramesStayWhole == Spec => WholeFrames
<1> DEFINE Follows == \A t \in Sender : Write(t) =>
         IF job[t].part = 1
         THEN wire.link = linked => wire.state # "open"
         ELSE wire = [link |-> linked, by |-> t, part |-> job[t].part - 1, state |-> "open"]
<1>1. FrameInv /\ [Next]_vars => Follows
  <2> SUFFICES ASSUME FrameInv, NEW t \in Sender, Write(t)
               PROVE  IF job[t].part = 1
                      THEN wire.link = linked => wire.state # "open"
                      ELSE wire = [link |-> linked, by |-> t, part |-> job[t].part - 1,
                                   state |-> "open"]
    OBVIOUS
  <2>1. job[t].pc = "ready" /\ job[t].part \in 1..2 /\ linked # 0
    BY FrameTypes DEF Write, AtWrite, FrameInv, Links
  <2>2. CASE job[t].part = 1
    <3>1. \A q \in Sender : ~InFrame(q)
      BY <2>1, <2>2, FrameTypes DEF InFrame, FrameInv, Mutex, Holding
    <3> QED BY <2>1, <2>2, <3>1 DEF FrameInv, OpenFrame
  <2>3. CASE job[t].part > 1
    BY <2>1, <2>3 DEF FrameInv, FramePlace
  <2> QED BY <2>1, <2>2, <2>3
<1>2. FrameInv /\ [Next]_vars => [Follows]_vars
  BY <1>1
<1> QED BY <1>2, FramesHold, PTL DEF Spec, WholeFrames

\* For every gap and delay, a new frame keeps the gap to the one before it and
\* a part the delay to the part before it (host.rs:214).
THEOREM FramesKeepTheGap == Spec => Paced
<1> DEFINE Waits == \A t \in Sender : Write(t) /\ wire.link = linked /\ wire.by # "late" =>
         /\ job[t].part = 1 /\ wire.state = "complete" => quiet >= Gap
         /\ job[t].part > 1 => quiet >= ChunkDelay
<1>1. FrameInv /\ [Next]_vars => Waits
  <2> SUFFICES ASSUME FrameInv, NEW t \in Sender, Write(t), wire.link = linked, wire.by # "late"
               PROVE  /\ job[t].part = 1 /\ wire.state = "complete" => quiet >= Gap
                      /\ job[t].part > 1 => quiet >= ChunkDelay
    OBVIOUS
  <2>1. job[t].pc = "ready" /\ job[t].sleep = 0 /\ quiet \in Nat /\ linked # 0
    BY FrameTypes DEF Write, AtWrite, FrameInv, Links
  <2>2. job[t].part = 1 /\ wire.state = "complete" => quiet + job[t].sleep >= Gap
    BY <2>1 DEF FrameInv, GapOver
  <2>3. job[t].part > 1 => quiet >= ChunkDelay
    BY <2>1 DEF FrameInv, DelayOver
  <2> QED BY <2>1, <2>2, <2>3
<1>2. FrameInv /\ [Next]_vars => [Waits]_vars
  BY <1>1
<1> QED BY <1>2, FramesHold, PTL DEF Spec, Paced

-----------------------------------------------------------------------------
(***************************************************************************)
(* Events.  The last event in the channel is about the link that was       *)
(* announced, which lags behind linked between Opens and Announce only.    *)
(***************************************************************************)
Announced == IF job["user"].pc = "announce" THEN 0 ELSE linked

Joins(before, after) ==
    IF after.kind = "note" THEN after.link = before.link
    ELSE after.link = 0 <=> before.link # 0

PumpInv == pump.pc \in {"receiving", "received"} /\ ~pump.stale => pump.of = linked /\ linked # 0
Story ==
    /\ ring = <<>> => Announced = 0
    /\ ring # <<>> => ring[Len(ring)].link = Announced
    /\ \A i \in 1..(Len(ring) - 1) : Joins(ring[i], ring[i + 1])
EventInv == FrameInv /\ PumpInv /\ Story

LEMMA EmitTells ==
    ASSUME TypeOK, NEW event \in Event, Emit(event),
           \A i \in 1..(Len(ring) - 1) : Joins(ring[i], ring[i + 1]),
           ring # <<>> => Joins(ring[Len(ring)], event)
    PROVE  /\ ring' # <<>> /\ ring'[Len(ring')] = event
           /\ \A i \in 1..(Len(ring') - 1) : Joins(ring'[i], ring'[i + 1])
<1>1. ring' = Append(Kept, event)
  BY DEF Emit, Kept
<1>2. Kept \in Seq(Event) /\ Len(Kept) \in Nat /\ ring \in Seq(Event) /\ Len(ring) \in Nat
  BY KeptFits DEF TypeOK
<1>3. Len(ring') = Len(Kept) + 1 /\ ring'[Len(ring')] = event
      /\ \A i \in 1..Len(Kept) : ring'[i] = Kept[i]
  BY <1>1, <1>2
<1>4. PICK k \in {0, 1} : /\ Len(Kept) = Len(ring) - k
                          /\ \A i \in 1..Len(Kept) : Kept[i] = ring[i + k]
  <2>1. CASE Len(ring) = Cap
    <3>1. Kept = Tail(ring) /\ ring # <<>>
      BY <2>1, <1>2, BoundAssumption DEF Kept
    <3>2. Len(Kept) = Len(ring) - 1 /\ \A i \in 1..Len(Kept) : Kept[i] = ring[i + 1]
      BY <3>1, <1>2
    <3> QED BY <3>2
  <2>2. CASE Len(ring) # Cap
    BY <2>2, <1>2 DEF Kept
  <2> QED BY <2>1, <2>2
<1>5. ASSUME NEW i \in 1..(Len(ring') - 1) PROVE Joins(ring'[i], ring'[i + 1])
  <2>1. i \in 1..Len(Kept) /\ ring'[i] = ring[i + k] /\ i + k \in 1..Len(ring) /\ k \in {0, 1}
    BY <1>2, <1>3, <1>4
  <2>2. CASE i = Len(Kept)
    <3>1. ring'[i + 1] = event /\ i + k = Len(ring) /\ ring # <<>>
      BY <1>2, <1>3, <1>4, <2>1, <2>2
    <3> QED BY <2>1, <3>1
  <2>3. CASE i < Len(Kept)
    <3>1. ring'[i + 1] = ring[(i + 1) + k] /\ i + k \in 1..(Len(ring) - 1)
      BY <1>2, <1>3, <1>4, <2>1, <2>3
    <3>2. (i + 1) + k = (i + k) + 1
      BY <2>1
    <3> QED BY <2>1, <3>1, <3>2
  <2> QED BY <1>2, <2>1, <2>2, <2>3
<1> QED BY <1>2, <1>3, <1>5

\* clear_link tells that the link is gone, if there was one.
LEMMA ClearTells ==
    ASSUME TypeOK, Story, NEW p, ClearLink(p), job["user"].pc # "announce",
           job'["user"].pc # "announce"
    PROVE  Story'
<1>1. linked' = 0 /\ Announced' = 0 /\ Announced = linked
  BY DEF ClearLink, Announced
<1>2. CASE linked # 0
  <2>1. LinkEvent(0) \in Event /\ Emit(LinkEvent(0))
    BY <1>2, LinkEventType, BoundAssumption DEF ClearLink, Link
  <2>2. ring # <<>> => Joins(ring[Len(ring)], LinkEvent(0))
    BY <1>1, <1>2 DEF Story, Joins, LinkEvent
  <2> QED BY <1>1, <2>1, <2>2, EmitTells DEF Story, LinkEvent
<1>3. CASE linked = 0
  <2>1. ring' = ring
    BY <1>3 DEF ClearLink, events
  <2> QED BY <1>1, <1>3, <2>1 DEF Story
<1> QED BY <1>2, <1>3

\* Steps that neither tell anything nor change what there is to tell.
LEMMA SameStory ==
    ASSUME Story, ring' = ring, Announced' = Announced
    PROVE  Story'
BY DEF Story

LEMMA EventNext == EventInv /\ [Next]_vars => EventInv'
<1> SUFFICES ASSUME EventInv, [Next]_vars PROVE EventInv'
  OBVIOUS
<1>1. FrameInv' /\ TypeOK' /\ FrameInv /\ TypeOK
  BY FrameNext DEF EventInv, FrameInv
<1> USE <1>1, FrameTypes DEF EventInv
<1>a. "user" \in Sender /\ "hub" \in Sender
  BY DEF Sender
<1>b. job["user"].pc = "announce" => ops = "user"
  BY <1>a DEF FrameInv, Mutex, Holding
<1>2. ASSUME NEW t \in Sender, Sends(t) PROVE PumpInv' /\ Story'
  <2>1. linked' = linked /\ pump' = pump /\ ring' = ring
    BY <1>2 DEF Sends, Enter, Write, NextPart, Mark, WriteFails, channel, events
  <2>2. \/ job["user"].pc # "announce" /\ job'["user"].pc # "announce"
        \/ job'["user"].pc = job["user"].pc
    <3>1. job[t].pc # "announce" /\ job'[t].pc # "announce"
      <4>1. Enter(t) => job[t].pc # "announce" /\ job'[t].pc # "announce"
        BY DEF Enter, Idle, Job
      <4>2. Write(t) \/ NextPart(t) => job[t].pc # "announce" /\ job'[t].pc # "announce"
        BY DEF Write, NextPart, AtWrite, Job
      <4>3. WriteFails(t) => job[t].pc # "announce" /\ job'[t].pc # "announce"
        BY DEF WriteFails, AtWrite, Idle
      <4>4. Mark(t) => job[t].pc # "announce" /\ job'[t].pc # "announce"
        BY DEF Mark, Idle
      <4> QED BY <1>2, <4>1, <4>2, <4>3, <4>4 DEF Sends
    <3>2. \A q \in Sender : q # t => job'[q] = job[q]
      BY <1>2 DEF Sends, Enter, Write, NextPart, Mark, WriteFails
    <3> QED BY <3>1, <3>2, <1>a
  <2> QED BY <2>1, <2>2, SameStory DEF PumpInv, Announced
<1>3. Asks => PumpInv' /\ Story'
  <2>1. Asks => linked' = linked /\ pump' = pump /\ ring' = ring
    BY DEF Asks, AskFrame, AskReadout, AskCd, Ask, Connect, Disconnect, Call, channel, events
  <2>2. Asks => /\ job["user"].pc # "announce" /\ job'["user"].pc # "announce"
                \/ job'["user"].pc = job["user"].pc
    BY <1>a DEF Asks, AskFrame, AskReadout, AskCd, Ask, Connect, Disconnect, Call, Idle
  <2> QED BY <2>1, <2>2, SameStory DEF PumpInv, Announced
<1>4. CdTimesOut \/ LateCd \/ Tick \/ Poll \/ Listen \/ UNCHANGED vars => PumpInv' /\ Story'
  <2>1. CdTimesOut \/ LateCd \/ Tick \/ Poll \/ Listen \/ UNCHANGED vars =>
          /\ linked' = linked /\ pump' = pump /\ ring' = ring
          /\ job'["user"].pc = job["user"].pc
    BY <1>a DEF CdTimesOut, LateCd, Tick, Poll, Listen, vars, channel, outgoing, events, Job
  <2> QED BY <2>1, SameStory DEF PumpInv, Announced
<1>5. Clear => PumpInv' /\ Story'
  <2> SUFFICES ASSUME Clear PROVE PumpInv' /\ Story'
    OBVIOUS
  <2>1. /\ job["user"].pc # "announce" /\ job'["user"].pc # "announce"
    BY <1>a, <1>b DEF Clear, Goto, Job
  <2>2. CASE UNCHANGED <<linked, rest, pump, events>>
    BY <2>1, <2>2, SameStory DEF PumpInv, Announced, events
  <2>3. CASE ClearLink(pump)
    <3>1. PumpInv'
      BY <2>3 DEF ClearLink, PumpInv, TypeOK
    <3> QED BY <2>1, <2>3, <3>1, ClearTells
  <2> QED BY <2>2, <2>3 DEF Clear
<1>6. Close => PumpInv' /\ Story'
  <2> SUFFICES ASSUME Close PROVE PumpInv' /\ Story'
    OBVIOUS
  <2>1. /\ job["user"].pc # "announce" /\ job'["user"].pc # "announce"
    BY <1>a DEF Close, Return, Goto, Job, Idle
  <2>2. linked' = linked /\ pump' = pump /\ ring' = ring
    BY DEF Close, events
  <2> QED BY <2>1, <2>2, SameStory DEF PumpInv, Announced
<1>7. Opens => PumpInv' /\ Story'
  <2> SUFFICES ASSUME Opens PROVE PumpInv' /\ Story'
    OBVIOUS
  <2>1. linked = 0 /\ job["user"].pc = "opening" /\ job'["user"].pc = "announce"
    BY <1>a DEF Opens, Goto, FrameInv, Links, Job
  <2>2. pump' = pump /\ ring' = ring
    BY DEF Opens, events
  <2> QED BY <2>1, <2>2, SameStory DEF PumpInv, Announced
<1>8. OpenFails => PumpInv' /\ Story'
  <2> SUFFICES ASSUME OpenFails PROVE PumpInv' /\ Story'
    OBVIOUS
  <2>1. job["user"].pc # "announce" /\ job'["user"].pc # "announce" /\ ClearLink(pump)
    BY <1>a DEF OpenFails, Return, Idle
  <2>2. PumpInv'
    BY <2>1 DEF ClearLink, PumpInv, TypeOK
  <2> QED BY <2>1, <2>2, ClearTells
<1>9. Announce => PumpInv' /\ Story'
  <2> SUFFICES ASSUME Announce PROVE PumpInv' /\ Story'
    OBVIOUS
  <2>1. /\ job["user"].pc = "announce" /\ job'["user"].pc = "idle" /\ linked # 0
        /\ linked' = linked /\ pump' = pump /\ Emit(LinkEvent(linked))
    BY <1>a DEF Announce, Return, Idle, FrameInv, Links
  <2>2. LinkEvent(linked) \in Event
    BY LinkEventType DEF TypeOK
  <2>3. ring # <<>> => Joins(ring[Len(ring)], LinkEvent(linked))
    BY <2>1 DEF Story, Joins, LinkEvent, Announced
  <2>4. Story'
    BY <2>1, <2>2, <2>3, EmitTells DEF Story, Announced, LinkEvent
  <2> QED BY <2>1, <2>4 DEF PumpInv
<1>10. PumpSubscribes \/ PumpChecks \/ PumpNotices \/ PumpCloses => PumpInv' /\ Story'
  <2>1. PumpSubscribes \/ PumpChecks \/ PumpNotices \/ PumpCloses => PumpInv'
    <3>1. NoPump.pc = "off" /\ [NoPump EXCEPT !.pc = "subscribed"].pc = "subscribed"
      BY DEF NoPump
    <3>2. [pump EXCEPT !.pc = "receiving", !.of = linked].of = linked
      BY DEF TypeOK
    <3>3. PumpSubscribes \/ PumpNotices \/ PumpCloses => PumpInv'
      BY <3>1 DEF PumpSubscribes, PumpNotices, PumpCloses, PumpInv
    <3>4. PumpChecks => PumpInv'
      BY <3>1, <3>2 DEF PumpChecks, PumpInv, channel
    <3> QED BY <3>3, <3>4
  <2>2. PumpSubscribes \/ PumpChecks \/ PumpNotices \/ PumpCloses =>
          linked' = linked /\ ring' = ring /\ job' = job
    BY DEF PumpSubscribes, PumpChecks, PumpNotices, PumpCloses, channel, outgoing, events
  <2> QED BY <2>1, <2>2, SameStory DEF Announced
<1>11. ASSUME NEW got \in {"note", "closed"}, PumpReceives(got) PROVE PumpInv' /\ Story'
  <2>1. linked' = linked /\ ring' = ring /\ job' = job
    BY <1>11 DEF PumpReceives, channel, outgoing, events
  <2>2. PumpInv'
    BY <1>11, <2>1 DEF PumpReceives, PumpInv, TypeOK
  <2> QED BY <2>1, <2>2, SameStory DEF Announced
<1>12. PumpTakes => PumpInv' /\ Story'
  <2> SUFFICES ASSUME PumpTakes PROVE PumpInv' /\ Story'
    OBVIOUS
  <2>1. job' = job /\ job["user"].pc # "announce" /\ pump.pc = "received"
    BY <1>b DEF PumpTakes
  <2>2. CASE pump' = NoPump /\ UNCHANGED <<linked, ops, rest, events>>
    BY <2>1, <2>2, SameStory DEF PumpInv, NoPump, Announced, events
  <2>3. CASE /\ ~Outdated
             /\ pump' = [pump EXCEPT !.pc = "receiving"]
             /\ Emit([kind |-> "note", link |-> pump.of])
             /\ UNCHANGED <<linked, ops, rest>>
    <3>1. pump.of = linked /\ linked # 0 /\ linked' = linked /\ pump.of \in Link
      BY <2>1, <2>3 DEF PumpInv, Outdated, TypeOK
    <3>2. [kind |-> "note", link |-> pump.of] \in Event
      BY <3>1 DEF Event
    <3>3. ring # <<>> => Joins(ring[Len(ring)], [kind |-> "note", link |-> pump.of])
      BY <2>1, <3>1 DEF Story, Joins, Announced
    <3>4. Story'
      BY <2>1, <2>3, <3>1, <3>2, <3>3, EmitTells DEF Story, Announced
    <3>5. PumpInv'
      BY <2>3, <3>1 DEF PumpInv, TypeOK
    <3> QED BY <3>4, <3>5
  <2>4. CASE ops' = "pump" /\ ClearLink([pump EXCEPT !.pc = "closing"])
    <3>1. pump'.pc = "closing"
      BY <2>4 DEF ClearLink, TypeOK
    <3> QED BY <2>1, <2>4, <3>1, ClearTells DEF PumpInv
  <2> QED BY <2>2, <2>3, <2>4 DEF PumpTakes
<1> QED
  BY <1>2, <1>3, <1>4, <1>5, <1>6, <1>7, <1>8, <1>9, <1>10, <1>11, <1>12
     DEF Next, Relinks, PumpRuns

\* For every capacity of the channel, its events tell one story: links come and
\* go in turn, and notifications stand under their link (host.rs:178).
THEOREM EventsTellOneStory == Spec => []EventsInOrder
<1>1. Init => EventInv
  <2>1. Init => FrameInv
    BY FrameInit
  <2> QED BY <2>1 DEF Init, EventInv, PumpInv, Story, Announced, NoPump, Idle, Sender
<1>2. EventInv => EventsInOrder
  <2> SUFFICES ASSUME EventInv, NEW i \in 1..(Len(ring) - 1)
               PROVE  CASE ring[i + 1].kind = "note" -> ring[i + 1].link = ring[i].link
                        [] ring[i + 1].kind = "link" ->
                             (ring[i + 1].link = 0) = (ring[i].link # 0)
    BY DEF EventsInOrder
  <2>1. Joins(ring[i], ring[i + 1])
    BY DEF EventInv, Story
  <2>2. ring[i + 1].kind \in {"link", "note"}
    <3>1. ring \in Seq(Event) /\ Len(ring) \in Nat
      BY DEF EventInv, FrameInv, TypeOK
    <3>2. ring[i + 1] \in Event
      BY <3>1
    <3> QED BY <3>2 DEF Event
  <2> QED BY <2>1, <2>2 DEF Joins
<1> QED BY <1>1, <1>2, EventNext, PTL DEF Spec

-----------------------------------------------------------------------------
(***************************************************************************)
(* What the readers show.  A reader that lost nothing it needs either      *)
(* shows what was announced and has only notifications before it, or the   *)
(* last event about the link is still before it and tells what was         *)
(* announced.                                                              *)
(***************************************************************************)
Unread(r) == (Len(ring) - unread[r] + 1)..Len(ring)

UpToDate(r) ==
    /\ shown[r] = Announced
    /\ \A j \in Unread(r) : ring[j].kind = "note"

Pending(r) ==
    \E i \in Unread(r) :
        /\ ring[i].kind = "link" /\ ring[i].link = Announced
        /\ \A j \in (i + 1)..Len(ring) : ring[j].kind = "note"

Knows(r) == alive[r] /\ ~dropped[r] => UpToDate(r) \/ Pending(r)
ReadersInv == EventInv /\ \A r \in Reader : Knows(r)

\* How a step bears on what there is to know: it changes nothing, reads an event,
\* tells about the link, or notes something about the link that is announced.
Still == UNCHANGED events /\ Announced' = Announced
Tells == \E l \in Link : Emit(LinkEvent(l)) /\ Announced' = l
Notes == \E l \in Link : Emit([kind |-> "note", link |-> l]) /\ Announced' = Announced

LEMMA ClearIsTold ==
    ASSUME TypeOK, NEW p, ClearLink(p), job["user"].pc # "announce",
           job'["user"].pc # "announce"
    PROVE  Still \/ Tells
<1>1. Announced = linked /\ Announced' = 0 /\ 0 \in Link
  BY BoundAssumption DEF ClearLink, Announced, Link
<1> QED BY <1>1 DEF ClearLink, Still, Tells

LEMMA StepTells ==
    ASSUME EventInv, [Next]_vars
    PROVE  Still \/ Tells \/ Notes \/ Poll \/ Listen
<1> USE FrameTypes DEF EventInv
<1>1. FrameInv /\ TypeOK
  BY DEF FrameInv
<1>a. "user" \in Sender /\ "hub" \in Sender
  BY DEF Sender
<1>b. job["user"].pc = "announce" => ops = "user"
  BY <1>1, <1>a DEF FrameInv, Mutex, Holding
<1>2. ASSUME NEW t \in Sender, Sends(t) PROVE Still
  <2>1. linked' = linked /\ UNCHANGED events
    BY <1>2 DEF Sends, Enter, Write, NextPart, Mark, WriteFails, channel
  <2>2. job[t].pc # "announce" /\ job'[t].pc # "announce"
    <3>1. Enter(t) => job[t].pc # "announce" /\ job'[t].pc # "announce"
      BY <1>1 DEF Enter, Idle, Job
    <3>2. Write(t) \/ NextPart(t) => job[t].pc # "announce" /\ job'[t].pc # "announce"
      BY <1>1 DEF Write, NextPart, AtWrite, Job
    <3>3. WriteFails(t) => job[t].pc # "announce" /\ job'[t].pc # "announce"
      BY <1>1 DEF WriteFails, AtWrite, Idle
    <3>4. Mark(t) => job[t].pc # "announce" /\ job'[t].pc # "announce"
      BY <1>1 DEF Mark, Idle
    <3> QED BY <1>2, <3>1, <3>2, <3>3, <3>4 DEF Sends
  <2>3. \A q \in Sender : q # t => job'[q] = job[q]
    BY <1>1, <1>2 DEF Sends, Enter, Write, NextPart, Mark, WriteFails
  <2> QED BY <2>1, <2>2, <2>3, <1>a DEF Still, Announced
<1>3. Asks => Still
  <2>1. Asks => linked' = linked /\ UNCHANGED events
    BY DEF Asks, AskFrame, AskReadout, AskCd, Ask, Connect, Disconnect, Call, channel
  <2>2. Asks => \/ job["user"].pc # "announce" /\ job'["user"].pc # "announce"
                \/ job'["user"].pc = job["user"].pc
    BY <1>1, <1>a DEF Asks, AskFrame, AskReadout, AskCd, Ask, Connect, Disconnect, Call, Idle
  <2> QED BY <2>1, <2>2 DEF Still, Announced
<1>4. CdTimesOut \/ LateCd \/ Tick \/ UNCHANGED vars => Still
  <2>1. CdTimesOut \/ LateCd \/ Tick \/ UNCHANGED vars =>
          linked' = linked /\ job'["user"].pc = job["user"].pc
    BY <1>1, <1>a DEF CdTimesOut, LateCd, Tick, vars, channel, outgoing, Job
  <2>2. CdTimesOut \/ LateCd \/ Tick \/ UNCHANGED vars => UNCHANGED events
    BY DEF CdTimesOut, LateCd, Tick, vars
  <2> QED BY <2>1, <2>2 DEF Still, Announced
<1>5. Clear => Still \/ Tells
  <2> SUFFICES ASSUME Clear PROVE Still \/ Tells
    OBVIOUS
  <2>1. job["user"].pc # "announce" /\ job'["user"].pc # "announce"
    BY <1>1, <1>a, <1>b DEF Clear, Goto, Job
  <2>2. CASE UNCHANGED <<linked, rest, pump, events>>
    BY <2>1, <2>2 DEF Still, Announced
  <2>3. CASE ClearLink(pump)
    BY <1>1, <2>1, <2>3, ClearIsTold
  <2> QED BY <2>2, <2>3 DEF Clear
<1>6. Close => Still
  <2> SUFFICES ASSUME Close PROVE Still
    OBVIOUS
  <2>1. job["user"].pc # "announce" /\ job'["user"].pc # "announce"
    BY <1>1, <1>a DEF Close, Return, Goto, Job, Idle
  <2>2. linked' = linked /\ UNCHANGED events
    BY DEF Close
  <2> QED BY <2>1, <2>2 DEF Still, Announced
<1>7. Opens => Still
  <2> SUFFICES ASSUME Opens PROVE Still
    OBVIOUS
  <2>1. linked = 0 /\ job["user"].pc = "opening" /\ job'["user"].pc = "announce"
    BY <1>1, <1>a DEF Opens, Goto, FrameInv, Links, Job
  <2>2. UNCHANGED events
    BY DEF Opens
  <2> QED BY <2>1, <2>2 DEF Still, Announced
<1>8. OpenFails => Still \/ Tells
  <2> SUFFICES ASSUME OpenFails PROVE Still \/ Tells
    OBVIOUS
  <2>1. job["user"].pc # "announce" /\ job'["user"].pc # "announce" /\ ClearLink(pump)
    BY <1>1, <1>a DEF OpenFails, Return, Idle
  <2> QED BY <1>1, <2>1, ClearIsTold
<1>9. Announce => Tells
  <2> SUFFICES ASSUME Announce PROVE Tells
    OBVIOUS
  <2>1. job'["user"].pc = "idle" /\ linked' = linked /\ Emit(LinkEvent(linked))
    BY <1>1, <1>a DEF Announce, Return, Idle
  <2>2. linked \in Link
    BY <1>1 DEF TypeOK
  <2> QED BY <2>1, <2>2 DEF Tells, Announced
<1>10. PumpSubscribes \/ PumpChecks \/ PumpNotices \/ PumpCloses => Still
  <2>1. PumpSubscribes \/ PumpChecks \/ PumpNotices \/ PumpCloses =>
          linked' = linked /\ UNCHANGED events /\ job' = job
    BY DEF PumpSubscribes, PumpChecks, PumpNotices, PumpCloses, channel, outgoing
  <2> QED BY <2>1 DEF Announced, Still
<1>11. ASSUME NEW got \in {"note", "closed"}, PumpReceives(got) PROVE Still
  <2>1. linked' = linked /\ UNCHANGED events /\ job' = job
    BY <1>11 DEF PumpReceives, channel, outgoing
  <2> QED BY <2>1 DEF Announced, Still
<1>12. PumpTakes => Still \/ Tells \/ Notes
  <2> SUFFICES ASSUME PumpTakes PROVE Still \/ Tells \/ Notes
    OBVIOUS
  <2>1. job' = job /\ job["user"].pc # "announce"
    BY <1>b DEF PumpTakes
  <2>2. CASE UNCHANGED <<linked, ops, rest, events>>
    BY <2>1, <2>2 DEF Still, Announced
  <2>3. CASE Emit([kind |-> "note", link |-> pump.of]) /\ UNCHANGED <<linked, ops, rest>>
    <3>1. pump.of \in Link /\ Announced' = Announced
      BY <1>1, <2>1, <2>3 DEF TypeOK, Announced
    <3> QED BY <2>3, <3>1 DEF Notes
  <2>4. CASE ClearLink([pump EXCEPT !.pc = "closing"])
    BY <1>1, <2>1, <2>4, ClearIsTold
  <2> QED BY <2>2, <2>3, <2>4 DEF PumpTakes
<1> QED
  BY <1>2, <1>3, <1>4, <1>5, <1>6, <1>7, <1>8, <1>9, <1>10, <1>11, <1>12
     DEF Next, Relinks, PumpRuns

\* Where the events of the channel go when one more is sent.
LEMMA EmitMoves ==
    ASSUME TypeOK, NEW event \in Event, Emit(event), NEW r \in Reader, alive[r]
    PROVE  \E k \in {0, 1} :
             /\ Len(ring) \in Nat /\ unread[r] \in 0..Len(ring)
             /\ Len(ring') = Len(ring) - k + 1
             /\ ring'[Len(ring')] = event
             /\ \A j \in 1..(Len(ring) - k) : ring'[j] = ring[j + k]
             /\ unread'[r] \in 1..Len(ring')
             /\ \/ Len(ring') - unread'[r] + k = Len(ring) - unread[r]
                \/ /\ k = 1 /\ unread[r] = Len(ring) /\ unread'[r] = Len(ring')
                   /\ dropped'[r] = (event.kind = "note" /\ (dropped[r] \/ LastLinkEventIsOldest))
             /\ event.kind = "note" /\ ~dropped'[r] => ~dropped[r]
<1>1. ring' = Append(Kept, event)
  BY DEF Emit, Kept
<1>2. /\ Kept \in Seq(Event) /\ Len(Kept) \in Nat /\ ring \in Seq(Event) /\ Len(ring) \in Nat
      /\ Len(ring) <= Cap /\ Cap \in Nat \ {0}
  BY KeptFits, BoundAssumption DEF TypeOK
<1>3. unread[r] \in 0..Cap /\ unread[r] <= Len(ring)
  BY DEF TypeOK
<1>4. Len(ring') = Len(Kept) + 1 /\ ring'[Len(ring')] = event
      /\ \A j \in 1..Len(Kept) : ring'[j] = Kept[j]
  BY <1>1, <1>2
<1>5. event.kind = "note" /\ ~dropped'[r] => ~dropped[r]
  BY DEF Emit
<1>6. CASE Len(ring) = Cap
  <2>1. Kept = Tail(ring) /\ ring # <<>>
    BY <1>6, <1>2 DEF Kept
  <2>2. Len(Kept) = Len(ring) - 1 /\ \A j \in 1..Len(Kept) : Kept[j] = ring[j + 1]
    BY <2>1, <1>2
  <2>3. CASE unread[r] = Cap
    <3>1. unread'[r] = Cap
      BY <1>6, <2>3 DEF Emit
    <3>2. dropped'[r] = (event.kind = "note" /\ (dropped[r] \/ LastLinkEventIsOldest))
      BY <1>6, <2>3 DEF Emit
    <3> QED BY <1>2, <1>3, <1>4, <1>5, <1>6, <2>2, <2>3, <3>1, <3>2
  <2>4. CASE unread[r] # Cap
    <3>1. unread'[r] = unread[r] + 1
      BY <2>4 DEF Emit
    <3> QED BY <1>2, <1>3, <1>4, <1>5, <1>6, <2>2, <2>4, <3>1
  <2> QED BY <2>3, <2>4
<1>7. CASE Len(ring) # Cap
  <2>1. unread'[r] = unread[r] + 1
    BY <1>7 DEF Emit
  <2>2. Kept = ring
    BY <1>7 DEF Kept
  <2> QED BY <1>2, <1>3, <1>4, <1>5, <2>1, <2>2
<1> QED BY <1>6, <1>7

\* Whatever a reader had before it, the newest event about the link is the one
\* to know.
LEMMA TellsReaders ==
    ASSUME TypeOK, Tells, NEW r \in Reader
    PROVE  Knows(r)'
<1>1. PICK l \in Link : Emit(LinkEvent(l)) /\ Announced' = l
  BY DEF Tells
<1>2. LinkEvent(l) \in Event /\ alive' = alive
  BY <1>1, LinkEventType DEF Emit
<1>3. CASE alive[r]
  <2>1. ring'[Len(ring')] = LinkEvent(l) /\ Len(ring') \in Nat /\ unread'[r] \in 1..Len(ring')
    BY <1>1, <1>2, <1>3, EmitMoves
  <2>2. Len(ring') \in (Len(ring') - unread'[r] + 1)..Len(ring')
        /\ (Len(ring') + 1)..Len(ring') = {}
    BY <2>1
  <2>3. Pending(r)'
    BY <1>1, <2>1, <2>2 DEF Pending, Unread, LinkEvent
  <2> QED BY <2>3 DEF Knows
<1> QED BY <1>2, <1>3 DEF Knows

\* Positions move by k when k events leave the front: i stays among the last v.
LEMMA MovesAlong ==
    ASSUME NEW n \in Nat, NEW u \in Nat, NEW v \in Nat, NEW k \in {0, 1}, NEW i \in Nat,
           i \in (n - u + 1)..n, (n - k + 1) - v + k = n - u
    PROVE  i - k \in ((n - k + 1) - v + 1)..(n - k + 1)
<1>1. CASE k = 0
  BY <1>1
<1>2. CASE k = 1
  BY <1>2
<1> QED BY <1>1, <1>2

\* A notification more keeps what a reader knows, unless the event it pushes out
\* was the last one about the link.
LEMMA NotesReaders ==
    ASSUME TypeOK, Notes, NEW r \in Reader, Knows(r)
    PROVE  Knows(r)'
<1>1. PICK l \in Link : Emit([kind |-> "note", link |-> l]) /\ Announced' = Announced
  BY DEF Notes
<1> DEFINE note == [kind |-> "note", link |-> l]
<1>2. note \in Event /\ note.kind = "note" /\ alive' = alive /\ shown' = shown
  BY <1>1 DEF Emit, Event
<1>3. SUFFICES ASSUME alive'[r], ~dropped'[r] PROVE UpToDate(r)' \/ Pending(r)'
  BY DEF Knows
<1>4. PICK k \in {0, 1} :
             /\ Len(ring) \in Nat /\ unread[r] \in 0..Len(ring)
             /\ Len(ring') = Len(ring) - k + 1
             /\ ring'[Len(ring')] = note
             /\ \A j \in 1..(Len(ring) - k) : ring'[j] = ring[j + k]
             /\ unread'[r] \in 1..Len(ring')
             /\ \/ Len(ring') - unread'[r] + k = Len(ring) - unread[r]
                \/ /\ k = 1 /\ unread[r] = Len(ring) /\ unread'[r] = Len(ring')
                   /\ dropped'[r] = (note.kind = "note" /\ (dropped[r] \/ LastLinkEventIsOldest))
             /\ note.kind = "note" /\ ~dropped'[r] => ~dropped[r]
  <2> HIDE DEF note
  <2> QED BY <1>1, <1>2, <1>3, EmitMoves DEF note
<1>5. UpToDate(r) \/ Pending(r)
  BY <1>2, <1>3, <1>4 DEF Knows
<1> HIDE DEF note
<1>6. \A j \in Unread(r)' : j # Len(ring') => j + k \in Unread(r) /\ ring'[j] = ring[j + k]
  <2> SUFFICES ASSUME NEW j \in Unread(r)', j # Len(ring')
               PROVE  j + k \in Unread(r) /\ ring'[j] = ring[j + k]
    OBVIOUS
  <2>1. j \in (Len(ring') - unread'[r] + 1)..Len(ring')
    BY DEF Unread
  <2>2. j \in 1..(Len(ring) - k) /\ j + k \in (Len(ring) - unread[r] + 1)..Len(ring)
    BY <1>4, <2>1
  <2> QED BY <1>4, <2>2 DEF Unread
<1>7. CASE UpToDate(r)
  <2>1. \A j \in Unread(r)' : ring'[j].kind = "note"
    BY <1>2, <1>4, <1>6, <1>7 DEF UpToDate
  <2>2. shown'[r] = Announced'
    BY <1>1, <1>2, <1>7 DEF UpToDate
  <2> QED BY <2>1, <2>2 DEF UpToDate
<1>8. CASE Pending(r)
  <2>1. PICK i \in Unread(r) :
           /\ ring[i].kind = "link" /\ ring[i].link = Announced
           /\ \A j \in (i + 1)..Len(ring) : ring[j].kind = "note"
    BY <1>8 DEF Pending
  <2>2. i \in (Len(ring) - unread[r] + 1)..Len(ring) /\ i \in 1..Len(ring)
    BY <1>4, <2>1 DEF Unread
  <2>3. i - k \in Unread(r)'
    <3>1. CASE Len(ring') - unread'[r] + k = Len(ring) - unread[r]
      <4>1. /\ Len(ring) \in Nat /\ unread[r] \in Nat /\ unread'[r] \in Nat /\ i \in Nat
            /\ Len(ring') = Len(ring) - k + 1
        BY <1>4, <2>2
      <4>2. i - k \in ((Len(ring) - k + 1) - unread'[r] + 1)..(Len(ring) - k + 1)
        BY <2>2, <3>1, <4>1, MovesAlong
      <4>3. i - k \in (Len(ring') - unread'[r] + 1)..Len(ring')
        BY <4>1, <4>2
      <4> QED BY <4>3 DEF Unread
    <3>2. CASE k = 1 /\ unread'[r] = Len(ring') /\ ~LastLinkEventIsOldest
      <4>1. i # 1
        <5> SUFFICES ASSUME i = 1 PROVE FALSE
          OBVIOUS
        <5>1. ring # <<>>
          BY <2>2
        <5>2. 1 + 1 = 2
          OBVIOUS
        <5> QED BY <2>1, <3>2, <5>1, <5>2 DEF LastLinkEventIsOldest
      <4>2. i - k \in (Len(ring') - unread'[r] + 1)..Len(ring')
        BY <1>4, <2>2, <3>2, <4>1
      <4> QED BY <4>2 DEF Unread
    <3> QED BY <1>2, <1>3, <1>4, <3>1, <3>2
  <2>4. i - k \in 1..(Len(ring) - k) /\ (i - k) + k = i
    <3>1. i - k \in (Len(ring') - unread'[r] + 1)..Len(ring')
      BY <2>3 DEF Unread
    <3>2. /\ Len(ring) \in Nat /\ Len(ring') = Len(ring) - k + 1 /\ i \in 1..Len(ring)
          /\ unread'[r] \in 1..Len(ring')
      BY <1>4, <2>2
    <3>3. CASE k = 0
      BY <2>2, <3>2, <3>3
    <3>4. CASE k = 1
      BY <3>1, <3>2, <3>4
    <3> QED BY <3>3, <3>4
  <2>5. ring'[i - k] = ring[i]
    BY <1>4, <2>4
  <2>6. \A j \in ((i - k) + 1)..Len(ring') : ring'[j].kind = "note"
    <3> SUFFICES ASSUME NEW j \in ((i - k) + 1)..Len(ring') PROVE ring'[j].kind = "note"
      OBVIOUS
    <3>1. CASE j = Len(ring')
      BY <1>2, <1>4, <3>1
    <3>2. CASE j # Len(ring')
      <4>1. /\ Len(ring) \in Nat /\ Len(ring') = Len(ring) - k + 1 /\ i \in 1..Len(ring)
            /\ j \in ((i - k) + 1)..Len(ring') /\ i - k >= 1
        BY <1>4, <2>2, <2>4
      <4>2. CASE k = 0
        <5>1. j \in 1..(Len(ring) - k) /\ j + k \in (i + 1)..Len(ring)
          BY <3>2, <4>1, <4>2
        <5> QED BY <1>4, <2>1, <5>1
      <4>3. CASE k = 1
        <5>1. j \in 1..(Len(ring) - k) /\ j + k \in (i + 1)..Len(ring)
          BY <3>2, <4>1, <4>3
        <5> QED BY <1>4, <2>1, <5>1
      <4> QED BY <4>2, <4>3
    <3> QED BY <3>1, <3>2
  <2> QED BY <1>1, <2>1, <2>3, <2>5, <2>6 DEF Pending
<1> QED BY <1>5, <1>7, <1>8

\* Reading brings a reader closer to what it has to know.
LEMMA TakeReaders ==
    ASSUME TypeOK, NEW r \in Reader, Take(r), Knows(r), ring' = ring, Announced' = Announced
    PROVE  Knows(r)'
<1>1. SUFFICES ASSUME alive'[r], ~dropped'[r] PROVE UpToDate(r)' \/ Pending(r)'
  BY DEF Knows
<1>2. /\ Len(ring) \in Nat /\ unread[r] \in 1..Len(ring) /\ unread'[r] = unread[r] - 1
      /\ alive' = alive /\ dropped' = dropped
  <2>1. unread[r] \in 0..Cap /\ unread[r] <= Len(ring) /\ Len(ring) \in Nat /\ Cap \in Nat
    BY BoundAssumption DEF TypeOK
  <2>2. unread'[r] = unread[r] - 1
    BY DEF Take, TypeOK
  <2> QED BY <2>1, <2>2 DEF Take
<1>3. PICK n \in 1..Len(ring) : n = Len(ring) - unread[r] + 1
  BY <1>2
<1>4. NextFor(r) = ring[n] /\ Unread(r) = n..Len(ring) /\ Unread(r)' = (n + 1)..Len(ring)
  <2>1. Len(ring) - unread'[r] + 1 = n + 1
    BY <1>2, <1>3
  <2> QED BY <1>3, <2>1 DEF NextFor, Unread
<1>5. shown'[r] = IF ring[n].kind = "link" THEN ring[n].link ELSE shown[r]
  BY <1>4 DEF Take, TypeOK
<1>6. UpToDate(r) \/ Pending(r)
  BY <1>1, <1>2 DEF Knows
<1>7. CASE UpToDate(r)
  <2>1. ring[n].kind = "note" /\ \A j \in (n + 1)..Len(ring) : ring[j].kind = "note"
    BY <1>3, <1>4, <1>7 DEF UpToDate
  <2> QED BY <1>4, <1>5, <1>7, <2>1 DEF UpToDate
<1>8. CASE Pending(r)
  <2>1. PICK i \in n..Len(ring) :
           /\ ring[i].kind = "link" /\ ring[i].link = Announced
           /\ \A j \in (i + 1)..Len(ring) : ring[j].kind = "note"
    BY <1>4, <1>8 DEF Pending
  <2>2. CASE i = n
    BY <1>4, <1>5, <2>1, <2>2 DEF UpToDate
  <2>3. CASE i # n
    <3>1. i \in (n + 1)..Len(ring)
      BY <1>3, <2>3
    <3> QED BY <1>4, <2>1, <3>1 DEF Pending
  <2> QED BY <2>2, <2>3
<1> QED BY <1>6, <1>7, <1>8

LEMMA ReadersNext == ReadersInv /\ [Next]_vars => ReadersInv'
<1> SUFFICES ASSUME ReadersInv, [Next]_vars PROVE ReadersInv'
  OBVIOUS
<1>1. TypeOK /\ EventInv /\ EventInv'
  BY EventNext DEF ReadersInv, EventInv, FrameInv
<1>2. SUFFICES ASSUME NEW r \in Reader PROVE Knows(r)'
  BY <1>1 DEF ReadersInv
<1>3. Knows(r)
  BY DEF ReadersInv
<1>4. CASE Still
  BY <1>3, <1>4 DEF Still, events, readers, Knows, UpToDate, Pending, Unread
<1>5. CASE Tells \/ Notes
  BY <1>1, <1>3, <1>5, TellsReaders, NotesReaders
<1>6. ASSUME NEW q \in Reader, Take(q), ring' = ring, Announced' = Announced PROVE Knows(r)'
  <2>1. CASE q = r
    BY <1>1, <1>3, <1>6, <2>1, TakeReaders
  <2>2. CASE q # r
    <3>1. unread'[r] = unread[r] /\ shown'[r] = shown[r] /\ alive' = alive /\ dropped' = dropped
      BY <1>1, <1>6, <2>2 DEF Take, TypeOK
    <3> QED BY <1>3, <1>6, <3>1 DEF Knows, UpToDate, Pending, Unread
  <2> QED BY <2>1, <2>2
<1>7. CASE Poll
  <2>1. ring' = ring /\ Announced' = Announced
    BY <1>7 DEF Poll, Announced, channel, outgoing
  <2>2. CASE UNCHANGED <<unread, alive, shown, dropped>>
    BY <1>3, <2>1, <2>2 DEF Knows, UpToDate, Pending, Unread
  <2>3. CASE Take("poller")
    BY <1>6, <2>1, <2>3 DEF Reader
  <2> QED BY <1>7, <2>2, <2>3 DEF Poll
<1>8. CASE Listen
  <2>1. ring' = ring /\ Announced' = Announced
    BY <1>8 DEF Listen, Announced, channel, outgoing
  <2>2. CASE /\ alive' = [alive EXCEPT !["listener"] = FALSE]
             /\ unread' = [unread EXCEPT !["listener"] = 0]
             /\ UNCHANGED <<shown, dropped>>
    <3>1. CASE r = "listener"
      BY <1>1, <2>2, <3>1 DEF Knows, TypeOK
    <3>2. CASE r # "listener"
      <4>1. unread'[r] = unread[r] /\ alive'[r] = alive[r]
        BY <1>1, <2>2, <3>2 DEF TypeOK
      <4> QED BY <1>3, <2>1, <2>2, <4>1 DEF Knows, UpToDate, Pending, Unread
    <3> QED BY <3>1, <3>2
  <2>3. CASE Take("listener")
    BY <1>6, <2>1, <2>3 DEF Reader
  <2> QED BY <1>8, <2>2, <2>3 DEF Listen
<1> QED BY <1>1, <1>4, <1>5, <1>7, <1>8, StepTells

\* For every capacity of the channel and any number of links, a frontend that
\* has read everything shows the link there is, unless the event it lost was the
\* last one about the link (host.rs:34).
THEOREM ReadersKnow == Spec => []DrainedShowsLink
<1>1. Init => ReadersInv
  <2>1. Init => EventInv
    <3>1. Init => FrameInv
      BY FrameInit
    <3> QED BY <3>1 DEF Init, EventInv, PumpInv, Story, Announced, NoPump, Idle, Sender
  <2>2. Init => \A r \in Reader : Knows(r)
    <3> SUFFICES ASSUME Init, NEW r \in Reader PROVE Knows(r)
      OBVIOUS
    <3>1. Len(ring) = 0 /\ unread[r] = 0 /\ shown[r] = 0 /\ Announced = 0
      BY DEF Init, Announced, Idle, Sender
    <3>2. Unread(r) = {}
      BY <3>1 DEF Unread
    <3> QED BY <3>1, <3>2 DEF Knows, UpToDate
  <2> QED BY <2>1, <2>2 DEF ReadersInv
<1>2. ReadersInv => DrainedShowsLink
  <2> SUFFICES ASSUME ReadersInv, NEW r \in Reader, alive[r], unread[r] = 0, ~dropped[r],
                      job["user"].pc # "announce"
               PROVE  shown[r] = linked
    BY DEF DrainedShowsLink
  <2>1. Len(ring) \in Nat
    BY DEF ReadersInv, EventInv, FrameInv, TypeOK
  <2>2. Unread(r) = {}
    BY <2>1 DEF Unread
  <2>3. UpToDate(r) \/ Pending(r)
    BY DEF ReadersInv, Knows
  <2> QED BY <2>2, <2>3 DEF UpToDate, Pending, Announced
<1> QED BY <1>1, <1>2, ReadersNext, PTL DEF Spec

=============================================================================
