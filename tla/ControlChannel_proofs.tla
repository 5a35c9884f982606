------------------------ MODULE ControlChannel_proofs ------------------------
(***************************************************************************)
(* Proofs about ControlChannel: type correctness, and from one inductive   *)
(* invariant that bytes, CD and the pump belong to the current link.       *)
(***************************************************************************)
EXTENDS ControlChannel, TLAPS

-----------------------------------------------------------------------------
(* Type correctness *)

\* 0, the missing link, is in the range of links.
LEMMA ZeroType == 0 \in Link
BY BoundAssumption DEF Link

\* The initial states of the pump, the call, the hub and the CD.
LEMMA StartTypes ==
  NoPump \in Pump /\ NewPump \in Pump /\ NoCall \in CallState /\ NoHub \in Hub /\ NoCd \in Cd
<1>1. NoPump \in Pump
  BY ZeroType DEF Pump, PumpStage, Item, NoPump
<1>2. NewPump \in Pump
  BY <1>1 DEF Pump, PumpStage, NewPump
<1>3. NoCall \in CallState /\ NoHub \in Hub /\ NoCd \in Cd
  BY DEF CallState, CallStage, Hub, Cd, NoCall, NoHub, NoCd, Address
<1> QED BY <1>1, <1>2, <1>3

\* The closures a pump leaves behind are closures on links.
LEMMA AbandonedType ==
  ASSUME TypeOK
  PROVE  Abandoned \subseteq Orphan
BY DEF TypeOK, Abandoned, Orphan, Pump

\* HeadsetHost::new and the start of the application.
LEMMA TypeInit == Init => TypeOK
BY ZeroType, StartTypes, BoundAssumption DEF Init, TypeOK, Address

\* A link that opens has a number of its own (HeadsetTransport::open).
LEMMA OpenType ==
  ASSUME TypeOK, Open
  PROVE  TypeOK'
<1>1. opened + 1 \in Link
  BY BoundAssumption DEF TypeOK, Open, Link
<1>2. call' \in CallState /\ call.to \in Address
  BY DEF TypeOK, Open, Goto, CallState, CallStage
<1> QED BY <1>1, <1>2 DEF TypeOK, Open, group

\* A chunk is read only where there is one (recv of the transports).
LEMMA ReceiveType ==
  ASSUME TypeOK, NEW item \in Item, PumpReceives(item)
  PROVE  TypeOK'
<1>1. pump' \in Pump
  BY DEF TypeOK, PumpReceives, Pump, PumpStage
<1>2. inbox' \in [Link -> 0..MaxChunks]
  <2>1. CASE item = "bytes"
    <3>1. pump.on \in Link /\ inbox[pump.on] \in 0..MaxChunks /\ inbox[pump.on] > 0
      BY <2>1 DEF TypeOK, PumpReceives, RecvBytes, Pump
    <3>2. inbox[pump.on] - 1 \in 0..MaxChunks
      BY <3>1, BoundAssumption
    <3> QED BY <2>1, <3>1, <3>2 DEF TypeOK, PumpReceives
  <2>2. CASE item # "bytes"
    BY <2>2 DEF TypeOK, PumpReceives
  <2> QED BY <2>1, <2>2
<1> QED BY <1>1, <1>2 DEF TypeOK, PumpReceives, channel, group

\* Every step keeps the types.
LEMMA TypeStep == TypeOK /\ [Next]_vars => TypeOK'
<1> SUFFICES ASSUME TypeOK, [Next]_vars PROVE TypeOK'
  OBVIOUS
<1> USE DEF TypeOK, channel, radio, group
<1>1. ASSUME NEW to \in Address, Call(to) PROVE TypeOK'
  BY <1>1, StartTypes DEF Call, CallState, CallStage
<1>2. CASE Join
  BY <1>2, StartTypes DEF Join, CallState, CallStage, Link, Address
<1>3. CASE Leave
  BY <1>3, StartTypes DEF Leave, CallState, CallStage, Hub
<1>4. CASE Revoke
  BY <1>4, StartTypes DEF Revoke, CallState, CallStage, Hub, Address
<1>5. CASE Stop
  BY <1>5, StartTypes, AbandonedType DEF Stop, CallState, CallStage, Goto
<1>6. CASE Clear
  BY <1>6, ZeroType DEF Clear, CallState, CallStage, Goto, ClearLink, Pump, PumpStage
<1>7. CASE Close
  BY <1>7, ZeroType, StartTypes DEF Close, CallState, CallStage, Goto, Fail
<1>8. CASE Open
  BY <1>8, OpenType
<1>9. CASE OpenFails
  BY <1>9, ZeroType, StartTypes DEF OpenFails, CallState, CallStage, ClearLink, Fail,
     Pump, PumpStage
<1>10. CASE SetLink
  BY <1>10, StartTypes DEF SetLink, CallState, CallStage
<1>11. CASE Start
  BY <1>11, StartTypes DEF Start, CallState, CallStage, Goto
<1>12. CASE Read
  BY <1>12, StartTypes DEF Read, CallState, CallStage, Address
<1>13. CASE Bind
  BY <1>13, StartTypes DEF Bind, CallState, CallStage, Hub
<1>14. CASE Publish
  BY <1>14, StartTypes DEF Publish, CallState, CallStage, Hub
<1>15. CASE Left
  BY <1>15, StartTypes DEF Left
<1>16. CASE PumpSubscribes
  BY <1>16 DEF PumpSubscribes, Pump, PumpStage
<1>17. CASE PumpChecks
  BY <1>17 DEF PumpChecks, Pump, PumpStage
<1>18. CASE PumpNotices
  BY <1>18, AbandonedType DEF PumpNotices, PumpAt, Pump, PumpStage
<1>19. CASE PumpTakes
  BY <1>19, ZeroType DEF PumpTakes, PumpAt, ClearLink, Outdated, Pump, PumpStage
<1>20. CASE PumpCloses
  BY <1>20, ZeroType DEF PumpCloses, PumpAt, Pump, PumpStage
<1>21. CASE PumpEnds
  BY <1>21, StartTypes DEF PumpEnds, Pump, PumpStage
<1>22. CASE PumpUnbinds
  BY <1>22, StartTypes DEF PumpUnbinds, Hub, Address
<1>23. ASSUME NEW item \in Item, PumpReceives(item) PROVE TypeOK'
  BY <1>23, ReceiveType
<1>24. ASSUME NEW h \in Headset, CdBegins(h) PROVE TypeOK'
  BY <1>24 DEF CdBegins, Cd, Address
<1>25. CASE CdEnters
  BY <1>25, StartTypes DEF CdEnters, Cd
<1>26. CASE CdWrites
  BY <1>26, StartTypes DEF CdWrites
<1>27. CASE CdTimesOut
  BY <1>27, StartTypes DEF CdTimesOut, Orphan
<1>28. CASE HeadsetSends
  BY <1>28, BoundAssumption DEF HeadsetSends
<1>29. CASE LinkDies
  BY <1>29 DEF LinkDies
<1>30. ASSUME NEW o \in orphans, OrphanRuns(o) PROVE TypeOK'
  BY <1>30, ZeroType, BoundAssumption DEF OrphanRuns
<1>31. CASE UNCHANGED vars
  BY <1>31 DEF vars
<1> QED
  BY <1>1, <1>2, <1>3, <1>4, <1>5, <1>6, <1>7, <1>8, <1>9, <1>10, <1>11, <1>12, <1>13,
     <1>14, <1>15, <1>16, <1>17, <1>18, <1>19, <1>20, <1>21, <1>22, <1>23, <1>24, <1>25,
     <1>26, <1>27, <1>28, <1>29, <1>30, <1>31 DEF Next, SessionCalls, SessionReturns,
     PumpRuns, CdRuns, World

\* Every variable of the channel keeps its type (the fields of HeadsetHost).
THEOREM TypeCorrect == Spec => []TypeOK
BY TypeInit, TypeStep, PTL DEF Spec


-----------------------------------------------------------------------------
(* The inductive invariant *)

\* The holder of the operations mutex is where its part of the program says.
Locks ==
  /\ ops = "session" <=> call.pc \in {"close", "open", "set"}
  /\ ops = "pump" <=> pump.pc = "closing"
  /\ ops = "hub" <=> cd.pc = "writing"

\* Whoever changes the channel has cleared the link, and without a link the
\* decoder is empty.
Unlinked ==
  /\ linked = 0 => decoder = {}
  /\ ops \in {"session", "pump"} => linked = 0

\* What the transport has open is the link, unless something closed it.
OnLink ==
  /\ linked # 0 => wire \in {0, linked}
  /\ call.pc = "set" => opened # 0 /\ wire \in {0, opened}

\* A pump that has not been told of a new generation reads the current link.
PumpFresh ==
  /\ pump.pc \in {"receiving", "received"} /\ ~pump.stale =>
       linked # 0 /\ pump.on \in {0, linked}
  /\ pump.pc = "received" /\ pump.item = "bytes" => pump.on # 0

\* The hub has no control address while a call changes the channel, nor when
\* the session has no hub.
Revoked ==
  /\ call.pc \in {"stop", "clear", "close", "open", "set"} => hub.address = NoHeadset
  /\ ~hub.joined /\ call.pc # "leave" => hub.address = NoHeadset
  /\ call.pc = "bind" => hub.joined
  /\ call.pc = "join" => ~hub.joined
  /\ address[0] = NoHeadset
  /\ Gtk => ~hub.joined /\ call.pc \in {"idle", "clear", "close", "open", "set"}

\* The control address, and the one a call is about to bind, are the link's.
Binding ==
  linked # 0 =>
    /\ hub.address \in {NoHeadset, address[linked]}
    /\ call.pc \in {"bind", "join"} => call.seen \in {NoHeadset, address[linked]}

\* A CD under way is for the control address, and writes to a link.
CdBound ==
  /\ cd.pc # "none" => cd.to # NoHeadset /\ hub.address = cd.to
  /\ cd.pc = "writing" => linked # 0

\* A link is read by a pump that knows of no newer generation, a connect starts
\* its pump after the old one is gone, and the GTK application's never ends.
Served ==
  /\ ~Gtk /\ linked # 0 /\ call.pc \notin {"clear", "start"} =>
       \/ pump.pc = "starting"
       \/ pump.pc \in {"subscribed", "receiving", "received"} /\ ~pump.stale
  /\ ~Gtk /\ call.pc \in {"clear", "close", "open", "set", "start"} => pump.pc = "none"
  /\ Gtk => pump.pc \notin {"none", "unbinding"}

ChannelInv ==
  /\ TypeOK /\ Locks /\ Unlinked /\ OnLink /\ PumpFresh /\ NoForeignBytes
  /\ Revoked /\ Binding /\ CdBound /\ Served

\* HeadsetHost::new and the start of the application satisfy the invariant.
LEMMA InvInit == Init => ChannelInv
BY TypeInit, ZeroType DEF Init, ChannelInv, Locks, Unlinked, OnLink, PumpFresh, NoForeignBytes, Revoked,
   Binding, CdBound, Served, NoPump, NewPump, NoCall, NoHub, NoCd, Link, Gtk

\* 0 is a link, and no link that opens is 0.
LEMMA OpenNumber == 0 \in Link /\ (opened \in Link => opened + 1 # 0)
BY BoundAssumption DEF Link

\* The mutex moves only with the step that takes or releases it (host.rs).
LEMMA LocksStep ==
  ASSUME ChannelInv, [Next]_vars
  PROVE  Locks'
<1> USE DEF ChannelInv, TypeOK, Locks, Revoked, Served, channel, radio, group
<1>1. ASSUME NEW to \in Address, Call(to) PROVE Locks'
  BY <1>1 DEF Call, NoCall, CallState, Pump, Cd
<1>2. CASE Join
  BY <1>2 DEF Join, NoCall, CallState, Pump, Cd
<1>3. CASE Leave
  BY <1>3 DEF Leave, NoCall, CallState, Pump, Cd
<1>4. CASE Revoke
  BY <1>4 DEF Revoke, NoCall, HubFree, CallState, Pump, Cd
<1>5. CASE Stop
  BY <1>5 DEF Stop, Goto, NoPump, CallState, Pump, Cd
<1>6. CASE Clear
  BY <1>6 DEF Clear, Goto, ClearLink, CallState, Pump, Cd
<1>7. CASE Close
  BY <1>7 DEF Close, Goto, Fail, NoCall, CallState, Pump, Cd
<1>8. CASE Open
  BY <1>8 DEF Open, Goto, CallState, Pump, Cd
<1>9. CASE OpenFails
  BY <1>9 DEF OpenFails, ClearLink, Fail, NoCall, CallState, Pump, Cd
<1>10. CASE SetLink
  BY <1>10 DEF SetLink, NoCall, CallState, Pump, Cd
<1>11. CASE Start
  BY <1>11 DEF Start, Goto, NewPump, NoPump, CallState, Pump, Cd
<1>12. CASE Read
  BY <1>12 DEF Read, NoCall, CallState, Pump, Cd
<1>13. CASE Bind
  BY <1>13 DEF Bind, NoCall, HubFree, CallState, Pump, Cd
<1>14. CASE Publish
  BY <1>14 DEF Publish, NoCall, CallState, Pump, Cd
<1>15. CASE Left
  BY <1>15 DEF Left, NoCall, NoHub, NoPump, HubFree, CallState, Pump, Cd
<1>16. CASE PumpSubscribes
  BY <1>16 DEF PumpSubscribes, CallState, Pump, Cd
<1>17. CASE PumpChecks
  BY <1>17 DEF PumpChecks, CallState, Pump, Cd
<1>18. CASE PumpNotices
  BY <1>18 DEF PumpNotices, PumpAt, CallState, Pump, Cd
<1>19. CASE PumpTakes
  BY <1>19 DEF PumpTakes, PumpAt, ClearLink, Outdated, CallState, Pump, Cd
<1>20. CASE PumpCloses
  BY <1>20 DEF PumpCloses, PumpAt, CallState, Pump, Cd
<1>21. CASE PumpEnds
  BY <1>21 DEF PumpEnds, NewPump, NoPump, CallState, Pump, Cd
<1>22. CASE PumpUnbinds
  BY <1>22 DEF PumpUnbinds, NoPump, HubFree, CallState, Pump, Cd
<1>23. ASSUME NEW item \in Item, PumpReceives(item) PROVE Locks'
  BY <1>23 DEF PumpReceives, RecvBytes, CallState, Pump, Cd
<1>24. ASSUME NEW h \in Headset, CdBegins(h) PROVE Locks'
  BY <1>24 DEF CdBegins, HubFree, CallState, Pump, Cd
<1>25. CASE CdEnters
  BY <1>25 DEF CdEnters, NoCd, CallState, Pump, Cd
<1>26. CASE CdWrites
  BY <1>26 DEF CdWrites, NoCd, CallState, Pump, Cd
<1>27. CASE CdTimesOut
  BY <1>27 DEF CdTimesOut, NoCd, CallState, Pump, Cd
<1>28. CASE HeadsetSends
  BY <1>28 DEF HeadsetSends, CallState, Pump, Cd
<1>29. CASE LinkDies
  BY <1>29 DEF LinkDies, CallState, Pump, Cd
<1>30. ASSUME NEW o \in orphans, OrphanRuns(o) PROVE Locks'
  BY <1>30 DEF OrphanRuns, CallState, Pump, Cd
<1>31. CASE UNCHANGED vars
  BY <1>31 DEF vars
<1> QED
  BY <1>1, <1>2, <1>3, <1>4, <1>5, <1>6, <1>7, <1>8, <1>9, <1>10, <1>11, <1>12, <1>13,
     <1>14, <1>15, <1>16, <1>17, <1>18, <1>19, <1>20, <1>21, <1>22, <1>23, <1>24, <1>25,
     <1>26, <1>27, <1>28, <1>29, <1>30, <1>31 DEF Next, SessionCalls, SessionReturns,
     PumpRuns, CdRuns, World

\* Steps that open, close, clear or read keep the link consistent (host.rs).
LEMMA LinkStep ==
  ASSUME ChannelInv, [Next]_vars
  PROVE  (Unlinked /\ OnLink /\ PumpFresh /\ NoForeignBytes)'
<1> USE DEF ChannelInv, TypeOK, Locks, Unlinked, OnLink, PumpFresh, NoForeignBytes, channel, radio, group
<1>1. ASSUME NEW to \in Address, Call(to) PROVE (Unlinked /\ OnLink /\ PumpFresh /\ NoForeignBytes)'
  BY <1>1, BoundAssumption DEF Call, NoCall, CallState, Pump, Link
<1>2. CASE Join
  BY <1>2, BoundAssumption DEF Join, NoCall, CallState, Pump, Link
<1>3. CASE Leave
  BY <1>3, BoundAssumption DEF Leave, NoCall, CallState, Pump, Link
<1>4. CASE Revoke
  BY <1>4, BoundAssumption DEF Revoke, NoCall, HubFree, CallState, Pump, Link
<1>5. CASE Stop
  BY <1>5, BoundAssumption DEF Stop, Goto, NoPump, CallState, Pump, Link
<1>6. CASE Clear
  BY <1>6, BoundAssumption DEF Clear, Goto, ClearLink, CallState, Pump, Link
<1>7. CASE Close
  BY <1>7, BoundAssumption DEF Close, Goto, Fail, NoCall, CallState, Pump, Link
<1>8. CASE Open
  BY <1>8, BoundAssumption DEF Open, Goto, CallState, Pump, Link
<1>9. CASE OpenFails
  BY <1>9, BoundAssumption DEF OpenFails, ClearLink, Fail, NoCall, CallState, Pump, Link
<1>10. CASE SetLink
  BY <1>10, BoundAssumption DEF SetLink, NoCall, CallState, Pump, Link
<1>11. CASE Start
  BY <1>11, BoundAssumption DEF Start, Goto, NewPump, NoPump, CallState, Pump, Link
<1>12. CASE Read
  BY <1>12, BoundAssumption DEF Read, NoCall, CallState, Pump, Link
<1>13. CASE Bind
  BY <1>13, BoundAssumption DEF Bind, NoCall, HubFree, CallState, Pump, Link
<1>14. CASE Publish
  BY <1>14, BoundAssumption DEF Publish, NoCall, CallState, Pump, Link
<1>15. CASE Left
  BY <1>15, BoundAssumption DEF Left, NoCall, NoHub, NoPump, HubFree, CallState, Pump,
     Link
<1>16. CASE PumpSubscribes
  BY <1>16, BoundAssumption DEF PumpSubscribes, CallState, Pump, Link
<1>17. CASE PumpChecks
  BY <1>17, BoundAssumption DEF PumpChecks, CallState, Pump, Link
<1>18. CASE PumpNotices
  BY <1>18, BoundAssumption DEF PumpNotices, PumpAt, CallState, Pump, Link
<1>19. CASE PumpTakes
  BY <1>19, BoundAssumption DEF PumpTakes, PumpAt, ClearLink, Outdated, CallState, Pump,
     Link
<1>20. CASE PumpCloses
  BY <1>20, BoundAssumption DEF PumpCloses, PumpAt, CallState, Pump, Link
<1>21. CASE PumpEnds
  BY <1>21, BoundAssumption DEF PumpEnds, NewPump, NoPump, CallState, Pump, Link
<1>22. CASE PumpUnbinds
  BY <1>22, BoundAssumption DEF PumpUnbinds, NoPump, HubFree, CallState, Pump, Link
<1>23. ASSUME NEW item \in Item, PumpReceives(item) PROVE (Unlinked /\ OnLink /\ PumpFresh /\ NoForeignBytes)'
  BY <1>23, BoundAssumption DEF PumpReceives, RecvBytes, CallState, Pump, Link
<1>24. ASSUME NEW h \in Headset, CdBegins(h) PROVE (Unlinked /\ OnLink /\ PumpFresh /\ NoForeignBytes)'
  BY <1>24, BoundAssumption DEF CdBegins, HubFree, CallState, Pump, Link
<1>25. CASE CdEnters
  BY <1>25, BoundAssumption DEF CdEnters, NoCd, CallState, Pump, Link
<1>26. CASE CdWrites
  BY <1>26, BoundAssumption DEF CdWrites, NoCd, CallState, Pump, Link
<1>27. CASE CdTimesOut
  BY <1>27, BoundAssumption DEF CdTimesOut, NoCd, CallState, Pump, Link
<1>28. CASE HeadsetSends
  BY <1>28, BoundAssumption DEF HeadsetSends, CallState, Pump, Link
<1>29. CASE LinkDies
  BY <1>29, BoundAssumption DEF LinkDies, CallState, Pump, Link
<1>30. ASSUME NEW o \in orphans, OrphanRuns(o) PROVE (Unlinked /\ OnLink /\ PumpFresh /\ NoForeignBytes)'
  BY <1>30, BoundAssumption DEF OrphanRuns, CallState, Pump, Link
<1>31. CASE UNCHANGED vars
  BY <1>31 DEF vars
<1> QED
  BY <1>1, <1>2, <1>3, <1>4, <1>5, <1>6, <1>7, <1>8, <1>9, <1>10, <1>11, <1>12, <1>13,
     <1>14, <1>15, <1>16, <1>17, <1>18, <1>19, <1>20, <1>21, <1>22, <1>23, <1>24, <1>25,
     <1>26, <1>27, <1>28, <1>29, <1>30, <1>31 DEF Next, SessionCalls, SessionReturns,
     PumpRuns, CdRuns, World

\* The control address and the CD follow the link (session.rs, actions.rs).
LEMMA BindingStep ==
  ASSUME ChannelInv, [Next]_vars
  PROVE  (Revoked /\ Binding /\ CdBound)'
<1> USE DEF ChannelInv, TypeOK, Locks, Unlinked, Revoked, Binding, CdBound, channel, radio, group
<1>1. ASSUME NEW to \in Address, Call(to) PROVE (Revoked /\ Binding /\ CdBound)'
  BY <1>1, HeadsetAssumption, OpenNumber DEF Call, NoCall, CallState, Hub, Cd
<1>2. CASE Join
  BY <1>2, HeadsetAssumption, OpenNumber DEF Join, NoCall, CallState, Hub, Cd
<1>3. CASE Leave
  BY <1>3, HeadsetAssumption, OpenNumber DEF Leave, NoCall, CallState, Hub, Cd
<1>4. CASE Revoke
  BY <1>4, HeadsetAssumption, OpenNumber DEF Revoke, NoCall, HubFree, CallState, Hub, Cd
<1>5. CASE Stop
  BY <1>5, HeadsetAssumption, OpenNumber DEF Stop, Goto, NoPump, CallState, Hub, Cd
<1>6. CASE Clear
  BY <1>6, HeadsetAssumption, OpenNumber DEF Clear, Goto, ClearLink, CallState, Hub, Cd
<1>7. CASE Close
  BY <1>7, HeadsetAssumption, OpenNumber DEF Close, Goto, Fail, NoCall, CallState, Hub,
     Cd
<1>8. CASE Open
  BY <1>8, HeadsetAssumption, OpenNumber DEF Open, Goto, CallState, Hub, Cd
<1>9. CASE OpenFails
  BY <1>9, HeadsetAssumption, OpenNumber DEF OpenFails, ClearLink, Fail, NoCall,
     CallState, Hub, Cd
<1>10. CASE SetLink
  BY <1>10, HeadsetAssumption, OpenNumber DEF SetLink, NoCall, CallState, Hub, Cd
<1>11. CASE Start
  BY <1>11, HeadsetAssumption, OpenNumber DEF Start, Goto, NewPump, NoPump, CallState,
     Hub, Cd
<1>12. CASE Read
  BY <1>12, HeadsetAssumption, OpenNumber DEF Read, NoCall, CallState, Hub, Cd
<1>13. CASE Bind
  BY <1>13, HeadsetAssumption, OpenNumber DEF Bind, NoCall, HubFree, CallState, Hub, Cd
<1>14. CASE Publish
  BY <1>14, HeadsetAssumption, OpenNumber DEF Publish, NoCall, CallState, Hub, Cd
<1>15. CASE Left
  BY <1>15, HeadsetAssumption, OpenNumber DEF Left, NoCall, NoHub, NoPump, HubFree,
     CallState, Hub, Cd
<1>16. CASE PumpSubscribes
  BY <1>16, HeadsetAssumption, OpenNumber DEF PumpSubscribes, CallState, Hub, Cd
<1>17. CASE PumpChecks
  BY <1>17, HeadsetAssumption, OpenNumber DEF PumpChecks, CallState, Hub, Cd
<1>18. CASE PumpNotices
  BY <1>18, HeadsetAssumption, OpenNumber DEF PumpNotices, PumpAt, CallState, Hub, Cd
<1>19. CASE PumpTakes
  BY <1>19, HeadsetAssumption, OpenNumber DEF PumpTakes, PumpAt, ClearLink, Outdated,
     CallState, Hub, Cd
<1>20. CASE PumpCloses
  BY <1>20, HeadsetAssumption, OpenNumber DEF PumpCloses, PumpAt, CallState, Hub, Cd
<1>21. CASE PumpEnds
  BY <1>21, HeadsetAssumption, OpenNumber DEF PumpEnds, NewPump, NoPump, CallState, Hub,
     Cd
<1>22. CASE PumpUnbinds
  BY <1>22, HeadsetAssumption, OpenNumber DEF PumpUnbinds, NoPump, HubFree, CallState,
     Hub, Cd
<1>23. ASSUME NEW item \in Item, PumpReceives(item) PROVE (Revoked /\ Binding /\ CdBound)'
  BY <1>23, HeadsetAssumption, OpenNumber DEF PumpReceives, RecvBytes, CallState, Hub,
     Cd
<1>24. ASSUME NEW h \in Headset, CdBegins(h) PROVE (Revoked /\ Binding /\ CdBound)'
  BY <1>24, HeadsetAssumption, OpenNumber DEF CdBegins, HubFree, CallState, Hub, Cd
<1>25. CASE CdEnters
  BY <1>25, HeadsetAssumption, OpenNumber DEF CdEnters, NoCd, CallState, Hub, Cd
<1>26. CASE CdWrites
  BY <1>26, HeadsetAssumption, OpenNumber DEF CdWrites, NoCd, CallState, Hub, Cd
<1>27. CASE CdTimesOut
  BY <1>27, HeadsetAssumption, OpenNumber DEF CdTimesOut, NoCd, CallState, Hub, Cd
<1>28. CASE HeadsetSends
  BY <1>28, HeadsetAssumption, OpenNumber DEF HeadsetSends, CallState, Hub, Cd
<1>29. CASE LinkDies
  BY <1>29, HeadsetAssumption, OpenNumber DEF LinkDies, CallState, Hub, Cd
<1>30. ASSUME NEW o \in orphans, OrphanRuns(o) PROVE (Revoked /\ Binding /\ CdBound)'
  BY <1>30, HeadsetAssumption, OpenNumber DEF OrphanRuns, CallState, Hub, Cd
<1>31. CASE UNCHANGED vars
  BY <1>31 DEF vars
<1> QED
  BY <1>1, <1>2, <1>3, <1>4, <1>5, <1>6, <1>7, <1>8, <1>9, <1>10, <1>11, <1>12, <1>13,
     <1>14, <1>15, <1>16, <1>17, <1>18, <1>19, <1>20, <1>21, <1>22, <1>23, <1>24, <1>25,
     <1>26, <1>27, <1>28, <1>29, <1>30, <1>31 DEF Next, SessionCalls, SessionReturns,
     PumpRuns, CdRuns, World

\* A pump reads the link from its start to its end (session.rs, state.rs).
LEMMA ServedStep ==
  ASSUME ChannelInv, [Next]_vars
  PROVE  Served'
<1> USE DEF ChannelInv, TypeOK, Locks, Unlinked, Revoked, Served, channel, radio, group
<1>1. ASSUME NEW to \in Address, Call(to) PROVE Served'
  BY <1>1 DEF Call, NoCall, CallState, Pump
<1>2. CASE Join
  BY <1>2 DEF Join, NoCall, CallState, Pump
<1>3. CASE Leave
  BY <1>3 DEF Leave, NoCall, CallState, Pump
<1>4. CASE Revoke
  BY <1>4 DEF Revoke, NoCall, HubFree, CallState, Pump
<1>5. CASE Stop
  BY <1>5 DEF Stop, Goto, NoPump, CallState, Pump
<1>6. CASE Clear
  BY <1>6 DEF Clear, Goto, ClearLink, CallState, Pump
<1>7. CASE Close
  BY <1>7 DEF Close, Goto, Fail, NoCall, CallState, Pump
<1>8. CASE Open
  BY <1>8 DEF Open, Goto, CallState, Pump
<1>9. CASE OpenFails
  BY <1>9 DEF OpenFails, ClearLink, Fail, NoCall, CallState, Pump
<1>10. CASE SetLink
  BY <1>10 DEF SetLink, NoCall, CallState, Pump
<1>11. CASE Start
  BY <1>11 DEF Start, Goto, NewPump, NoPump, CallState, Pump
<1>12. CASE Read
  BY <1>12 DEF Read, NoCall, CallState, Pump
<1>13. CASE Bind
  BY <1>13 DEF Bind, NoCall, HubFree, CallState, Pump
<1>14. CASE Publish
  BY <1>14 DEF Publish, NoCall, CallState, Pump
<1>15. CASE Left
  BY <1>15 DEF Left, NoCall, NoHub, NoPump, HubFree, CallState, Pump
<1>16. CASE PumpSubscribes
  BY <1>16 DEF PumpSubscribes, CallState, Pump
<1>17. CASE PumpChecks
  BY <1>17 DEF PumpChecks, CallState, Pump
<1>18. CASE PumpNotices
  BY <1>18 DEF PumpNotices, PumpAt, CallState, Pump
<1>19. CASE PumpTakes
  BY <1>19 DEF PumpTakes, PumpAt, ClearLink, Outdated, CallState, Pump
<1>20. CASE PumpCloses
  BY <1>20 DEF PumpCloses, PumpAt, CallState, Pump
<1>21. CASE PumpEnds
  BY <1>21 DEF PumpEnds, NewPump, NoPump, CallState, Pump
<1>22. CASE PumpUnbinds
  BY <1>22 DEF PumpUnbinds, NoPump, HubFree, CallState, Pump
<1>23. ASSUME NEW item \in Item, PumpReceives(item) PROVE Served'
  BY <1>23 DEF PumpReceives, RecvBytes, CallState, Pump
<1>24. ASSUME NEW h \in Headset, CdBegins(h) PROVE Served'
  BY <1>24 DEF CdBegins, HubFree, CallState, Pump
<1>25. CASE CdEnters
  BY <1>25 DEF CdEnters, NoCd, CallState, Pump
<1>26. CASE CdWrites
  BY <1>26 DEF CdWrites, NoCd, CallState, Pump
<1>27. CASE CdTimesOut
  BY <1>27 DEF CdTimesOut, NoCd, CallState, Pump
<1>28. CASE HeadsetSends
  BY <1>28 DEF HeadsetSends, CallState, Pump
<1>29. CASE LinkDies
  BY <1>29 DEF LinkDies, CallState, Pump
<1>30. ASSUME NEW o \in orphans, OrphanRuns(o) PROVE Served'
  BY <1>30 DEF OrphanRuns, CallState, Pump
<1>31. CASE UNCHANGED vars
  BY <1>31 DEF vars
<1> QED
  BY <1>1, <1>2, <1>3, <1>4, <1>5, <1>6, <1>7, <1>8, <1>9, <1>10, <1>11, <1>12, <1>13,
     <1>14, <1>15, <1>16, <1>17, <1>18, <1>19, <1>20, <1>21, <1>22, <1>23, <1>24, <1>25,
     <1>26, <1>27, <1>28, <1>29, <1>30, <1>31 DEF Next, SessionCalls, SessionReturns,
     PumpRuns, CdRuns, World

\* The inductive invariant holds in every reachable state.
THEOREM ChannelInvariant == Spec => []ChannelInv
<1>1. ChannelInv /\ [Next]_vars => ChannelInv'
  <2> SUFFICES ASSUME ChannelInv, [Next]_vars PROVE ChannelInv'
    OBVIOUS
  <2>1. TypeOK'
    BY TypeStep DEF ChannelInv
  <2> QED
    BY <2>1, LocksStep, LinkStep, BindingStep, ServedStep DEF ChannelInv
<1> QED BY <1>1, InvInit, PTL DEF Spec

\* The decoder never holds bytes of another link (HeadsetHost::pump).
THEOREM BytesBelong == Spec => []NoForeignBytes
<1>1. ChannelInv => NoForeignBytes
  BY DEF ChannelInv
<1> QED BY <1>1, ChannelInvariant, PTL

\* A CD is only ever written to the headset it is for (send_cd_command and
\* HeadsetHost::send).
THEOREM CdStaysHome == Spec => []CdNeverCrosses
<1>1. ChannelInv => CdNeverCrosses
  BY DEF ChannelInv, TypeOK, OnLink, Binding, CdBound, CdNeverCrosses
<1> QED BY <1>1, ChannelInvariant, PTL

\* A link is never left without a pump (start_pump, stop_task, clear_link).
THEOREM LinkIsServed == Spec => []PumpServesLink
<1>1. ChannelInv => PumpServesLink
  BY DEF ChannelInv, TypeOK, Locks, Unlinked, Served, PumpServesLink, Pump, PumpStage, Gtk
<1> QED BY <1>1, ChannelInvariant, PTL
=============================================================================
