# EdifierCtrl, specified

EdifierCtrl controls Edifier Bluetooth headphones from Linux, Windows, macOS,
Android and a command line. Its hard part is not the protocol of the headset
but what runs around it: several machines of one user hand the headset's audio
to each other over UDP multicast, every machine drives a Bluetooth stack whose
calls fail, hang or finish late, and a control channel is opened, lost and
reopened under tasks that are using it. This directory specifies that part in
TLA+, checks it with TLC and proves the main safety properties with TLAPS.

Paths below are relative to the repository (`src/` here).

## 1. The system

### Components

| Component | Code | State it keeps | Operations |
|---|---|---|---|
| Handoff state machine | `crates/edifier-group/src/handoff.rs` | phase (Idle, WaitingRelease, WaitingFallbackGap, ConnectingAudio, Releasing) with nonce, headset and deadline; has_audio; can_control_headset; what peers answered | `claim`, `on_message` (seven kinds), `on_audio_*`, `tick` |
| Group hub | `crates/edifier-runtime/src/group.rs`, `group/actions.rs`, `group/runner.rs` | the machine, `OperationState` (suppressed addresses, control address, audio candidate), `peer.holding`, `closed`, two queues | `claim`, `claim_at`, `apply`, receive loop, worker, `refresh_holding`, `adopt_headset`, `set_control_address`, `leave` |
| Group messages, envelope | `crates/edifier-group/src/message.rs`, `envelope.rs`, `key.rs` | none | seal and open with a timestamp window |
| Peer directory | `group.rs` (`peers_at`, `leave`), `runner.rs` (`announce_cached`, `heartbeat_loop`, `receive_message`) | table of peers with a time to live | announce, insert, expire, clear |
| Control channel host | `crates/edifier-runtime/src/host.rs`, `cd.rs` | `LinkState`, frame decoder, generation, operations mutex, time of the last frame, event channel | `connect`, `disconnect`, `send`, `readout`, `pump`, `subscribe` |
| Transports | `crates/edifier-bt-{linux,windows,macos,android}`, `MacBluetooth.swift`, `BluetoothBridge.kt` | the open connection and its receive buffer | `open`, `recv`, `write`, `close` |
| Windows audio services | `crates/edifier-bt-windows/src/audio.rs`, `audio/services.rs` | snapshot of disabled services, `restored_at`, operation gate | connect, disconnect, suppress, restore |
| C interface session | `crates/edifier-ffi/src/session.rs` | host, pump task, hub slot, receive task | connect, disconnect, group_join, group_leave, claim |
| Frontends | `apps/*`, `crates/edifier-cli` | what the user sees | reducers, actions, event pumps |
| Protocol | `crates/edifier-protocol`, `crates/edifier-session` | partial frame | frame decoder, tables of commands, notifications and profiles, settings files, readout and import plans |
| C interface encodings | `crates/edifier-ffi/src/{abi,command_json,notify_json,profiles}.rs` | a decoder handle | JSON of commands, notifications, readouts and settings |
| macOS Bluetooth objects | `apps/macos/Sources/EdifierCtrl/Bluetooth` | pending discoveries and audio requests | start, cancel, late callbacks |
| Updater | `apps/macos/Sources/EdifierCtrl/Updates`, `Packaging` | phase of an update, files of a staged installation | check, download, verify, install, roll back |

### How they interact

* A **user** asks the hub to claim a headset. The hub broadcasts a request; the
  receive loops of other hubs put it into a bounded queue; a worker takes it,
  asks the **machine**, and executes the returned actions one at a time under
  the operation lock. Actions call the **platform** (connect, disconnect,
  suppress, restore), the **network** (broadcast) and the **host** (CD).
* Hubs **announce** themselves every few seconds and after a change; each keeps a
  table of who it heard, which the user sees and may claim from.
* The **session** connects the host to a headset, starts a pump task, and tells
  the hub which headset its control channel leads to. The pump tells the hub
  when the channel is gone.
* **Commands** come as JSON, become bodies and frames, are written in pieces with
  gaps by the host; the answers come back as a stream of bytes that the pump
  feeds to the decoder, become notifications, events and JSON again.
* The **host** serialises its callers with a mutex; the pump receives outside
  of it and looks again at a generation number once it is inside.
* On **macOS and Android** a transport call is a blocking closure: dropping the
  task that waits for it, as a timeout or an abort does, does not stop it.
* On **Windows** suppression and connection are made of disabling and enabling
  services one by one, in a blocking closure that may outlive its caller.

### What is hard, and what makes each part correct

| Part | Hard behaviour | Correct means |
|---|---|---|
| Machine and hub | lost, repeated, reordered datagrams; two claims; a deadline due while the answer is queued; an action that fails in the middle of a list; leaving at any point | nobody connects before a release or its own deadline; a released headset stays released; suppression is undone; a verdict is announced once; every handoff ends |
| CD fallback | the channel may be rebound while a claim waits; a gap must follow CD | CD only goes to the claimed headset; no connection before the gap is over |
| Host and pump | bytes of an old link arriving after a reconnect; a link lost while nobody calls; a call that waits for a pump that waits for a mutex | no foreign bytes in the decoder; every link is read; lost links are noticed; calls return |
| Membership | joining and leaving again and again; heartbeats under way while a hub closes; a leave that fails half way, or that the receive task starts on its own; clocks apart, datagrams late | lists are true within a window; a left hub lists nobody; nothing suppressed gets out of reach; leaving returns; who stays is found |
| Frames and events | parts and gaps of frames between several writers that fail or give up; a bounded event channel that loses what a slow frontend has not read | frames stay whole and apart; events tell one story; who has read them shows the link there is |
| Protocol | a stream cut anywhere, with lost and stray bytes; four spellings of every value; files in an order and a version of their own | whole answers are found again; what is shown is what was asked for |
| Windows services | one service of several fails; a release on top of an unfinished release; callers that give up; a connect that trusts a recent restoration | what was turned off is on record; a restoration has the last word |

`PROJECT.json` lists the hazards line by line with the properties that catch
them.

## 2. The modules

```
HandoffMachine            pure operators, one per method of handoff.rs
  GroupHub                all hosts of a group, network, platforms, clock   + MCGroupHub
    HandoffPromise        what the group promises (abstract; PromiseKept refines it)
    GroupHub_proofs       lemmas about the machine; theorems about the group: deadlines, gaps, CD, leaving
      GroupPromise_proofs what a host holds, gives away, says, promises and undoes
GroupMembership           joining, heartbeats, tables, leaving    + MCGroupMembership, _proofs
ControlChannel            host, transports, session               + MCControlChannel, _proofs
HostTraffic               frames out and events out of the host   + MCHostTraffic, _proofs
FrameDecoder              the stream and its cuts                 + _proofs
Commands                  pure operators: JSON, bodies, notifications, profiles, settings files
  HeadsetDialogue         FrameDecoder and Commands with a user and a headset  + MCHeadsetDialogue, _proofs
WinAudioServices          Windows audio services                  + MCWinAudioServices, _proofs
```

### HandoffMachine and GroupHub

A method of the machine becomes an operator that returns `[m, acts]`: the next
machine and the actions for its owner. `GroupHub` has one machine per host.

* **The operation lock is the queue.** `operation` is held exactly while
  `apply` has actions left. `work[h].queue` is that list, `LockFree(h)` says it
  is empty, and `ApplyStep(h)` executes its head. Everything else, other hosts,
  datagrams, the platform, time, moves between two actions, as it does across
  the awaits of the code.
* **A failing action** (`FailAction`) drops the rest of the list and asks the
  machine for `on_audio_failed`, once: `failed` is the flag of `apply`.
* **The network** is the set `sent`: a datagram may be received by anybody else
  any number of times, in any order, or never. A host drops its own.
* **The queue** between the receive loop and the worker holds
  `ControlQueueCapacity` messages. Requests that expired or are for a headset
  the host does not hold are answered in `dispatch_control`, before the machine.
* **Time** is `now`, and every host's clock runs `Skew[h]` ahead of it.
  Deadlines, the CD gap and the reserve for the reply are clock units.
* **The platform** is `link`, the host a headset streams with, and `muted`, the
  pairs whose reconnection is suppressed. `Faults` names the calls that may
  fail; where a failing call may have worked all the same, both happen.
* **A claim waits.** `claim` reads the clock and then asks for the lock, which a
  loop may hold for seconds. `asked` has the calls in between: `Claim` begins one,
  `ClaimAt` goes on with the lock and the clock that was read, and `ClaimClosed`
  finds that the hub was left. So a request may go out with a deadline that is over.
* **A release has a last resort**: when the headset still streams, `disconnect_verified`
  writes CD to a channel bound to it, which severs whoever streams.
* **Leaving** is one step, since it runs under the lock from its beginning to
  its end. Only the C interface leaves (hosts in `Native`): when its user does, and
  when its receive loop has failed (`ReceiveFails`, `session.rs:307`). GTK
  (`state.rs:108`) and the command line (`listen.rs:45`) drop that error.

The history variables `cdAt` and `ticket` (who claimed which nonce until when)
serve the properties; `ticket` also makes a nonce fresh, as `random_nonce` does.

`HandoffPromise` is the abstract specification: an asking member starts to
connect only after another member announced a release for this very handoff, or
after the deadline of its request has passed on its own clock, and a handoff that
is over stays over. The deadline counts from the moment of asking; the handoff
begins (`Begin`) or is refused (`Refuse`) at any time after that, and if the deadline
is over by then the member may connect at once. The mapping reads `stage` off the
waiting calls and the claimant's phase, and `freed` off the datagrams.

### WinAudioServices

`Ask`, `Enter`, `Begin`, the walk over services (`SetService`, one driver call
each) and the ends of the walks (`EndDisable`, `EndCycle`, `EndEnable`,
`EndFirst`) are the closure of `update_services`. `caller` is the call that
waits, `accepted` and `job` are closures that may outlive it, and the gate is free
when none of them is in the way. A walk goes over a set in any order, which
includes the order of the code. `UserSets` is the Bluetooth settings of
Windows, `Crash` forgets everything in memory and nothing in Windows.
`turnedOff` and `newest` serve the properties.

### ControlChannel

One application instance. Links are numbered in the order they are opened, so a
byte, a read, a write and a CD can be told to belong to this connection or another
one. `ops` is the host's mutex, `cd` the operation lock of the hub while it sends
CD, `pump` the state of `HeadsetHost::pump` at each of its awaits, `call` the
session call under way, one step per await. `stale` is the generation compared
with the one the pump subscribed to. `orphans` are the blocking closures
whose task is gone; an orphan acts on whatever is open when it gets its turn.

`Platform` selects what differs: GTK keeps one endless pump and never binds a
control address; the C interface starts a pump per connection; `RecvClosed` and
`RecvEmpty` say what each transport's `recv` returns when the link is gone.

### GroupMembership

Every host of a group with its session, hub and tasks, seen from joining and
leaving; what an operation does to the headset is in `GroupHub`, so here `Begin`
takes the lock and `End` gives it back with any holding and any suppression.

* **A heartbeat** is three steps (`Clone`, `Check`, `Seal`): the copy of the
  peer, the look at the lock and at `closed`, the sealed datagram. **A reception**
  is two (`Receive`, `Insert`): `open` before, the table's lock after an await.
* **Leaving** is `AskLeave` (the slot is emptied), `Close`, `Clear`, `Restore`,
  `Tell` under the lock, and `Return` with `stop_task`; `leaving[h]["task"]` is
  the leave a failed receive task starts on its own, which the call may meet
  before, behind or in the lock and aborts in the end. A leave that failed puts
  the closed hub back, and the next one finds it closed (`was`).
* **Time** is relative: ages of datagrams, of entries, and of how long ago a host
  was in a group (`away`) and held the headset there (`bare`), which are history
  and saturate. A tick is one heartbeat interval; it waits for what only waits for
  a mutex of the process. Clocks are apart by `Lead`.
* **Scenes** say who talks, listens, operates, leaves and what may fail.
* Frontends call a session from one thread, so calls do not overlap. A GTK
  application (a host not in `Native`) never leaves, and nobody leaves for it when
  its receive loop fails. `free` drops the hub whether or not the leave failed;
  the session is gone then (`up`). `Crash` ends a process.

### HostTraffic

The host between its writers and its readers. `ops` is the operations mutex;
`job[t]` is what the session's call and the hub's CD are doing, one state per
await: `Enter` (the lock, the link, what `pace` has to sleep), `Write` and
`NextPart` (the pieces on BLE), `Mark` (`last_tx`), `WriteFails`, `CdTimesOut`.
`Clear`, `Close`, `Opens`, `OpenFails` and `Announce` are connect and disconnect.
The pump is as in `ControlChannel`, with what it emits instead of bytes. `ring`
is the broadcast channel: `Emit` overwrites the oldest event when it is full, and
whoever has not read it lags. Two kinds of frontends read: `Poll` (the C interface
and GTK, which take an error for the end) and `Listen` (the command line, whose loop
ends with the first error). A tick is 50 ms, a sleep a counter. `Settings` are
the installations: BLE or RFCOMM, blocking calls or futures, which tasks there are.

### FrameDecoder, Commands and HeadsetDialogue

`FrameDecoder` has the buffer and the loop of `push`, one extraction per action;
`CutItem` is the reference: a cut determined by the whole stream and a position.
`Commands` has the tables as functions: JSON to commands (`to_command`) and
commands to bodies (`to_body`, `Encodable`), notifications (`parse_notification`,
`from_notification`), profiles and readout plans, settings files with `migrate`,
their three groups and `import_plan`.

`HeadsetDialogue` puts them together: a user writes JSON, imports files and reads
out by profile; frames go out; an external headset executes them and answers; the
bytes of the answers arrive in pieces, get lost, or are preceded by a false head;
links break. `shown` is what the session's pump makes of it and `handed` what the C
decoder hands out, which withholds a whole push for one bad item. `meant` (history)
is what the user last asked for. `truth` (history) says where undamaged answers lie
in the stream.

What a user may write and import is assumed to be what `serde` reads: `Fields` gives
each command the types of its fields in `CommandJson`, `IsSettingsFile` those of
`SettingsCommand` (`RequestAssumption`, `FileAssumption`). Nothing is assumed of
the words, which may be anything, or of a file without commands. What is meant by
them is given with each request and file (`asks`): of a request that is accepted, a
command with a frame that the JSON spells or gives the body of (`WishAssumption`),
and of a file that is accepted, the commands it was exported with by
`from_commands`, in whatever version (`ExportAssumption`). A name meant is text.

## 3. What TLC checks

| Run | Question | Properties |
|---|---|---|
| `handoff` | two hosts, one claim, links that drop, a platform that reconnects and cannot be told not to, sessions that adopt audio | `RestoredUnlessTaken`, `ReleasedStaysReleased`, `HoldingAgrees`, `QueuedTakenWins` |
| `failures` | every platform and network call of a handoff with CD may fail; the claimant's clock is fast | `TypeOK`, `ReleaseBounded`, `ConnectingUnderLock`, `GapAfterCd`, `SuppressionRecorded` |
| `leave` | two headsets, rebinding and leaving at any time, claims that find their hub closed | `CdOnlyToTarget`, `OneVerdict`, `ClosedIsQuiet` |
| `bystander` | three hosts, two nonces, old datagrams replayed into a new handoff, claims that begin when their deadline is over | `HeldAudioIsNotGrabbed`, `PromiseKept` |
| `liveness` | failures and a broken receive loop under fairness, in a hub that leaves then and one that does not | `HandoffEnds` |
| `services` | two addresses, two services, all driver faults, user changes, crashes | `Recoverable`, `SettlingIsOn`, `RestoreHasLastWord` |
| `channel_linux` | GTK's endless pump across three links | `NoForeignBytes` |
| `channel_macos` | the C interface with closures that outlive their callers, under fairness | `CdNeverCrosses`, `PumpServesLink`, `LostLinkNoticed`, `CallsReturn` |
| `dialogue` | commands and files in JSON, readouts by profile, a stream in pieces with a lost or stray byte or a broken link | `TypeOK`, `CutsIgnoreChunks`, `FramesArrive`, `ShownIsMeant` |
| `traffic` | calls, readouts, CD and reconnections over links that fail; two kinds of frontends behind a channel of two events | `TypeOK`, `WholeFrames`, `Paced`, `EventsInOrder`, `DrainedShowsLink`, `ShownEventually`, `SendsReturn` |
| `membership` | two hosts that join, beat, hold, leave, change groups, fail and crash | `TypeOK`, `LeftTableEmpty`, `ListedInTime`, `SuppressionReachable`, `LeaveReturns`, `DiscoveredEventually` |
| `lost_restore` | the finding of section 6 | `RestoredUnlessTaken`, violated |

The properties are stated and explained in the modules. `PROJECT.json` names for
every property a plausible bug of the code (a dropped guard, a missing reset, a
swapped order) that makes TLC report it; the mutated definitions stand next to
the originals in the modules, marked *Mutant*.

### Bounds

* **Hosts.** Two take every role of a handoff (claimant and holder); the third
  is needed for a bystander's answer, and all three play in `bystander`.
* **Nonces.** One is one claim, with every message lost, repeated and reordered;
  two make messages of an old handoff meet a new one. Nonces are symmetric.
* **`MaxClock`, `HandoffDeadline`, `ConnectGap`, `ReplyReserve`.** The deadline
  is 1 or 2 units, the gap 1, so that messages may arrive before, at and after a
  deadline, and the clock runs far enough for a deadline, a CD and its gap to
  pass (`failures`: 5). At `MaxClock` time stops and clocks saturate, as
  `saturating_add` does. `bystander` needs two ticks only: one deadline.
* **A claim's wait.** In `bystander` and `leave` a deadline is 1 unit, and the clock
  runs to 1 and 2: a claim gets the lock before, at and (in `leave`) after the end of
  its deadline, and finds the hub free, busy (`bystander`) or closed (`leave`).
* **`ControlQueueCapacity`** is 1 where the code has 64: every full-queue drop
  and every overtaking happens with one place, and a longer queue only delays.
* **`MaxLinks`** (2 or 3) counts connections that succeed, **`MaxChunks`**
  (1 or 2) unread chunks of a headset. Two links are an old and a new one; three
  let a stale result skip one.
* **`membership`**: entries live for 2 ticks, time stamps may be 1 apart, the
  stayer's clock is 1 ahead, a datagram takes at most 1. So there are announcements
  in time, at the edge and too late, and entries that expire between two of them.
  The scenes share out who is watched: an entry of the goer in the stayer's table,
  the tables of a host that changes groups, a leave with every fault, and two that
  stay. Datagrams of 2 ticks, and the failing receive task in the second scene,
  were tried as well and pass.
* **`traffic`**: a gap of 3 ticks and a part's delay of 1 are the code's 150 and
  50 ms. Two events in the channel (64 in the code) are few enough to lose both
  kinds; two frames make a readout with a gap inside; two links are an old and a
  new one. Four installations share out the tasks.
* **`dialogue`**: requests between them use every command that sets something,
  each spelling that differs, and some that must be refused; one request or import,
  one readout and one fault meet in any order. Pieces of 2 and 20 bytes cut every
  frame in the head, the body and the checksum, and join two. `MaxAir` bounds
  how far commands run ahead of answers.
* **`Faults`, `Inputs`, `Claimants`, `Unsuppressable`, `CallFaults`** choose per
  run which calls may fail and which outside inputs occur. They are split over
  the runs because together they exceed what TLC explores in minutes; the
  theorems do not depend on them.

### Fairness

`GroupHub!Fairness`: time passes; every action of the apply loop returns, since
all platform calls but the restoration are wrapped in timeouts and that one is
awaited until the driver is done; the worker's control branch is weakly fair;
a tick is strongly fair, because a control message has precedence under the
lock and datagrams do not fill a queue for ever; a session of the C interface
(`Native`) whose hub stopped running calls `leave`. Nobody leaves for another host:
there a handoff may stay for ever in the phase it is in, and `HandoffEnds` excepts
such a hub (`Abandoned`) and no other. No fairness is assumed of the network, of users, or of
other hosts' answers.

`ControlChannel!Fairness`: tokio's mutexes are fair queues, so whoever waits for
the operations mutex or the hub's lock gets it eventually although others take it
again and again (strong fairness of the session's steps, of the pump's critical
section and of its last step); the pump and a CD run. Nothing is assumed of the
headset, the radio or abandoned closures.

`HostTraffic!Fairness`: sleeps end, transport calls return (each ends or fails),
frontends poll on a timer, and the operations mutex is handed on in the order of
asking (strong fairness of `Enter`, `Clear` and `PumpTakes`).

`GroupMembership!Fairness`: time passes, heartbeats and insertions run, who has
the lock gets done with it, the lock is handed on in the order of asking
(strong for `Close`), and of the datagrams that keep coming from one host to
another some are received (strong for `Receive`). Nothing makes a user leave
or a task fail.

## 4. What is proved

For every number of hosts, headsets, nonces, links, every clock range, every
request and file, and every combination of faults and inputs, from the assumptions
on the constants in the modules only (one theorem has a hypothesis, which it states):

| Theorem | Says |
|---|---|
| `GroupHub_proofs!TypeCorrect` | all variables keep their types |
| `NeverStuckConnecting` | `ConnectingUnderLock` |
| `GapIsKept` | `GapAfterCd` |
| `CdReachesTarget` | `CdOnlyToTarget` |
| `RemoteClockCannotHold` | `ReleaseBounded` |
| `NothingStaysMuted` | `SuppressionRecorded` |
| `TakenBeatsTimeout` | `QueuedTakenWins` |
| `LeftIsQuiet` | `ClosedIsQuiet` |
| `GroupPromise_proofs!HoldingsAgree`, `ReleasesHold` | `HoldingAgrees`, `ReleasedStaysReleased` |
| `VerdictIsOne`, `HeldIsAskedFor` | `OneVerdict`, `HeldAudioIsNotGrabbed` |
| `PromiseHolds` | `PromiseKept`: `GroupHub` implements `HandoffPromise` for every nonce |
| `SuppressionsAreUndone` | `RestoredUnlessTaken`, if `Dependable`: no send and no restoration is among `Faults` |
| `WinAudioServices_proofs!NothingLost`, `SettlingIsSafe`, `LastWordRestores` | `Recoverable`, `SettlingIsOn`, `RestoreHasLastWord` |
| `ControlChannel_proofs!BytesBelong`, `CdStaysHome`, `LinkIsServed` | `NoForeignBytes`, `CdNeverCrosses`, `PumpServesLink` on all four platforms |
| `FrameDecoder_proofs!TypeCorrect`, `SplittingIsInvisible`, `BufferBounded` | `TypeOK`, `CutsIgnoreChunks`, and a decoder at rest holds at most 258 bytes |
| `FramesAreSealed` | `encode_tx` makes a frame of every body of at most 255 bytes: head, length, and a checksum that verifies |
| `HeadsetDialogue_proofs!HexRoundTrips`, `BodiesAreBytes`, `JsonRoundTrips` | `parse_hex` reads what `to_hex` writes; every command has a body of bytes; a command written in JSON is read back as itself |
| `ImportsAgree`, `ReadoutsAgree` | a session and a frontend that goes through the C interface send the same commands, for every file and every profile |
| `DialogueTypeCorrect`, `DialogueSplitting`, `AnswersArrive` | `TypeOK`, `CutsIgnoreChunks`, `FramesArrive` of the dialogue |
| `ReadoutsShowWhatIsMeant` | `ShownIsMeant`: what a readout shows is what was last asked for and can be written again |
| `HostTraffic_proofs!TypeCorrect`, `FramesStayWhole`, `FramesKeepTheGap`, `EventsTellOneStory`, `ReadersKnow` | `TypeOK`, `WholeFrames`, `Paced`, `EventsInOrder`, `DrainedShowsLink` |
| `GroupMembership_proofs!TypeCorrect`, `LeaversForget`, `SuppressionsStay`, `ListsInTime` | `TypeOK`, `LeftTableEmpty`, `SuppressionReachable`, `ListedInTime` |

### The arguments

**Group.** The first part of `GroupHub_proofs` shows that every method returns a machine and
well-formed actions, and a relation `Faithful` that says what a step may do to
the phase. The module then looks at a step from one host's side
(`StepCases`): it is an apply step, a worker step, a claim that has the lock, a
rebinding, a leave, or leaves this host alone, as a claim that waits does. The inductive invariant is

    HandoffInv == TypeOK /\ ConnectingAlone /\ GapOrPause /\ CdOnlyToTarget /\ ReleaseBounded

`ConnectingUnderLock` is not inductive: nothing in it says what else the queue
holds, and a failed entry before the connection would end the loop.
`ConnectingAlone` says the queue is exactly the connection attempt and nothing has
failed; that is what the machine returns whenever it enters the phase.
`GapAfterCd` needs `GapOrPause`: since its CD a host has either slept the gap or
has the pause at the head of its queue, and while the lock is held nothing else
can connect. `SuppressionRecorded` needs to know of hosts whose platform cannot
suppress that nothing of theirs is muted (`MutedSuppressable`). `ClosedIsQuiet`
needs `ClosedRests`: a closed hub is idle, holds nothing and has no queue.

**Releases and promises.** `ReleaseInv` is `HoldingAgrees` with `ReleasePlan`:
what the queue of a releasing host still has to do (disconnect, suppress, say so)
and what it has already done, in the order in which `apply` takes them; a failure
drops the plan and the phase together, and leaves nothing in between.

What a host *says* is not only what it has sent: an action in its queue will be
said unless it is dropped. `Voice(h)` is both together, and `ProvenanceInv` is
about it: every nonce spoken of was claimed, requests come from the claimant and
releases from anybody else; what waits in a receive queue was
sent by another host; a phase names a claim of its own, and its deadline is the
one of the ticket. Every step then is classified twice, by what it adds to the
voice (`Speech`) and by where it takes the phase (`Course`). A verdict is only
added by leaving the phase it is about, and a claim is left once: that is `OneVerdict`.
`HeldInv` adds that during the gap the CD has been written or is about to be.

`PromiseHolds` maps each step by `Speech` and `Course`: a call of `claim` is `Ask`
(`CallStage`), the lock makes of it `Begin`, or `Refuse` if the hub is busy or closed
(`ClaimBegins`, `ClaimRefused`), entering the connection is `Connect`, leaving it `Finish`, a new Released message
`LetGo`, a tick `TimePasses`, and everything else stutters. `Connect` is allowed
because a machine only gets there from a received release, which another host
sent, or from a tick at or past the deadline, which is the ticket's. `TermsKept` says
that asker and deadline stay what they were from the call to the end, so that nothing
is assumed of how long the call waits.

`SuppressionsAreUndone` adds to all this what a queue will do for a suppression
(`MutePlans`): a host that suppresses a headset is releasing it, or has the
restoration in its queue behind actions that cannot fail under `Dependable` (sends
and reports), or is about to fail an action and get it from the machine, or gave the
headset to a claimant that announced Taken. The hypothesis is not for
convenience: section 6 shows that with a failing send the code does leave a
suppression behind.

**Windows.** `SnapshotInv` ties `turnedOff` to the snapshot and to the list the
running closure is still walking: a service leaves the snapshot only after the
walk that enables everything has been through it without a failure. `GateInv` says
that at most one closure is between the gate and its return, and that it is the
newest of its address, from which the last word follows.

**Channel.** `ChannelInv` says who can hold the mutex at which point of which
task, that outside of a connect the link of `LinkState` is the last one opened, that
a pump that is not stale captured the current link, that the control address is
revoked before the channel changes, and so that a CD being written is for the
address of the link.

**Decoder.** `CutsIgnoreChunks` needs one more thing to be inductive: a push only
appends, so a cut that could be made in the stream so far is the same cut in any
longer stream (lemma `CutStable`, about `CanCut`, `CutEnd` and the checksum's
argument). That proof computes no sum: the checksum of the same bytes is the same.

**Data.** The checksum, hexadecimal text and what is kept of a list are recursive
functions. `SetInduction`, induction over the numbers in a *set*, follows from the
well-foundedness of the natural numbers; from it `Recursion` shows once that such a
function exists, has its type and follows its equation, for a step and
a start given as data. `ChecksumRange` and `AppendedVerifies` (a word cut into its
high and low byte is put together again) then give `FramesAreSealed`;
`HexRoundTrips`, `KeptAll` and the table lemmas give the round trips, and these
that both plans of an import and of a readout are one.

**Dialogue.** `FramesArrive` alone is not inductive: it says nothing of answers
under way. The invariant is

    DInv == Inv /\ types of air, plan and device /\ Covered /\ Sent /\ (~damaged => Tiled)

where `Inv` is the decoder's. `Sent` says that every answer in `truth` lies as a
sealed frame in what was received followed by what is under way, through every
lost byte and every stray head; `Covered` that items have no gaps; `Tiled` that
while nothing was damaged the answers are the tiles of the whole stream and the
decoder stands at the edge of one. An answer that was passed
without a false frame over its beginning is then a position where the decoder cut,
and there is one cut per position. The headset's answers are sealed frames
because of `AnswerType` and the checksum; the plan matters because only commands
make bodies of bytes.

`ShownIsMeant` speaks of a moment of rest, and needs to know what holds on the way
there. The invariant is

    RInv == DInv /\ Understood /\ Counted /\ Reported

`Understood` says that the plan leads the headset to what is meant (`Leads`): what
the headset says is divided into eleven parts (`Parts`), and of each part either the
last body of the plan that sets it sets it to what is meant, or no body does and it
is so already. An import sends its commands in an order of its own; `ImportLeads`
shows that this does not matter, because the commands that set one part all fall in
one of the three groups (`OneRank`), in which they keep their order. During a readout
nothing but queries is sent, so headset and meaning agree throughout. `Reported` says
of every kind the profile shows that its query is still to be sent (`Pending`), or
that an answer to it is in the stream, says what the headset says now, is followed by
no frame of that kind, and, once it was passed on, is what both views show
(`Latest`). The items are in the order of the stream (`ItemsInOrder`), so of the
frames that tell a kind the one passed on last is the latest. At rest nothing is
pending and every answer was consumed, hence cut (`AnswersArrive`) and shown; the
tables close the circle: `AnswersSay` that the notification made of an answer is that
of the value meant, `WrittenAgain` that what is shown of it can be written again.

**Traffic.** `FrameInv` says that whoever holds the mutex is the only one inside
a frame, that the piece on the wire is the last part of that frame, and that the
longest sleep and `rest` cover what is left of the gap since that piece, `quiet`.
`WholeFrames` and `Paced` are action properties, proved from it step by step.
`EventInv` adds that the last event of the channel is about the current link,
unless the connect that opened it has yet to announce it; `EventsInOrder` follows
event by event. `DrainedShowsLink` needs `ReadersInv`: every reader shows the link that was announced
and has only notifications before it, or the last event about the link is still
before it, unless `dropped` says that just that event was overwritten.

**Membership.** The inductive invariant is

    IInv == TypeOK /\ Ownership /\ Tidiness /\ Timely

`Ownership` says that tasks, locks and leaves belong to a hub that the session
can reach, and that at most one of its leaves is under the lock. `Tidiness` says
what a leave has cleared at each step and what the platform keeps is on record.
`Timely` is what `ListedInTime` lacks: whatever a heartbeat carries, a datagram
says, an announcement in hand repeats or an entry keeps was true at most so
many ticks ago, which the history ages bound; from step to step the bound only
grows by what `InTime`, `Delay` and the life of an entry allow.

### Model-checked only

`HandoffEnds`, `LostLinkNoticed`, `CallsReturn`, `ShownEventually`, `SendsReturn`,
`LeaveReturns` and `DiscoveredEventually` are liveness under fairness, which the
installed provers do not do, as they do not do `ENABLED`. Every safety invariant and
every action property the passing runs check is also proved.

## 5. What is not modelled

* **Reports** to the user interface are left out, except those that end a handoff.
* **Encryption and key derivation, C strings, JNI, JSON syntax**: a datagram is
  opened as it was sealed, by who has the passphrase; a JSON value is a record with
  the fields the code reads. Text is bytes where it can be told apart.
* **`run` failing in the middle of an apply loop** is modelled in `GroupHub` as
  completing that operation first; `GroupMembership` has the task's own leave step by
  step. `set_holding`, `set_has_audio` and `set_can_control` have no production
  caller. A `CdFallback` is always present in every program of the repository.
* **The order of the services in a walk** is any order. A crash leaves Windows
  services disabled: nothing in the repository stores the snapshot, and the model
  agrees.
* **Two equal abandoned closures** count as one. In `HostTraffic` only an abandoned
  CD is followed; the others are in `ControlChannel`.
* **A heartbeat across several intervals**: local mutexes are assumed to be had
  within one. Two calls of one session at the same time: no frontend makes them.
* **Late closures**: `CdNeverCrosses`, `WholeFrames` and `Paced` are about writes that
  somebody waits for. A CD given up on a blocking transport may write later, between
  frames or on another link; the models have that step, and no property forbids it,
  since nothing in the code does.
* **Broken characters**: `from_utf8_lossy` puts one mark for the beginning of a
  character that breaks off, `Lossy` one for each of its bytes. Names that are text
  stay what they are in both.
* **The wrap of a volume byte**: `Commands` wraps it, as a release build does; a
  debug build would stop there, for a byte no documented headset sends.
* **Win32, WinRT, D-Bus, IOBluetooth and socket calls** are inputs with every
  outcome the code distinguishes.
* **Scanning, pairing, logging, the handles of the C interface for a bare state
  machine and envelope.**
* **Frontends**: apart from what GTK's `state.rs`, the command line's `listen` and
  the C interface do, the applications' reducers, pages, preferences and the macOS
  updater are not modelled. Their callbacks (service discovery, audio connection
  requests) run on one loop of the system.

## 6. Disagreements between the code and what it says

* **`lost_restore`** (`actions.rs:102`). A release times out while the network is
  down: `tick` has set the machine to Idle and returned Abort, Restore, Report;
  the Abort cannot be sent, `apply` drops the rest and asks the machine again, which
  is idle and returns nothing. The platform stays suppressed until the hub
  leaves. The comment above says cancel and restore are what is still executed.
  (`RestoredUnlessTaken` holds in `handoff`, where sends do not fail.)

Others were met while modelling and have no run: a host that has just released a
headset answers NoAudio where `docs/group.md:15` promises Busy (`runner.rs:205`);
on Android `recv` cannot report a closed link (`BluetoothBridge.kt:192`, against
`transport.rs:52`); a claim that waits for the lock sends a request whose deadline is
over, which nobody answers (`group.rs:233`); a hub of GTK or the command line whose
receive loop fails is in its group for ever and deaf (`state.rs:108`); a cancelled blocking call on macOS may act on a connection
opened later (`iobluetooth.rs:7`); a settings file of version 2^32 is taken for
version 0 (`settings.rs:90`; what a file means does not depend on its version, so
`ShownIsMeant` cannot tell); the five seconds of `RX_BUFFER_TIMEOUT_MS`
(`constants.rs:19`) are used nowhere.

## 7. Plan

Done, in this order: the machine and the group (the core of the system and the
part with most interleavings), the Windows services, the control channel, the
protocol and its dialogue, the traffic of the host, the membership of groups.

Next:

1. **macOS Bluetooth objects** (`SDPQueryRegistry`, `AudioConnectionRequest`,
   `RfcommConnection`): tables of pending queries, late callbacks, the three timers.
   Invariants: a callback never completes another query; limits hold; every
   request is answered once.
2. **Session state of the applications** (`AppActions`, `SessionState`, `AppModel`,
   event pumps): events and results of calls that arrive in any order.
3. **Updater of macOS**: a staged installation with crashes between steps.
   Invariant: at every point there is a complete application to start.
