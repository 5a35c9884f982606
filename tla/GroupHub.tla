------------------------------ MODULE GroupHub ------------------------------
(***************************************************************************)
(* The hosts of one group (crates/edifier-runtime/src/group.rs, actions.rs *)
(* and runner.rs): every host runs a GroupHub that drives its              *)
(* HandoffMachine, talks to the others by UDP multicast and commands the   *)
(* Bluetooth audio of its platform.                                        *)
(*                                                                         *)
(* The operation lock of a hub is held exactly while its apply loop has    *)
(* something left to do, so work[h].queue is both the loop's queue and the *)
(* lock.  The loop executes one action per step; other hosts, the network, *)
(* the platform and the clock move between two steps.                      *)
(***************************************************************************)
EXTENDS HandoffMachine, FiniteSets

CONSTANTS
  Host,                  \* members of the group, by local id
  NoHost,
  ControlQueueCapacity,  \* CONTROL_QUEUE_CAPACITY
  ReplyReserve,          \* the 250 ms kept for the reply, in clock units
  Skew,                  \* how far each host's wall clock runs ahead
  Unsuppressable,        \* hosts whose platform cannot suppress reconnection
  Faults,                \* which calls may fail
  Inputs,                \* what users and the world do to the hubs, besides claims
  Claimants,             \* the hosts whose users claim headsets
  Native                 \* the hosts whose program uses the C interface

FaultKind ==
  {"send", "recv", "observe", "suppress", "restore", "connect", "select",
   "disconnect", "cd"}

InputKind == {"adopt", "rebind", "leave", "drop", "reconnect"}

ASSUME HostAssumption ==
  /\ NoHost \notin Host
  /\ Unsuppressable \subseteq Host
  /\ Claimants \subseteq Host
  /\ Native \subseteq Host
  /\ Skew \in [Host -> Nat]
ASSUME HubAssumption ==
  /\ ControlQueueCapacity \in Nat \ {0}
  /\ ReplyReserve \in Nat
  /\ Faults \subseteq FaultKind
  /\ Inputs \subseteq InputKind

VARIABLES
  machine,  \* machine: HandoffMachine of each hub
  op,       \* OperationState of each hub
  holding,  \* peer.holding, the headset the hub claims to hold
  closed,   \* closed
  running,  \* FALSE once run() has stopped because receiving failed
  work,     \* the apply loop in progress: its queue and its failure
  rx,       \* control messages between the receive loop and the worker
  sent,     \* every datagram broadcast so far
  link,     \* the host each headset streams audio with
  muted,    \* reconnections the platforms really suppress
  asked,    \* the claim that waits for the lock with each nonce
  cdAt,     \* when this host last wrote CD for its current claim
  ticket,   \* who claimed each nonce, and the deadline of that claim
  now       \* real time

vars == <<machine, op, holding, closed, running, work, rx, sent, link, muted,
          asked, cdAt, ticket, now>>

hubState == <<op, holding, closed, running>>
world    == <<link, muted>>
claims   == <<asked, cdAt, ticket>>  \* cdAt and ticket are history

Never == -1

Clock(h) == saturating_add(now, Skew[h])
Datagram(h, msg) == [from |-> h, msg |-> msg]

\* The sleep after a CD: the loop goes on, still under the lock, at `until`.
Pause(until) == [do |-> "Pause", until |-> until]
Queued == Action \cup [do : {"Pause"}, until : Time]

Work == [queue : Seq(Queued), failed : BOOLEAN]
NoWork == [queue |-> <<>>, failed |-> FALSE]
LockFree(h) == work[h].queue = <<>>
Doing(h, kind) == ~LockFree(h) /\ Head(work[h].queue).do = kind
Target(h) == Head(work[h].queue).mac

\* A call of claim that has read the clock, but has not got the lock yet.
NoClaim == [by |-> NoHost, mac |-> NoHeadset, at |-> 0]
Call == [by : Host \cup {NoHost}, mac : Headset \cup {NoHeadset}, at : Time]

phase(h) == machine[h].phase
phase_mac(h) == phase(h).headphone

OperationState == [suppressed : SUBSET Headset,
                   controlAddress : Headset \cup {NoHeadset},
                   audioCandidate : Headset \cup {NoHeadset},
                   canControl : BOOLEAN]

TypeOK ==
  /\ machine \in [Host -> Machine]
  /\ op \in [Host -> OperationState]
  /\ holding \in [Host -> Headset \cup {NoHeadset}]
  /\ closed \in [Host -> BOOLEAN]
  /\ running \in [Host -> BOOLEAN]
  /\ work \in [Host -> Work]
  /\ rx \in [Host -> Seq(Message)]
  /\ sent \subseteq [from : Host, msg : Message]
  /\ link \in [Headset -> Host \cup {NoHost}]
  /\ muted \subseteq Host \X Headset
  /\ asked \in [Nonce -> Call]
  /\ cdAt \in [Host -> Time \cup {Never}]
  /\ ticket \in [Nonce -> [by : Host \cup {NoHost}, due : Time]]
  /\ now \in Time

-----------------------------------------------------------------------------
(* Control capability *)

\* The control channel belongs to the headset hp (send_cd_command).
Bound(h, hp) == op[h].canControl /\ op[h].controlAddress = hp

\* Mutant: any bound channel will do.
CapabilityAnywhere(m, o) == o.canControl /\ o.controlAddress # NoHeadset

\* update_control_capability for the machine m of a hub bound to address c.
\* Every program of the repository gives its hubs a CdFallback.
Capability(m, o) ==
  LET target == IF m.phase.headphone # NoHeadset THEN m.phase.headphone
                                                 ELSE o.controlAddress
  IN o.canControl /\ o.controlAddress # NoHeadset /\ o.controlAddress = target

update_control_capability(m, o) == [m EXCEPT !.canControlHeadset = Capability(m, o)]

\* Hubs that have just joined: audio adopted or not, control channel bound or not.
Init ==
  /\ link \in [Headset -> Host \cup {NoHost}]
  /\ holding \in [Host -> Headset \cup {NoHeadset}]
  /\ \A h \in Host : holding[h] # NoHeadset => link[holding[h]] = h
  /\ \E control \in [Host -> Headset \cup {NoHeadset}] :
        op = [h \in Host |-> [suppressed |-> {}, controlAddress |-> control[h],
                              audioCandidate |-> holding[h], canControl |-> TRUE]]
  /\ machine = [h \in Host |->
        update_control_capability(
          [NewMachine EXCEPT !.hasAudio = (holding[h] # NoHeadset)], op[h])]
  /\ closed = [h \in Host |-> FALSE]
  /\ running = [h \in Host |-> TRUE]
  /\ work = [h \in Host |-> NoWork]
  /\ rx = [h \in Host |-> <<>>]
  /\ sent = {}
  /\ muted = {}
  /\ asked = [n \in Nonce |-> NoClaim]
  /\ cdAt = [h \in Host |-> Never]
  /\ ticket = [n \in Nonce |-> [by |-> NoHost, due |-> 0]]
  /\ now = 0

-----------------------------------------------------------------------------
(* The apply loop *)

\* A handler took the lock: the machine made the step s, its actions follow.
Begin(h, s) ==
  /\ machine' = [machine EXCEPT ![h] = s.m]
  /\ work' = [work EXCEPT ![h] = [queue |-> s.acts, failed |-> FALSE]]

\* The head action succeeded; what it asks for runs before the rest.  The lock
\* is released, and the failure returned, when nothing is left.
Proceed(h, more, failed) ==
  LET rest == more \o Tail(work[h].queue)
  IN work' = [work EXCEPT ![h] = [queue |-> rest, failed |-> failed /\ rest # <<>>]]

\* The head action failed, leaving machine m.  Only the first failure drops
\* the queue and cancels the handoff; a later one is logged and skipped.
FailAction(h, m) ==
  IF work[h].failed
  THEN /\ machine' = [machine EXCEPT ![h] = m]
       /\ Proceed(h, <<>>, TRUE)
  ELSE LET s == on_audio_failed(m)
           queue == IF s.acts = <<>> THEN <<Report("Failed")>> ELSE s.acts
       IN /\ machine' = [machine EXCEPT ![h] = s.m]
          /\ work' = [work EXCEPT ![h] = [queue |-> queue, failed |-> TRUE]]

\* update_holding: has_audio follows holding.
WithHolding(h, hp) == [machine[h] EXCEPT !.hasAudio = (hp # NoHeadset)]

\* Mutant: the record goes even if the restoration failed.
LiftForgetting(h, o, hp, ok) ==
  /\ ok \/ (hp \in o.suppressed /\ "restore" \in Faults)
  /\ op' = [op EXCEPT ![h] = [o EXCEPT !.suppressed = @ \ {hp}]]
  /\ muted' = IF ok THEN muted \ {<<h, hp>>} ELSE muted

\* suppress(mac, false) with result ok by a hub whose state is o; a headset
\* without a record is left alone.
LiftSuppression(h, o, hp, ok) ==
  IF hp \in o.suppressed /\ ok
  THEN /\ op' = [op EXCEPT ![h] = [o EXCEPT !.suppressed = @ \ {hp}]]
       /\ muted' = muted \ {<<h, hp>>}
  ELSE /\ ok \/ (hp \in o.suppressed /\ "restore" \in Faults)
       /\ op' = [op EXCEPT ![h] = o]
       /\ UNCHANGED muted

DoSend(h) ==
  /\ Doing(h, "Send")
  /\ \/ /\ sent' = sent \cup {Datagram(h, Head(work[h].queue).msg)}
        /\ Proceed(h, <<>>, work[h].failed)
        /\ UNCHANGED machine
     \/ /\ "send" \in Faults
        /\ FailAction(h, machine[h])
        /\ UNCHANGED sent
  /\ UNCHANGED <<hubState, rx, world, claims, now>>

\* connect_and_select: lift our own suppression, connect and wait for the
\* platform to confirm, select the output.  When the selection fails a
\* connection made here is rolled back and the audio observed again.
DoConnectAudio(h) ==
  /\ Doing(h, "ConnectAudio")
  /\ LET hp == Target(h) IN
     \/ /\ LiftSuppression(h, op[h], hp, FALSE)
        /\ FailAction(h, machine[h])
        /\ UNCHANGED <<holding, link>>
     \/ /\ LiftSuppression(h, op[h], hp, TRUE)
        /\ \/ /\ "connect" \in Faults  \* the driver may still connect later
              /\ link' \in {link, [link EXCEPT ![hp] = h]}
              /\ FailAction(h, machine[h])
              /\ UNCHANGED holding
           \/ /\ link' = [link EXCEPT ![hp] = h]
              /\ holding' = [holding EXCEPT ![h] = hp]
              /\ LET s == on_audio_connected(WithHolding(h, hp))
                 IN /\ machine' = [machine EXCEPT ![h] = s.m]
                    /\ Proceed(h, s.acts, work[h].failed)
           \/ /\ "select" \in Faults
              /\ \/ link' = [link EXCEPT ![hp] = h]
                 \/ link[hp] # h /\ link' = [link EXCEPT ![hp] = NoHost]
              /\ holding' \in {[holding EXCEPT ![h] = seen] : seen \in
                    IF link'[hp] = h THEN {hp}
                    ELSE IF "observe" \in Faults THEN {hp, NoHeadset} ELSE {NoHeadset}}
              /\ FailAction(h, WithHolding(h, holding'[h]))
  /\ UNCHANGED <<closed, running, rx, sent, claims, now>>

\* disconnect_verified: only an observed Disconnected before the request's
\* deadline, minus the reserve for the reply, counts as released.  A CD to a
\* bound control channel is its last resort, and severs whoever streams.
DoDisconnectAudio(h) ==
  /\ Doing(h, "DisconnectAudio")
  /\ LET hp == Target(h)
         ours == holding[h] = hp /\ phase(h).kind = "Releasing" /\ phase_mac(h) = hp
         inTime == Clock(h) + ReplyReserve < phase(h).at
         dropped == [link EXCEPT ![hp] = IF @ = h THEN NoHost ELSE @]
         severed == IF Bound(h, hp) THEN {[link EXCEPT ![hp] = NoHost]} ELSE {}
     IN \/ /\ ours /\ inTime
           /\ link' \in {dropped} \cup severed
           /\ holding' = [holding EXCEPT ![h] = NoHeadset]
           /\ LET s == on_audio_disconnected(WithHolding(h, NoHeadset))
              IN /\ machine' = [machine EXCEPT ![h] = s.m]
                 /\ Proceed(h, s.acts, work[h].failed)
        \/ /\ \/ (~ours \/ ~inTime) /\ UNCHANGED link
              \/ /\ ours /\ inTime /\ "disconnect" \in Faults
                 /\ link' \in {link, dropped} \cup severed
           /\ FailAction(h, machine[h])
           /\ UNCHANGED holding
  /\ UNCHANGED <<op, closed, running, rx, sent, muted, claims, now>>

\* suppress(mac, true): recorded before the platform is called, which may act
\* and still fail; unrecorded again where the platform does not support it.
DoSuppress(h) ==
  /\ Doing(h, "Suppress")
  /\ LET hp == Target(h)
         exhausted == /\ phase(h).kind = "Releasing" /\ phase_mac(h) = hp
                      /\ Clock(h) + ReplyReserve >= phase(h).at
         recorded == [op EXCEPT ![h].suppressed = @ \cup {hp}]
         quiet == muted \cup {<<h, hp>>}
     IN \/ /\ exhausted
           /\ FailAction(h, machine[h])
           /\ UNCHANGED <<op, muted>>
        \/ /\ ~exhausted /\ h \notin Unsuppressable
           /\ op' = recorded /\ muted' = quiet
           /\ Proceed(h, <<>>, work[h].failed)
           /\ UNCHANGED machine
        \/ /\ ~exhausted /\ h \in Unsuppressable
           /\ op' = [op EXCEPT ![h].suppressed = @ \ {hp}]
           /\ Proceed(h, <<>>, work[h].failed)
           /\ UNCHANGED <<machine, muted>>
        \/ /\ ~exhausted /\ "suppress" \in Faults
           /\ op' = recorded
           /\ muted' \in {muted} \cup (IF h \in Unsuppressable THEN {} ELSE {quiet})
           /\ FailAction(h, machine[h])
  /\ UNCHANGED <<holding, closed, running, rx, sent, link, claims, now>>

DoRestore(h) ==
  /\ Doing(h, "Restore")
  /\ \/ /\ LiftSuppression(h, op[h], Target(h), TRUE)
        /\ Proceed(h, <<>>, work[h].failed)
        /\ UNCHANGED machine
     \/ /\ LiftSuppression(h, op[h], Target(h), FALSE)
        /\ FailAction(h, machine[h])
  /\ UNCHANGED <<holding, closed, running, rx, sent, link, claims, now>>

\* Mutant: no sleep.
NoGap(h) == <<>>

\* The sleep of send_cd, counted from the end of the write.
CdGap(h) == <<Pause(saturating_add(Clock(h), ConnectGap))>>

\* send_cd: the CD is written only to a control channel bound to the target,
\* and the loop then sleeps for the gap.
DoSendHeadsetDisconnect(h) ==
  /\ Doing(h, "SendHeadsetDisconnect")
  /\ LET hp == phase_mac(h)
         bound == hp # NoHeadset /\ Bound(h, hp)
     IN \/ /\ bound
           /\ link' \in {link, [link EXCEPT ![hp] = NoHost]}
           /\ cdAt' = [cdAt EXCEPT ![h] = Clock(h)]
           /\ Proceed(h, CdGap(h), work[h].failed)
           /\ UNCHANGED machine
        \/ /\ ~bound \/ "cd" \in Faults
           /\ FailAction(h, machine[h])
           /\ UNCHANGED <<link, cdAt>>
  /\ UNCHANGED <<hubState, rx, sent, muted, asked, ticket, now>>

DoPause(h) ==
  /\ Doing(h, "Pause")
  /\ Clock(h) >= Head(work[h].queue).until
  /\ Proceed(h, <<>>, work[h].failed)
  /\ UNCHANGED <<machine, hubState, rx, sent, world, claims, now>>

\* A reported Busy or Failed becomes the result of apply without cancelling
\* anything: it may be about a claim that was refused.
DoReport(h) ==
  /\ Doing(h, "Report")
  /\ Proceed(h, <<>>,
       work[h].failed \/ Head(work[h].queue).progress \in {"Busy", "Failed"})
  /\ UNCHANGED <<machine, hubState, rx, sent, world, claims, now>>

ApplyStep(h) ==
  \/ DoSend(h) \/ DoConnectAudio(h) \/ DoDisconnectAudio(h) \/ DoSuppress(h)
  \/ DoRestore(h) \/ DoSendHeadsetDisconnect(h) \/ DoPause(h) \/ DoReport(h)

-----------------------------------------------------------------------------
(* The handlers: each takes the lock, so each needs it free *)

\* claim: a fresh random nonce, and the clock as it is before the lock is asked
\* for.
Claim(h, hp, n) ==
  /\ h \in Claimants
  /\ ticket[n].by = NoHost /\ asked[n] = NoClaim
  /\ asked' = [asked EXCEPT ![n] = [by |-> h, mac |-> hp, at |-> Clock(h)]]
  /\ UNCHANGED <<machine, hubState, work, rx, sent, world, cdAt, ticket, now>>

\* claim_at has got the lock: the deadline counts from the clock that was read,
\* and may have passed.
ClaimAt(h, hp, n) ==
  /\ asked[n].by = h /\ asked[n].mac = hp
  /\ LockFree(h) /\ ~closed[h] /\ ticket[n].by = NoHost
  /\ asked' = [asked EXCEPT ![n] = NoClaim]
  /\ LET free == phase(h).kind = "Idle"
         m == IF free
              THEN [machine[h] EXCEPT !.canControlHeadset = Bound(h, hp)]
              ELSE machine[h]
         s == claim(m, hp, n, asked[n].at)
     IN /\ Begin(h, s)
        /\ IF free
           THEN /\ op' = [op EXCEPT ![h].audioCandidate = hp]
                /\ ticket' = [ticket EXCEPT ![n] = [by |-> h, due |-> s.m.phase.at]]
                /\ cdAt' = [cdAt EXCEPT ![h] = Never]
           ELSE UNCHANGED <<op, cdAt, ticket>>
  /\ UNCHANGED <<holding, closed, running, rx, sent, world, now>>

\* ensure_open: the hub has been left while the claim waited.
ClaimClosed(h, n) ==
  /\ asked[n].by = h
  /\ LockFree(h) /\ closed[h]
  /\ asked' = [asked EXCEPT ![n] = NoClaim]
  /\ UNCHANGED <<machine, hubState, work, rx, sent, world, cdAt, ticket, now>>

\* A claim begins to wait, or has waited for nothing.
Calling(h) ==
  \E n \in Nonce : ClaimClosed(h, n) \/ \E hp \in Headset : Claim(h, hp, n)

\* receive_loop: the network duplicates, reorders and loses datagrams, the
\* loop drops its own and those that find the queue full.
Receive(h) ==
  /\ running[h] /\ ~closed[h] /\ Len(rx[h]) < ControlQueueCapacity
  /\ \E d \in sent : d.from # h /\ rx' = [rx EXCEPT ![h] = Append(@, d.msg)]
  /\ UNCHANGED <<machine, hubState, work, sent, world, claims, now>>

\* dispatch_control: a request is answered here unless this host holds the
\* headset; everything else goes to the machine.
dispatch_control(h, msg) ==
  LET request == msg.kind = "Request"
      expired == request /\ msg.deadline <= Clock(h)
      foreign == request /\ ~expired /\ holding[h] # msg.headphone
      m == IF request THEN [machine[h] EXCEPT !.hasAudio = TRUE] ELSE machine[h]
      reply == {Datagram(h, Reply("NoAudio", msg.nonce))}
  IN \/ expired /\ UNCHANGED <<machine, work, sent>>
     \/ /\ foreign
        /\ sent' \in {sent \cup reply} \cup (IF "send" \in Faults THEN {sent} ELSE {})
        /\ UNCHANGED <<machine, work>>
     \/ /\ ~expired /\ ~foreign
        /\ Begin(h, on_message(m, msg, Clock(h)))
        /\ UNCHANGED sent

\* Mutant: closed is not checked again under the lock.
WorkerLocked(h) == running[h] /\ LockFree(h)

\* The worker of an open hub has got the lock.
WorkerReady(h) == running[h] /\ ~closed[h] /\ LockFree(h)

\* Mutant: the queue is not looked at again under the lock.
WorkerDue(h) == WorkerReady(h)

\* Control messages come first: a worker that woke up for a tick or a refresh
\* looks at the queue again once it has the lock.
WorkerUnclaimed(h) == WorkerReady(h) /\ rx[h] = <<>>

WorkerControl(h) ==
  /\ WorkerReady(h) /\ rx[h] # <<>>
  /\ rx' = [rx EXCEPT ![h] = Tail(@)]
  /\ dispatch_control(h, Head(rx[h]))
  /\ UNCHANGED <<hubState, world, claims, now>>

\* A tick that finds something due (any other leaves everything as it is).
WorkerTick(h) ==
  /\ WorkerUnclaimed(h)
  /\ phase(h).kind # "Idle"
  /\ LET s == tick(machine[h], Clock(h))
     IN s # Ignored(machine[h]) /\ Begin(h, s)
  /\ UNCHANGED <<hubState, rx, sent, world, claims, now>>

\* refresh_holding of an idle hub observes what it holds or last wanted.
WorkerRefresh(h) ==
  /\ WorkerUnclaimed(h) /\ phase(h).kind = "Idle"
  /\ LET candidate == IF holding[h] # NoHeadset THEN holding[h] ELSE op[h].audioCandidate
         seen == IF candidate # NoHeadset /\ link[candidate] = h
                 THEN candidate ELSE NoHeadset
     IN \E hp \in {seen} \cup (IF "observe" \in Faults THEN {NoHeadset} ELSE {}) :
          /\ holding' = [holding EXCEPT ![h] = hp]
          /\ machine' = [machine EXCEPT ![h] = WithHolding(h, hp)]
  /\ UNCHANGED <<op, closed, running, work, rx, sent, world, claims, now>>

\* Mutant: only the announced state is updated.
HoldsSilently(h, hp) ==
  /\ holding' = [holding EXCEPT ![h] = hp]
  /\ UNCHANGED machine

\* update_holding
Holds(h, hp) ==
  /\ holding' = [holding EXCEPT ![h] = hp]
  /\ machine' = [machine EXCEPT ![h] = WithHolding(h, hp)]

\* adopt_headset: take the audio of hp if the platform confirms it.
AdoptHeadset(h, hp) ==
  /\ "adopt" \in Inputs
  /\ LockFree(h) /\ ~closed[h] /\ phase(h).kind = "Idle"
  /\ LET o == [op[h] EXCEPT !.audioCandidate = hp] IN
     \/ /\ hp = NoHeadset
        /\ op' = [op EXCEPT ![h] = o]
        /\ Holds(h, NoHeadset)
        /\ UNCHANGED world
     \/ /\ hp # NoHeadset
        /\ LiftSuppression(h, o, hp, TRUE)
        /\ link' = [link EXCEPT ![hp] = h]
        /\ Holds(h, hp)
     \/ /\ hp # NoHeadset
        /\ LiftSuppression(h, o, hp, FALSE)
        /\ Holds(h, NoHeadset)
        /\ UNCHANGED link
     \/ /\ hp # NoHeadset /\ "connect" \in Faults
        /\ LiftSuppression(h, o, hp, TRUE)
        /\ link' \in {link, [link EXCEPT ![hp] = h]}
        /\ Holds(h, NoHeadset)
  /\ UNCHANGED <<closed, running, work, rx, sent, claims, now>>

\* set_control_address: the headset session connected, or lost, its channel.
SetControlAddress(h, hp) ==
  /\ "rebind" \in Inputs
  /\ LockFree(h) /\ ~closed[h] /\ op[h].controlAddress # hp
  /\ op' = [op EXCEPT ![h].controlAddress = hp]
  /\ machine' = [machine EXCEPT ![h] = update_control_capability(@, op'[h])]
  /\ UNCHANGED <<holding, closed, running, work, rx, sent, world, claims, now>>

\* run() returns an error when receiving fails; an operation that has begun
\* is completed.
ReceiveFails(h) ==
  /\ "recv" \in Faults /\ running[h] /\ ~closed[h]
  /\ running' = [running EXCEPT ![h] = FALSE]
  /\ UNCHANGED <<machine, op, holding, closed, work, rx, sent, world, claims, now>>

\* leave: close the hub, abort the handoff in progress, forget the group and
\* restore every recorded suppression, whatever fails on the way.  Calling it
\* again retries the restorations that failed.  Only the C interface leaves: when
\* its user does, and when run() has failed.  GTK and the command line never do.
Leave(h) ==
  /\ h \in Native
  /\ "leave" \in Inputs \/ ~running[h]
  /\ LockFree(h)
  /\ ~closed[h] \/ op[h].suppressed # {}
  /\ LET s == on_audio_failed(machine[h])
         aborts == {Datagram(h, s.acts[i].msg) :
                      i \in {j \in DOMAIN s.acts : s.acts[j].do = "Send"}}
     IN /\ machine' = [machine EXCEPT ![h] =
              [s.m EXCEPT !.hasAudio = FALSE, !.canControlHeadset = FALSE]]
        /\ sent' \in {sent \cup aborts} \cup (IF "send" \in Faults THEN {sent} ELSE {})
  /\ \E stuck \in SUBSET op[h].suppressed :
        /\ stuck # {} => "restore" \in Faults
        /\ op' = [op EXCEPT ![h] = [suppressed |-> stuck, controlAddress |-> NoHeadset,
                                    audioCandidate |-> NoHeadset, canControl |-> FALSE]]
        /\ muted' = muted \ {<<h, hp>> : hp \in op[h].suppressed \ stuck}
  /\ holding' = [holding EXCEPT ![h] = NoHeadset]
  /\ closed' = [closed EXCEPT ![h] = TRUE]
  /\ UNCHANGED <<running, work, rx, link, claims, now>>

-----------------------------------------------------------------------------
(* The world *)

\* A headset is switched off, walks out of range or is disconnected by hand.
LinkDrops(hp) ==
  /\ "drop" \in Inputs
  /\ link[hp] # NoHost
  /\ link' = [link EXCEPT ![hp] = NoHost]
  /\ UNCHANGED <<machine, hubState, work, rx, sent, muted, claims, now>>

\* A platform reconnects a free headset on its own unless it was told not to.
AutoReconnects(h, hp) ==
  /\ "reconnect" \in Inputs
  /\ link[hp] = NoHost /\ <<h, hp>> \notin muted
  /\ link' = [link EXCEPT ![hp] = h]
  /\ UNCHANGED <<machine, hubState, work, rx, sent, muted, claims, now>>

TimePasses ==
  /\ now < MaxClock
  /\ now' = now + 1
  /\ UNCHANGED <<machine, hubState, work, rx, sent, world, claims>>

-----------------------------------------------------------------------------
(* The specification *)

Worker(h) == WorkerControl(h) \/ WorkerTick(h) \/ WorkerRefresh(h)

User(h) ==
  \/ Calling(h)
  \/ \E hp \in Headset, n \in Nonce : ClaimAt(h, hp, n)
  \/ \E hp \in Headset \cup {NoHeadset} : AdoptHeadset(h, hp) \/ SetControlAddress(h, hp)
  \/ Leave(h)

Environment ==
  \/ \E h \in Host : Receive(h) \/ ReceiveFails(h)
  \/ \E hp \in Headset : LinkDrops(hp) \/ \E h \in Host : AutoReconnects(h, hp)
  \/ TimePasses

Next == Environment \/ \E h \in Host : ApplyStep(h) \/ Worker(h) \/ User(h)

Spec == Init /\ [][Next]_vars

-----------------------------------------------------------------------------
(* What the hubs promise *)

ClaimPhase == {"WaitingRelease", "WaitingFallbackGap", "ConnectingAudio"}
Sent(h, kind, n) == Datagram(h, Reply(kind, n)) \in sent
Pending(h, action) == \E i \in DOMAIN work[h].queue : work[h].queue[i] = action

\* ConnectingAudio has no timeout of its own (handoff.rs, tick), so a hub is
\* only ever in it while its apply loop is going to connect.
ConnectingUnderLock ==
  \A h \in Host : phase(h).kind = "ConnectingAudio" => Pending(h, ConnectAudio(phase_mac(h)))

\* A reconnection that a platform suppresses is on record, so that leave can
\* undo it (actions.rs, suppress), also when the suppressing call failed.
SuppressionRecorded ==
  \A h \in Host : \A hp \in Headset : <<h, hp>> \in muted => hp \in op[h].suppressed

\* From its Released until the handoff ends a host neither claims to hold the
\* headset nor, where its platform can suppress reconnection, streams with it.
ReleasedStaysReleased ==
  \A h \in Host : phase(h).kind = "Releasing" /\ LockFree(h) =>
     /\ holding[h] # phase_mac(h) /\ ~machine[h].hasAudio
     /\ h \notin Unsuppressable => link[phase_mac(h)] # h

\* The claimant of a nonce announces Taken or Abort for it, never both.
OneVerdict ==
  \A n \in Nonce, h \in Host :
     ticket[n].by = h => ~(Sent(h, "Taken", n) /\ Sent(h, "Abort", n))

\* The deadline in a request is the claimant's clock; however far ahead that
\* runs, it holds the releasing host for at most HandoffDeadline.
ReleaseBounded ==
  \A h \in Host : phase(h).kind = "Releasing" =>
     phase(h).at <= saturating_add(Clock(h), HandoffDeadline)

\* A claim may fall back to CD only while the control channel is bound to the
\* claimed headset, whatever was bound and rebound in the meantime.
CdOnlyToTarget ==
  \A h \in Host : phase(h).kind \in ClaimPhase /\ machine[h].canControlHeadset =>
     op[h].controlAddress = phase_mac(h)

\* The fallback connects no earlier than the gap after the CD was written.
GapAfterCd ==
  \A h \in Host : cdAt[h] # Never /\ phase(h).kind = "ConnectingAudio" =>
     Clock(h) >= saturating_add(cdAt[h], ConnectGap)

\* At rest the machine's has_audio and the announced holding agree.
HoldingAgrees ==
  \A h \in Host : LockFree(h) => (machine[h].hasAudio <=> holding[h] # NoHeadset)

\* The headset hp was asked for by a claim that another host announced as done.
TakenOver(h, hp) ==
  \E n \in Nonce :
     /\ \E d \in sent : d.msg.kind = "Request" /\ d.msg.nonce = n /\ d.msg.headphone = hp
     /\ \E k \in Host \ {h} : Sent(k, "Taken", n)

\* A suppression outlives the operation that made it only because a claimant has
\* taken over that very headset, or because a message could not be sent or a
\* restoration failed.
RestoredUnlessTaken ==
  \A h \in Host : LockFree(h) /\ phase(h).kind = "Idle" =>
     \A hp \in op[h].suppressed : TakenOver(h, hp)

\* While somebody has answered that it holds the headset, a claimant connects
\* only after a release or its own CD: a bystander's NoAudio does not count.
HeldAudioIsNotGrabbed ==
  \A h \in Host : phase(h).kind = "ConnectingAudio" /\ machine[h].peerHasAudio =>
     cdAt[h] # Never \/ \E k \in Host : Sent(k, "Released", phase(h).nonce)

\* A Taken waiting in the control queue is honoured: no tick that was already
\* due turns the finished handoff into an abort.
QueuedTakenWins ==
  [][\A h \in Host, n \in Nonce :
       /\ LockFree(h) /\ phase(h).kind = "Releasing" /\ phase(h).nonce = n
       /\ \E i \in DOMAIN rx[h] : rx[h][i] = Reply("Taken", n)
       => ~Pending(h, Send(Reply("Abort", n)))']_vars

\* A hub that has left starts nothing: it only retries restorations.
ClosedIsQuiet ==
  [][\A h \in Host : closed[h] =>
       /\ machine'[h] = machine[h] /\ LockFree(h)' /\ holding'[h] = NoHeadset
       /\ \A d \in sent' \ sent : d.from # h]_vars

\* The promise the group implements, read off the waiting calls, the machines and
\* the datagrams.
Made(n) == ticket[n].by # NoHost

stageOf(n) ==
  LET p == phase(ticket[n].by) IN
  IF ~Made(n) THEN IF asked[n] = NoClaim THEN "fresh" ELSE "asked"
  ELSE IF p.nonce = n /\ p.kind \in {"WaitingRelease", "WaitingFallbackGap"} THEN "waiting"
  ELSE IF p.nonce = n /\ p.kind = "ConnectingAudio" THEN "connecting"
  ELSE "over"

askerOf(n) == IF Made(n) THEN ticket[n].by ELSE asked[n].by

dueOf(n) ==
  IF Made(n) THEN ticket[n].due
  ELSE IF asked[n] = NoClaim THEN 0 ELSE saturating_add(asked[n].at, HandoffDeadline)

Promise == INSTANCE HandoffPromise WITH
  stage <- [n \in Nonce |-> stageOf(n)],
  by    <- [n \in Nonce |-> askerOf(n)],
  due   <- [n \in Nonce |-> dueOf(n)],
  freed <- [n \in Nonce |-> {h \in Host : Sent(h, "Released", n)}],
  clock <- [h \in Host |-> Clock(h)]

PromiseKept == Promise!Spec

-----------------------------------------------------------------------------
(* Liveness *)

\* Platform calls return (all but the restoration under a timeout, and that
\* one is awaited because the driver finishes it), the worker of a running
\* hub is scheduled, and the C interface leaves when its runner fails.  A tick
\* needs strong fairness because control messages go first: datagrams do not
\* keep the queue of a hub full forever.
Fairness ==
  /\ WF_vars(TimePasses)
  /\ \A h \in Host :
       /\ WF_vars(ApplyStep(h))
       /\ WF_vars(WorkerControl(h))
       /\ SF_vars(WorkerTick(h))
  /\ \A h \in Native : WF_vars(~running[h] /\ Leave(h))

FairSpec == Spec /\ Fairness

\* The receive loop has failed in a program that drops its error (state.rs and
\* listen.rs, where run() is spawned): nobody ticks, and nobody leaves.
Abandoned(h) == h \notin Native /\ ~running[h]

\* Whatever is lost or fails, a handoff ends: every hub gets back to Idle with
\* its operation lock free, unless it is abandoned.
HandoffEnds ==
  \A h \in Host : phase(h).kind # "Idle" ~>
                     (phase(h).kind = "Idle" /\ LockFree(h)) \/ Abandoned(h)
=============================================================================
